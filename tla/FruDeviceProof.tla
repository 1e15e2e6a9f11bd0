--------------------------- MODULE FruDeviceProof ---------------------------
(***************************************************************************)
(* The theorems about the fru-device daemon: no two FRUs share an object   *)
(* path, D-Bus shows the map of what was read, a scan of one bus leaves    *)
(* the others' paths alone, and every FRU within reach is read from one    *)
(* bus.  What publishing does to the interfaces, one location after        *)
(* another, is shown first, for any set of locations.                      *)
(*                                                                         *)
(* The transfers of the daemon (FruTransfer) follow: detection, the order  *)
(* of a FRU's bytes over the pages, reading back.  Then how a FRU is read  *)
(* out of an EEPROM (FruContents): what the reader caches is true, and a   *)
(* FRU that the EEPROM holds is returned byte for byte.                    *)
(***************************************************************************)
EXTENDS FruDevice, FruTransfer, FruContents, QueueLemmas

(* The order of publishing. *)

\* Set of locations: finite, and none is before itself.
LEMMA LocationsAreFinite == \A S \in SUBSET Loc : IsFiniteSet(S)
<1>1. IsFiniteSet(0..127)
  <2>1. 0 \in Int /\ 127 \in Int
    OBVIOUS
  <2>2. QED
    BY <2>1, FS_Interval, Zenon
<1>2. IsFiniteSet(Addrs)
  BY <1>1, FS_Subset, BusesAssumption
<1>3. IsFiniteSet(Loc)
  BY <1>2, FS_Product, BusesAssumption DEF Loc
<1> QED
  BY <1>3, FS_Subset

LEMMA Coordinates ==
    \A l \in Loc : l[1] \in Nat /\ l[2] \in Nat /\ l = <<l[1], l[2]>>
<1> SUFFICES ASSUME NEW l \in Loc
             PROVE  l[1] \in Nat /\ l[2] \in Nat /\ l = <<l[1], l[2]>>
  OBVIOUS
<1>1. PICK b \in Buses, a \in Addrs : l = <<b, a>>
  BY DEF Loc
<1>2. b \in Nat /\ a \in Nat
  BY BusesAssumption
<1> QED
  BY <1>1, <1>2

\* A set of locations has a last one.
LEMMA LastIsIn ==
    ASSUME NEW locs \in SUBSET Loc, locs # {}
    PROVE  LastOf(locs) \in locs
<1> DEFINE HasLast(S) == \E l \in S : \A m \in S \ {l} : Before(m, l)
           Bad == {n \in Nat : \E S \in SUBSET Loc :
                      S # {} /\ Cardinality(S) = n /\ ~HasLast(S)}
<1>1. \A S \in SUBSET Loc : IsFiniteSet(S) /\ Cardinality(S) \in Nat
  BY LocationsAreFinite, FS_CardinalityType
<1>2. Bad = {}
  <2> SUFFICES ASSUME Bad # {} PROVE FALSE
    OBVIOUS
  <2>1. PICK n \in Bad : \A m \in Bad : n <= m
    <3>1. Bad \in SUBSET Nat
      OBVIOUS
    <3> HIDE DEF Bad
    <3>2. QED
      BY <3>1, LeastNatural
  <2>2. PICK S \in SUBSET Loc : S # {} /\ Cardinality(S) = n /\ ~HasLast(S)
    BY DEF Bad
  <2>3. PICK l \in S : TRUE
    BY <2>2
  <2>4. Cardinality(S \ {l}) = n - 1 /\ n - 1 \in Nat
    <3>1. IsFiniteSet(S) /\ IsFiniteSet(S \ {l})
      BY <1>1, <2>2
    <3>2. Cardinality(S \ {l}) = Cardinality(S) - 1
      BY <2>3, <3>1, FS_RemoveElement
    <3>3. Cardinality(S \ {l}) \in Nat
      BY <3>1, FS_CardinalityType
    <3>4. QED
      BY <2>2, <3>2, <3>3
  <2>5. S \ {l} # {}
    BY <2>2, <2>3
  <2>6. HasLast(S \ {l})
    <3>1. n - 1 \notin Bad
      BY <2>1, <2>4
    <3>2. QED
      BY <2>2, <2>4, <2>5, <3>1 DEF Bad
  <2>7. PICK m \in S \ {l} : \A k \in (S \ {l}) \ {m} : Before(k, m)
    BY <2>6
  <2>8. l \in Loc /\ m \in Loc /\ l # m
    BY <2>2, <2>3, <2>7
  <2>9. Before(l, m) \/ Before(m, l)
    BY <2>8, Coordinates DEF Before
  <2>10. CASE Before(l, m)
    BY <2>2, <2>7, <2>10
  <2>11. CASE Before(m, l)
    <3>1. ASSUME NEW k \in S \ {l} PROVE Before(k, l)
      <4>1. CASE k = m
        BY <2>11, <4>1
      <4>2. CASE k # m
        <5>1. Before(k, m) /\ k \in Loc
          BY <2>2, <2>7, <3>1, <4>2
        <5>2. QED
          BY <2>8, <2>11, <5>1, Coordinates DEF Before
      <4>3. QED
        BY <4>1, <4>2
    <3>2. QED
      BY <2>2, <2>3, <3>1
  <2>12. QED
    BY <2>9, <2>10, <2>11
<1>3. Cardinality(locs) \notin Bad /\ Cardinality(locs) \in Nat
  BY <1>1, <1>2
<1>4. HasLast(locs)
  BY <1>3 DEF Bad
<1> QED
  BY <1>4 DEF LastOf

\* `after' is what PublishInOrder computes, for the sets of at most k locations.
Computes(after, st, all, k) ==
    after = [locs \in {x \in SUBSET all : Cardinality(x) <= k} |->
                IF locs = {} THEN st
                ELSE AddFruObject(after[locs \ {LastOf(locs)}], LastOf(locs))]

LEMMA ComputesMore ==
    ASSUME NEW st, NEW all \in SUBSET Loc, NEW k \in Nat,
           NEW f, Computes(f, st, all, k)
    PROVE  \E g : Computes(g, st, all, k + 1)
<1> DEFINE Few(n) == {x \in SUBSET all : Cardinality(x) <= n}
           Next1(h, locs) == IF locs = {} THEN st
                             ELSE AddFruObject(h[locs \ {LastOf(locs)}], LastOf(locs))
           g == [locs \in Few(k + 1) |-> Next1(f, locs)]
<1>1. f = [locs \in Few(k) |-> Next1(f, locs)]
  BY DEF Computes
<1>2. ASSUME NEW locs \in Few(k + 1), locs # {}
      PROVE  locs \ {LastOf(locs)} \in Few(k)
  <2>1. locs \in SUBSET Loc /\ LastOf(locs) \in locs
    BY <1>2, LastIsIn
  <2>2. IsFiniteSet(locs) /\ Cardinality(locs) \in Nat
    BY <2>1, LocationsAreFinite, FS_CardinalityType
  <2>3. Cardinality(locs \ {LastOf(locs)}) = Cardinality(locs) - 1
    BY <2>1, <2>2, FS_RemoveElement
  <2>4. QED
    BY <1>2, <2>1, <2>2, <2>3
<1>3. ASSUME NEW locs \in Few(k) PROVE g[locs] = f[locs]
  <2>1. Cardinality(locs) \in Nat
    BY <1>3, LocationsAreFinite, FS_CardinalityType
  <2>2. locs \in Few(k + 1)
    BY <1>3, <2>1
  <2>3. g[locs] = Next1(f, locs)
    BY <2>2
  <2>4. f[locs] = Next1(f, locs)
    <3> HIDE DEF Few, Next1
    <3>1. QED
      BY <1>1, <1>3
  <2>5. QED
    BY <2>3, <2>4
<1>4. ASSUME NEW locs \in Few(k + 1) PROVE Next1(g, locs) = Next1(f, locs)
  <2> HIDE DEF g, Few
  <2>1. QED
    BY <1>2, <1>3, <1>4
<1>5. g = [locs \in Few(k + 1) |-> Next1(g, locs)]
  <2>1. g = [locs \in Few(k + 1) |-> Next1(f, locs)]
    OBVIOUS
  <2> HIDE DEF g, Next1, Few
  <2>2. QED
    BY <1>4, <2>1
<1>6. Computes(g, st, all, k + 1)
  BY <1>5 DEF Computes
<1> QED
  BY <1>6

\* There is something for PublishInOrder to compute.
LEMMA ComputesAll ==
    ASSUME NEW st, NEW all \in SUBSET Loc, NEW k \in Nat
    PROVE  \E f : Computes(f, st, all, k)
<1> DEFINE Bad == {n \in Nat : ~\E f : Computes(f, st, all, n)}
<1>1. Bad = {}
  <2> SUFFICES ASSUME Bad # {} PROVE FALSE
    OBVIOUS
  <2>1. PICK n \in Bad : \A m \in Bad : n <= m
    <3>1. Bad \in SUBSET Nat
      OBVIOUS
    <3> HIDE DEF Bad
    <3>2. QED
      BY <3>1, LeastNatural
  <2>2. n \in Nat /\ ~\E f : Computes(f, st, all, n)
    OBVIOUS
  <2>3. CASE n = 0
    <3> DEFINE f == [locs \in {x \in SUBSET all : Cardinality(x) <= 0} |-> st]
    <3>1. ASSUME NEW x \in SUBSET all, Cardinality(x) <= 0 PROVE x = {}
      <4>1. IsFiniteSet(x) /\ Cardinality(x) \in Nat
        BY LocationsAreFinite, FS_CardinalityType
      <4>2. QED
        BY <3>1, <4>1, FS_EmptySet
    <3>2. f = [locs \in {x \in SUBSET all : Cardinality(x) <= 0} |->
                 IF locs = {} THEN st
                 ELSE AddFruObject(f[locs \ {LastOf(locs)}], LastOf(locs))]
      BY <3>1
    <3>3. Computes(f, st, all, n)
      <4> HIDE DEF f
      <4>1. QED
        BY <2>3, <3>2 DEF Computes
    <3>4. QED
      BY <2>2, <3>3
  <2>4. CASE n # 0
    <3>1. n - 1 \in Nat /\ n - 1 \notin Bad
      BY <2>1, <2>2, <2>4
    <3>2. PICK f : Computes(f, st, all, n - 1)
      BY <3>1
    <3>3. \E g : Computes(g, st, all, (n - 1) + 1)
      BY <3>1, <3>2, ComputesMore
    <3>4. (n - 1) + 1 = n
      BY <2>2
    <3>5. QED
      BY <2>2, <3>3, <3>4
  <2>5. QED
    BY <2>3, <2>4
<1> QED
  BY <1>1

\* What is published of each set of locations, the last one being added last.
Unfolds(f, st, all) ==
    /\ f[{}] = st
    /\ \A locs \in (SUBSET all) \ {{}} :
          f[locs] = AddFruObject(f[locs \ {LastOf(locs)}], LastOf(locs))

LEMMA PublishingIs ==
    ASSUME NEW st, NEW all \in SUBSET Loc
    PROVE  \E f : PublishInOrder(st, all) = f[all] /\ Unfolds(f, st, all)
<1> DEFINE Is(f) == f = [locs \in SUBSET all |->
                           IF locs = {} THEN st
                           ELSE AddFruObject(f[locs \ {LastOf(locs)}], LastOf(locs))]
<1>1. \E f : Is(f)
  <2>1. IsFiniteSet(all) /\ Cardinality(all) \in Nat
    BY LocationsAreFinite, FS_CardinalityType
  <2>2. PICK f : Computes(f, st, all, Cardinality(all))
    BY <2>1, ComputesAll
  <2>3. {x \in SUBSET all : Cardinality(x) <= Cardinality(all)} = SUBSET all
    BY <2>1, FS_Subset
  <2>4. QED
    BY <2>2, <2>3 DEF Computes
<1>2. PublishInOrder(st, all) = (CHOOSE f : Is(f))[all]
  BY DEF PublishInOrder
<1>3. PICK f : Is(f) /\ f = CHOOSE h : Is(h)
  BY <1>1
<1>4. f[{}] = st
  BY <1>3
<1>5. ASSUME NEW locs \in (SUBSET all) \ {{}}
      PROVE  f[locs] = AddFruObject(f[locs \ {LastOf(locs)}], LastOf(locs))
  BY <1>3
<1>6. PublishInOrder(st, all) = f[all]
  BY <1>2, <1>3
<1>7. Unfolds(f, st, all)
  BY <1>4, <1>5 DEF Unfolds
<1> QED
  BY <1>6, <1>7

-----------------------------------------------------------------------------
(* Object paths. *)

\* A set of integers with a bound has a greatest one.
LEMMA BoundedMax ==
    ASSUME NEW T \in SUBSET Int, T # {}, NEW n \in Int, \A t \in T : t <= n
    PROVE  Max(T) \in T /\ \A t \in T : t <= Max(T)
<1> DEFINE Below == {k \in Nat : n - k \in T}
<1>1. PICK k \in Below : \A m \in Below : k <= m
  <2>1. PICK t \in T : TRUE
    OBVIOUS
  <2>2. t \in Int /\ t <= n
    BY <2>1
  <2>3. n - t \in Nat /\ n - (n - t) = t
    BY <2>2
  <2>4. Below \in SUBSET Nat /\ Below # {}
    BY <2>3
  <2> HIDE DEF Below
  <2>5. QED
    BY <2>4, LeastNatural
<1>2. n - k \in T
  OBVIOUS
<1>3. ASSUME NEW t \in T PROVE t <= n - k
  <2>1. t \in Int /\ t <= n
    OBVIOUS
  <2>2. n - t \in Nat /\ n - (n - t) = t
    BY <2>1
  <2>3. k <= n - t /\ k \in Nat
    BY <1>1, <2>2
  <2>4. QED
    BY <2>1, <2>3
<1>4. \E x \in T : \A y \in T : x >= y
  BY <1>2, <1>3
<1> QED
  BY <1>4 DEF Max

\* What keeps object paths apart: those of a vendor of drives are at its
\* address and have the bus as index, and there is a greatest index.
PathsOf(shown) ==
    /\ DOMAIN shown \subseteq Loc
    /\ \A l \in DOMAIN shown :
          /\ shown[l] \in [path : Path, shown : Content]
          /\ shown[l].path.name = VendorId =>
                shown[l].path.index = l[1] /\ l[2] = NvmeAddr
    /\ \E n \in Int : \A l \in DOMAIN shown : shown[l].path.index <= n
    /\ \A l, m \in DOMAIN shown : shown[l].path = shown[m].path => l = m

\* findIndexForFRU gives a path that no interface has.
LEMMA FreePathIsFree ==
    ASSUME NEW shown, PathsOf(shown), NEW product \in Path
    PROVE  /\ FreePath(shown, product) \in Path
           /\ FreePath(shown, product).name = product.name
           /\ \A l \in DOMAIN shown : shown[l].path # FreePath(shown, product)
<1> DEFINE same == {p \in {shown[l].path : l \in DOMAIN shown} :
                        p.name = product.name /\ p.unknown = product.unknown}
           used == {-1} \cup {p.index : p \in same}
           number == IF same = {} THEN -1 ELSE Max(used) + 1
<1>1. FreePath(shown, product) = [product EXCEPT !.index = number]
  BY DEF FreePath
<1>2. \A l \in DOMAIN shown : shown[l].path \in Path
  BY DEF PathsOf
<1>3. \A l \in DOMAIN shown :
         /\ shown[l].path.name = product.name
         /\ shown[l].path.unknown = product.unknown
         => shown[l].path \in same
  OBVIOUS
<1>4. number \in Int /\ \A p \in same : p.index # number
  <2>1. CASE same = {}
    BY <2>1
  <2>2. CASE same # {}
    <3>1. PICK n \in Int : \A l \in DOMAIN shown : shown[l].path.index <= n
      BY DEF PathsOf
    <3>2. \A p \in same : p.index \in Int /\ p.index <= n
      BY <1>2, <3>1 DEF Path
    <3>3. PICK top \in Int : top >= n /\ top >= -1
      BY <3>1
    <3>4. used \in SUBSET Int /\ used # {} /\ \A t \in used : t <= top
      BY <3>2, <3>3
    <3>5. Max(used) \in Int /\ \A t \in used : t <= Max(used)
      <4> HIDE DEF used
      <4>1. QED
        BY <3>4, BoundedMax
    <3>6. \A p \in same : p.index \in used
      OBVIOUS
    <3> HIDE DEF used, same
    <3>7. QED
      BY <2>2, <3>2, <3>5, <3>6
  <2>3. QED
    BY <2>1, <2>2
<1> HIDE DEF number, same
<1>5. [product EXCEPT !.index = number] \in Path
  BY <1>4 DEF Path
<1>6. /\ [product EXCEPT !.index = number].name = product.name
      /\ [product EXCEPT !.index = number].unknown = product.unknown
      /\ [product EXCEPT !.index = number].index = number
  BY DEF Path
<1> QED
  BY <1>1, <1>3, <1>4, <1>5, <1>6

\* `shown' is `old' with what can be shown of the map at `locs'.
Shows(shown, old, locs) ==
    /\ PathsOf(shown)
    /\ DOMAIN shown = DOMAIN old \cup {l \in locs : Showable(l, busMap'[l])}
    /\ \A l \in locs : Showable(l, busMap'[l]) => shown[l].shown = busMap'[l]
    /\ \A l \in DOMAIN old \ locs : shown[l] = old[l]

\* `new' is `shown' with one more interface, or another one, at `loc'.
OneMore(new, shown, loc, content) ==
    /\ PathsOf(new)
    /\ DOMAIN new = DOMAIN shown \cup {loc}
    /\ new[loc].shown = content
    /\ \A l \in DOMAIN shown \ {loc} : new[l] = shown[l]

\* Publishing at one more location, at a path that no interface has or that
\* belongs to the drive there.
LEMMA PublishedAtOne ==
    ASSUME NEW shown, PathsOf(shown), NEW k, NEW loc \in Loc, NEW content \in Content,
           NEW path \in Path,
           path.name = VendorId => path.index = loc[1] /\ loc[2] = NvmeAddr,
           \A l \in DOMAIN shown \ {loc} : shown[l].path # path
    PROVE  \E new :
              /\ Publish([ifaces |-> shown, unknown |-> k], loc, path, content)
                    = [ifaces |-> new, unknown |-> k]
              /\ OneMore(new, shown, loc, content)
<1> DEFINE new == [l \in DOMAIN shown \cup {loc} |->
                     IF l = loc THEN [path |-> path, shown |-> content] ELSE shown[l]]
<1>1. Publish([ifaces |-> shown, unknown |-> k], loc, path, content)
        = [ifaces |-> new, unknown |-> k]
  BY DEF Publish
<1>2. /\ DOMAIN new = DOMAIN shown \cup {loc}
      /\ new[loc] = [path |-> path, shown |-> content]
      /\ \A l \in DOMAIN shown \ {loc} : new[l] = shown[l]
  OBVIOUS
<1> HIDE DEF new
<1>3. PathsOf(new)
  <2>1. DOMAIN new \subseteq Loc
    BY <1>2 DEF PathsOf
  <2>2. ASSUME NEW l \in DOMAIN new
        PROVE  /\ new[l] \in [path : Path, shown : Content]
               /\ new[l].path.name = VendorId =>
                     new[l].path.index = l[1] /\ l[2] = NvmeAddr
    <3>1. CASE l = loc
      BY <1>2, <3>1
    <3>2. CASE l # loc
      BY <1>2, <3>2 DEF PathsOf
    <3>3. QED
      BY <3>1, <3>2
  <2>3. \E n \in Int : \A l \in DOMAIN new : new[l].path.index <= n
    <3>1. PICK n \in Int : \A l \in DOMAIN shown : shown[l].path.index <= n
      BY DEF PathsOf
    <3>2. path.index \in Int
      BY DEF Path
    <3>3. PICK m \in Int : n <= m /\ path.index <= m
      BY <3>1, <3>2
    <3>4. \A l \in DOMAIN shown : shown[l].path.index \in Int
      BY DEF PathsOf, Path
    <3>5. \A l \in DOMAIN new : new[l].path.index <= m
      <4> TAKE l \in DOMAIN new
      <4>1. CASE l = loc
        BY <1>2, <3>3, <4>1
      <4>2. CASE l # loc
        BY <1>2, <3>1, <3>3, <3>4, <4>2
      <4>3. QED
        BY <4>1, <4>2
    <3>6. QED
      BY <3>3, <3>5
  <2>4. \A l, m \in DOMAIN new : new[l].path = new[m].path => l = m
    <3> TAKE l, m \in DOMAIN new
    <3>1. CASE l = loc \/ m = loc
      BY <1>2, <3>1
    <3>2. CASE l # loc /\ m # loc
      BY <1>2, <3>2 DEF PathsOf
    <3>3. QED
      BY <3>1, <3>2
  <2>5. QED
    BY <2>1, <2>2, <2>3, <2>4 DEF PathsOf
<1>4. OneMore(new, shown, loc, content)
  BY <1>2, <1>3 DEF OneMore
<1> QED
  BY <1>1, <1>4

LEMMA AddsOne ==
    ASSUME NEW shown, PathsOf(shown), NEW k \in Nat, NEW loc \in Loc,
           busMap'[loc] \in Content, busMap'[loc] = Drive => loc[2] = NvmeAddr,
           loc \notin DOMAIN shown
    PROVE  \E new, n :
              /\ AddFruObject([ifaces |-> shown, unknown |-> k], loc)
                    = [ifaces |-> new, unknown |-> n]
              /\ n \in Nat
              /\ Shows(new, shown, {loc})
<1> DEFINE st == [ifaces |-> shown, unknown |-> k]
           content == busMap'[loc]
<1>0. content \in Content
  OBVIOUS
<1>1. content \in Fru => content \notin {Garbled, Drive}
  BY ContentAssumption
<1>2. CASE content \in Fru /\ content.name # NoName
  <2> DEFINE product == [name |-> content.name, unknown |-> -1, index |-> -1]
             path == FreePath(shown, product)
  <2>1. product \in Path /\ content.name # VendorId
    BY <1>2, NamesAssumption DEF Path, Fru
  <2>2. AddFruObject(st, loc) = Publish(st, loc, path, content)
    BY <1>2 DEF AddFruObject
  <2>3. /\ path \in Path /\ path.name = content.name
        /\ \A l \in DOMAIN shown : shown[l].path # path
    <3> HIDE DEF product
    <3>1. QED
      BY <2>1, FreePathIsFree DEF product
  <2> HIDE DEF path, product
  <2>4. PICK new : /\ Publish(st, loc, path, content) = [ifaces |-> new, unknown |-> k]
                   /\ OneMore(new, shown, loc, content)
    BY <1>0, <2>1, <2>3, PublishedAtOne
  <2>5. Shows(new, shown, {loc})
    BY <1>1, <1>2, <2>4 DEF Shows, OneMore, Showable
  <2>6. QED
    BY <2>2, <2>4, <2>5
<1>3. CASE content \in Fru /\ content.name = NoName
  <2> DEFINE product == [name |-> NoName, unknown |-> k, index |-> -1]
             path == FreePath(shown, product)
             more == [ifaces |-> shown, unknown |-> k + 1]
  <2>1. product \in Path /\ NoName # VendorId
    BY NamesAssumption DEF Path
  <2>2. AddFruObject(st, loc) = Publish(more, loc, path, content)
    BY <1>3 DEF AddFruObject
  <2>3. /\ path \in Path /\ path.name = NoName
        /\ \A l \in DOMAIN shown : shown[l].path # path
    <3> HIDE DEF product
    <3>1. QED
      BY <2>1, FreePathIsFree DEF product
  <2> HIDE DEF path, product
  <2>4. PICK new : /\ Publish(more, loc, path, content) = [ifaces |-> new, unknown |-> k + 1]
                   /\ OneMore(new, shown, loc, content)
    BY <1>0, <2>1, <2>3, PublishedAtOne
  <2>5. Shows(new, shown, {loc})
    BY <1>1, <1>3, <2>4 DEF Shows, OneMore, Showable
  <2>6. k + 1 \in Nat
    OBVIOUS
  <2>7. QED
    BY <2>2, <2>4, <2>5, <2>6
<1>4. CASE content \in {Garbled, Drive} /\ loc[2] = NvmeAddr
  <2> DEFINE path == [name |-> VendorId, unknown |-> -1, index |-> loc[1]]
  <2>1. path \in Path /\ loc[1] \in Nat /\ loc[2] = NvmeAddr
    BY <1>4, Coordinates DEF Path
  <2>2. AddFruObject(st, loc) = Publish(st, loc, path, content)
    BY <1>1, <1>4, <2>1 DEF AddFruObject
  <2>3. \A l \in DOMAIN shown \ {loc} : shown[l].path # path
    <3> SUFFICES ASSUME NEW l \in DOMAIN shown \ {loc}, shown[l].path = path
                 PROVE  FALSE
      OBVIOUS
    <3>1. l \in Loc /\ loc[1] = l[1] /\ l[2] = NvmeAddr
      BY DEF PathsOf
    <3>2. l = loc
      BY <2>1, <3>1, Coordinates
    <3>3. QED
      BY <3>2
  <2>4. path.name = VendorId /\ path.index = loc[1]
    OBVIOUS
  <2> HIDE DEF path
  <2>5. PICK new : /\ Publish(st, loc, path, content) = [ifaces |-> new, unknown |-> k]
                   /\ OneMore(new, shown, loc, content)
    BY <1>0, <2>1, <2>3, <2>4, PublishedAtOne
  <2>6. Shows(new, shown, {loc})
    BY <1>4, <2>5 DEF Shows, OneMore, Showable
  <2>7. QED
    BY <2>2, <2>5, <2>6
<1>5. CASE content = Garbled /\ loc[2] # NvmeAddr
  <2>1. AddFruObject(st, loc) = st
    BY <1>1, <1>5 DEF AddFruObject
  <2>2. Shows(shown, shown, {loc})
    BY <1>5 DEF Shows, Showable
  <2>3. QED
    BY <2>1, <2>2
<1> QED
  BY <1>2, <1>3, <1>4, <1>5 DEF Content

\* What is published location after location is shown, the rest stays.
LEMMA PublishesAll ==
    ASSUME NEW shown, PathsOf(shown), NEW k \in Nat, NEW all \in SUBSET Loc,
           DOMAIN shown \cap all = {},
           \A l \in all : /\ busMap'[l] \in Content
                          /\ busMap'[l] = Drive => l[2] = NvmeAddr
    PROVE  \E new, n :
              /\ PublishInOrder([ifaces |-> shown, unknown |-> k], all)
                    = [ifaces |-> new, unknown |-> n]
              /\ n \in Nat
              /\ Shows(new, shown, all)
<1> DEFINE st == [ifaces |-> shown, unknown |-> k]
<1>1. PICK f : PublishInOrder(st, all) = f[all] /\ Unfolds(f, st, all)
  <2> HIDE DEF st
  <2>1. QED
    BY PublishingIs
<1> DEFINE Good(locs) == \E new, n : /\ f[locs] = [ifaces |-> new, unknown |-> n]
                                     /\ n \in Nat
                                     /\ Shows(new, shown, locs)
           Bad == {n \in Nat : \E locs \in SUBSET all : Cardinality(locs) = n /\ ~Good(locs)}
<1>2. Good({})
  BY <1>1 DEF Shows, Unfolds
<1>3. ASSUME NEW locs \in SUBSET all, locs # {}, Good(locs \ {LastOf(locs)})
      PROVE  Good(locs)
  <2> DEFINE x == LastOf(locs)
             rest == locs \ {x}
  <2>1. x \in locs /\ x \in Loc /\ locs = rest \cup {x}
    BY <1>3, LastIsIn
  <2>2. f[locs] = AddFruObject(f[rest], x)
    BY <1>1, <1>3 DEF Unfolds
  <2>3. PICK old, m : /\ f[rest] = [ifaces |-> old, unknown |-> m]
                      /\ m \in Nat
                      /\ Shows(old, shown, rest)
    BY <1>3
  <2> HIDE DEF x
  <2>4. PathsOf(old) /\ x \notin DOMAIN old
    BY <2>1, <2>3 DEF Shows
  <2>5. busMap'[x] \in Content /\ (busMap'[x] = Drive => x[2] = NvmeAddr)
    BY <2>1
  <2>6. PICK new, n :
           /\ AddFruObject([ifaces |-> old, unknown |-> m], x)
                 = [ifaces |-> new, unknown |-> n]
           /\ n \in Nat
           /\ Shows(new, old, {x})
    BY <2>1, <2>3, <2>4, <2>5, AddsOne
  <2>7. Shows(new, shown, locs)
    <3>1. DOMAIN new = DOMAIN shown \cup {l \in locs : Showable(l, busMap'[l])}
      BY <2>1, <2>3, <2>6 DEF Shows
    <3>2. \A l \in locs : Showable(l, busMap'[l]) => new[l].shown = busMap'[l]
      <4> TAKE l \in locs
      <4>1. CASE l = x
        BY <2>6, <4>1 DEF Shows
      <4>2. CASE l # x /\ Showable(l, busMap'[l])
        <5>1. l \in rest /\ l \in DOMAIN old \ {x} /\ old[l].shown = busMap'[l]
          BY <2>3, <4>2 DEF Shows
        <5>2. QED
          BY <2>6, <5>1 DEF Shows
      <4>3. QED
        BY <4>1, <4>2
    <3>3. \A l \in DOMAIN shown \ locs : new[l] = shown[l]
      <4> TAKE l \in DOMAIN shown \ locs
      <4>1. l \in DOMAIN old \ {x} /\ old[l] = shown[l]
        BY <2>1, <2>3 DEF Shows
      <4>2. QED
        BY <2>6, <4>1 DEF Shows
    <3>4. QED
      BY <2>6, <3>1, <3>2, <3>3 DEF Shows
  <2>8. QED
    BY <2>2, <2>3, <2>6, <2>7
<1>4. Bad = {}
  <2> SUFFICES ASSUME Bad # {} PROVE FALSE
    OBVIOUS
  <2>1. PICK n \in Bad : \A m \in Bad : n <= m
    <3>1. Bad \in SUBSET Nat
      OBVIOUS
    <3> HIDE DEF Bad
    <3>2. QED
      BY <3>1, LeastNatural
  <2>2. PICK locs \in SUBSET all : Cardinality(locs) = n /\ ~Good(locs)
    OBVIOUS
  <2> HIDE DEF Good
  <2>3. locs # {}
    BY <1>2, <2>2
  <2>4. LastOf(locs) \in locs
    BY <2>3, LastIsIn
  <2>5. IsFiniteSet(locs) /\ IsFiniteSet(locs \ {LastOf(locs)})
    BY LocationsAreFinite
  <2>6. Cardinality(locs \ {LastOf(locs)}) = n - 1
    BY <2>2, <2>4, <2>5, FS_RemoveElement
  <2>7. n - 1 \in Nat
    BY <2>5, <2>6, FS_CardinalityType
  <2>8. n - 1 \notin Bad
    BY <2>1, <2>7
  <2>9. Good(locs \ {LastOf(locs)})
    BY <2>6, <2>7, <2>8
  <2>10. QED
    BY <1>3, <2>2, <2>3, <2>9
<1>5. IsFiniteSet(all) /\ Cardinality(all) \in Nat
  BY LocationsAreFinite, FS_CardinalityType
<1>6. Good(all)
  <2> HIDE DEF Good
  <2>1. QED
    BY <1>4, <1>5
<1> QED
  BY <1>1, <1>6

-----------------------------------------------------------------------------
(* The daemon's state between two steps. *)

\* The baseboard's file is a FRU or what is left of one; only the nodes of mux
\* channels come and go.
WorldOK ==
    /\ device \in [Loc -> Found]
    /\ nodes \in SUBSET Buses
    /\ events \in Seq(Buses)
    /\ ops \in 0..MaxOps
    /\ <<0, 0>> \in Loc => device[<<0, 0>>] \in Fru \cup {None, Garbled}
    /\ \A b \in Buses : Root[b] = NoBus => b \in nodes

\* A scan of one bus has that bus to do at most, and none is left when no scan
\* is in progress.
ScanOK ==
    /\ scan \in [mode : {"idle", "all", "one", "calls"}, bus : Buses \cup {NoBus},
                 todo : SUBSET Buses, calls : Seq(Buses)]
    /\ scan.mode = "one" => scan.bus \in Buses /\ scan.todo \subseteq {scan.bus}
    /\ scan.mode \in {"idle", "calls"} => scan.todo = {}
    /\ scan.mode = "calls" => scan.calls # <<>>

\* Drives are at their address.
MapOK ==
    /\ DOMAIN busMap \subseteq Loc
    /\ \A l \in DOMAIN busMap : /\ busMap[l] \in Content
                                /\ busMap[l] = Drive => l[2] = NvmeAddr

StoreOK ==
    /\ unknownBusObjectCount \in Nat
    /\ foundDevices \in SUBSET {loc \in Loc : Root[loc[1]] = NoBus}
    /\ failedAddresses \in [Buses -> SUBSET Addrs]
    /\ DOMAIN fruAddresses \subseteq Buses
    /\ \A b \in DOMAIN fruAddresses : fruAddresses[b] \in SUBSET Addrs
    /\ busBlocklist \in SUBSET Buses

FlagsOK == powerIsOn \in BOOLEAN /\ timer \in BOOLEAN /\ steady \in BOOLEAN

\* The bus that is being scanned alone, if any.
InScan(l) == scan.mode = "one" /\ l[1] = scan.bus

ShownRight(l) ==
    /\ l \in DOMAIN ifaces <=> l \in DOMAIN busMap /\ Showable(l, busMap[l])
    /\ l \in DOMAIN ifaces => ifaces[l].shown = busMap[l]

\* Unless a full scan is to come or in progress, D-Bus shows the map, but for
\* the bus that is being scanned.
Agreement ==
    timer \/ scan.mode = "all" \/ \A l \in Loc : InScan(l) \/ ShownRight(l)

DaemonInv ==
    /\ WorldOK
    /\ ScanOK
    /\ MapOK
    /\ PathsOf(ifaces)
    /\ StoreOK
    /\ FlagsOK
    /\ Agreement

LEMMA DaemonTypes == DaemonInv => TypeOK
<1> SUFFICES ASSUME DaemonInv PROVE TypeOK
  OBVIOUS
<1> USE DEF DaemonInv
<1>1. DOMAIN busMap \subseteq Loc /\ Range(busMap) \subseteq Content
  BY DEF MapOK, Range
<1>2. DOMAIN ifaces \subseteq Loc /\ Range(ifaces) \subseteq [path : Path, shown : Content]
  BY DEF PathsOf, Range
<1>3. Range(fruAddresses) \subseteq SUBSET Addrs
  BY DEF StoreOK, Range
<1> QED
  BY <1>1, <1>2, <1>3 DEF TypeOK, WorldOK, ScanOK, StoreOK, FlagsOK

LEMMA DaemonInit == Init => DaemonInv
<1> SUFFICES ASSUME Init PROVE DaemonInv
  OBVIOUS
<1>1. device \in [Loc -> Found] /\ \A loc \in Loc : device[loc] \in Plug[loc]
  <2>1. \A loc \in Loc : device[loc] \in Plug[loc]
    BY DEF Init
  <2>2. \E plugged \in [Loc \ Soldered -> UNION {Plug[loc] : loc \in Loc \ Soldered}] :
           device = [loc \in Loc |-> IF loc \in Soldered THEN CHOOSE c \in Plug[loc] : TRUE
                                     ELSE plugged[loc]]
    BY DEF Init
  <2>3. PICK plugged :
           device = [loc \in Loc |-> IF loc \in Soldered THEN CHOOSE c \in Plug[loc] : TRUE
                                     ELSE plugged[loc]]
    BY <2>2
  <2>4. DOMAIN device = Loc /\ device = [loc \in Loc |-> device[loc]]
    BY <2>3
  <2>5. \A loc \in Loc : device[loc] \in Found
    BY <2>1, PlugAssumption
  <2>6. QED
    BY <2>1, <2>4, <2>5
<1>2. WorldOK
  <2>1. <<0, 0>> \in Loc => device[<<0, 0>>] \in Fru \cup {None, Garbled}
    BY <1>1, PlugAssumption DEF Found, Content
  <2>2. nodes = Buses /\ events = <<>> /\ ops = 0
    BY DEF Init
  <2>3. ops \in 0..MaxOps
    BY <2>2, BoundAssumption
  <2>4. QED
    BY <1>1, <2>1, <2>2, <2>3 DEF WorldOK
<1>3. ScanOK
  BY DEF Init, ScanOK, Rest
<1>4. MapOK
  BY DEF Init, MapOK
<1>5. PathsOf(ifaces)
  BY DEF Init, PathsOf
<1>6. StoreOK
  BY BusesAssumption DEF Init, StoreOK
<1>7. FlagsOK /\ Agreement
  BY DEF Init, FlagsOK, Agreement
<1> QED
  BY <1>2, <1>3, <1>4, <1>5, <1>6, <1>7 DEF DaemonInv

\* Where a bus's address leads is a location.
LEMMA WhereIsLoc ==
    ASSUME NEW b \in Buses, NEW a \in Addrs
    PROVE  /\ Where(b, a) \in Loc /\ <<b, a>> \in Loc
           /\ Where(b, a) # <<b, a>> =>
                 /\ RootBus(b) # {} /\ Where(b, a) = <<Root[b], a>>
                 /\ device[<<b, a>>] = None
           /\ RootBus(b) # {} => RootBus(b) = {Root[b]} /\ Root[b] \in Buses /\ b \in nodes
           /\ RootBus(b) \subseteq Buses
<1>1. /\ RootBus(b) # {} => RootBus(b) = {Root[b]} /\ Root[b] \in Buses /\ b \in nodes
      /\ RootBus(b) \subseteq Buses
  BY RootAssumption DEF RootBus
<1>2. Where(b, a) \in {<<b, a>>, <<Root[b], a>>}
  BY DEF Where
<1>3. Where(b, a) # <<b, a>> =>
         /\ RootBus(b) # {} /\ Where(b, a) = <<Root[b], a>> /\ device[<<b, a>>] = None
  BY DEF Where
<1>4. <<b, a>> \in Loc
  BY DEF Loc
<1>5. RootBus(b) # {} => <<Root[b], a>> \in Loc
  BY <1>1 DEF Loc
<1> QED
  BY <1>1, <1>2, <1>3, <1>4, <1>5

\* Reading a bus: what is in the map then, on that bus and on the others.
LEMMA ReadBecomes ==
    ASSUME WorldOK, NEW b \in Buses, NEW foundItems \in SUBSET Addrs, NEW reached,
           ReadAddresses(b, foundItems, reached)
    PROVE  /\ \A l \in DOMAIN busMap' :
                 IF l[1] = b
                 THEN \E a \in Addrs :
                         /\ l = <<b, a>> /\ busMap'[l] = Seen(b, a)
                         /\ \/ a \in EepromsRead(b)
                            \/ a \in Tried(b, foundItems) \cap reached /\ Readable(a, Seen(b, a))
                 ELSE l \in DOMAIN busMap /\ busMap'[l] = busMap[l]
           /\ \A l \in DOMAIN busMap :
                 l[1] # b => l \in DOMAIN busMap' /\ busMap'[l] = busMap[l]
           /\ \A a \in Addrs :
                 \/ a \in EepromsRead(b)
                 \/ a \in Tried(b, foundItems) \cap reached /\ Readable(a, Seen(b, a))
                 => <<b, a>> \in DOMAIN busMap'
<1> DEFINE read == {a \in Tried(b, foundItems) \cap reached : Readable(a, Seen(b, a))}
           new == {<<b, a>> : a \in EepromsRead(b) \cup read}
<1>1. busMap' = [loc \in {l \in DOMAIN busMap : l[1] # b} \cup new |->
                    IF loc[1] # b THEN busMap[loc] ELSE Seen(b, loc[2])]
  BY DEF ReadAddresses
<1>2. \A l \in new : \E a \in EepromsRead(b) \cup read : l = <<b, a>>
  OBVIOUS
<1>3. EepromsRead(b) \subseteq Addrs /\ Tried(b, foundItems) \subseteq Addrs
  BY DEF EepromsRead, Eeproms, Tried, Answering, Probed
<1>4. \A a \in EepromsRead(b) \cup read : <<b, a>> \in new
  OBVIOUS
<1>5. ASSUME NEW l \in DOMAIN busMap', l[1] = b
      PROVE  \E a \in Addrs : /\ l = <<b, a>> /\ busMap'[l] = Seen(b, a)
                              /\ a \in EepromsRead(b) \cup read
  <2> HIDE DEF new, read
  <2>1. l \in new /\ busMap'[l] = Seen(b, l[2])
    BY <1>1, <1>5
  <2>2. PICK a \in EepromsRead(b) \cup read : l = <<b, a>>
    BY <1>2, <2>1
  <2>3. a \in Addrs /\ l[2] = a
    BY <1>3, <2>2 DEF read
  <2>4. QED
    BY <2>1, <2>2, <2>3
<1>6. ASSUME NEW l \in DOMAIN busMap', l[1] # b
      PROVE  l \in DOMAIN busMap /\ busMap'[l] = busMap[l]
  <2>1. l \notin new
    BY <1>2, <1>6
  <2> HIDE DEF new
  <2>2. QED
    BY <1>1, <1>6, <2>1
<1>7. \A l \in DOMAIN busMap :
         l[1] # b => l \in DOMAIN busMap' /\ busMap'[l] = busMap[l]
  <2> HIDE DEF new
  <2>1. QED
    BY <1>1
<1>8. \A a \in EepromsRead(b) \cup read : <<b, a>> \in DOMAIN busMap'
  <2> HIDE DEF new, read
  <2>1. QED
    BY <1>1, <1>4
<1>9. \A l \in DOMAIN busMap' :
         IF l[1] = b
         THEN \E a \in Addrs :
                 /\ l = <<b, a>> /\ busMap'[l] = Seen(b, a)
                 /\ \/ a \in EepromsRead(b)
                    \/ a \in Tried(b, foundItems) \cap reached /\ Readable(a, Seen(b, a))
         ELSE l \in DOMAIN busMap /\ busMap'[l] = busMap[l]
  <2> TAKE l \in DOMAIN busMap'
  <2>1. CASE l[1] = b
    BY <1>5, <2>1
  <2>2. CASE l[1] # b
    BY <1>6, <2>2
  <2>3. QED
    BY <2>1, <2>2
<1> QED
  BY <1>7, <1>8, <1>9

\* An eeprom that has a driver is read where it is.
LEMMA DrivenIsSeen ==
    ASSUME NEW b \in Buses, NEW a \in EepromsRead(b)
    PROVE  /\ a \in Addrs /\ <<b, a>> \in Driver
           /\ Where(b, a) = <<b, a>> /\ Seen(b, a) \in Content \ {Drive}
<1>1. a \in Addrs /\ <<b, a>> \in Driver /\ device[<<b, a>>] \in Content \ {Drive}
  BY DEF EepromsRead, Eeproms
<1>2. device[<<b, a>>] # None
  BY <1>1, ContentAssumption DEF Content
<1>3. Where(b, a) = <<b, a>>
  BY <1>2 DEF Where
<1> QED
  BY <1>1, <1>3 DEF Seen

LEMMA ReadKeeps ==
    ASSUME WorldOK, MapOK, StoreOK, NEW b \in Buses, b \in nodes,
           NEW foundItems \in FoundItems(b), NEW reached,
           ReadAddresses(b, foundItems, reached)
    PROVE  /\ foundItems \in SUBSET Addrs
           /\ MapOK'
           /\ foundDevices' \in SUBSET {loc \in Loc : Root[loc[1]] = NoBus}
           /\ failedAddresses' \in [Buses -> SUBSET Addrs]
           /\ DOMAIN fruAddresses' \subseteq Buses
           /\ \A c \in DOMAIN fruAddresses' : fruAddresses'[c] \in SUBSET Addrs
           /\ \A l \in Loc : l[1] # b =>
                 /\ l \in DOMAIN busMap' <=> l \in DOMAIN busMap
                 /\ l \in DOMAIN busMap => busMap'[l] = busMap[l]
<1> DEFINE read == {a \in Tried(b, foundItems) \cap reached : Readable(a, Seen(b, a))}
           mute == {a \in Tried(b, foundItems) \cap reached : Seen(b, a) = Mute}
           answers == Answering(b, foundItems) \cap reached
<1>1. foundItems \in SUBSET Addrs
  BY DEF FoundItems, StoreOK
<1>2. read \subseteq Addrs /\ mute \subseteq Addrs /\ answers \subseteq Addrs
  BY DEF Tried, Answering, Probed
<1>3. RootBus(b) \subseteq Buses /\ (RootBus(b) = {} => Root[b] = NoBus)
  BY RootAssumption DEF RootBus
<1>4. MapOK'
  <2>1. ASSUME NEW l \in DOMAIN busMap'
        PROVE  /\ l \in Loc /\ busMap'[l] \in Content
               /\ busMap'[l] = Drive => l[2] = NvmeAddr
    <3>1. CASE l[1] # b
      <4>1. l \in DOMAIN busMap /\ busMap'[l] = busMap[l]
        BY <1>1, <2>1, <3>1, ReadBecomes
      <4>2. QED
        BY <4>1 DEF MapOK
    <3>2. CASE l[1] = b
      <4>1. PICK a \in Addrs :
               /\ l = <<b, a>> /\ busMap'[l] = Seen(b, a)
               /\ \/ a \in EepromsRead(b)
                  \/ a \in Tried(b, foundItems) \cap reached /\ Readable(a, Seen(b, a))
        BY <1>1, <2>1, <3>2, ReadBecomes
      <4>2. CASE a \in EepromsRead(b)
        BY <4>1, <4>2, DrivenIsSeen DEF Loc
      <4>3. CASE Readable(a, Seen(b, a))
        BY <4>1, <4>3 DEF Readable, Loc
      <4>4. QED
        BY <4>1, <4>2, <4>3
    <3>3. QED
      BY <3>1, <3>2
  <2>2. QED
    BY <2>1 DEF MapOK
<1>5. foundDevices' \in SUBSET {loc \in Loc : Root[loc[1]] = NoBus}
  <2>1. foundDevices' = foundDevices \cup ProbeInterfaces(b, answers)
    BY DEF ReadAddresses
  <2>2. ProbeInterfaces(b, answers) \subseteq {loc \in Loc : Root[loc[1]] = NoBus}
    <3> HIDE DEF answers
    <3>1. QED
      BY <1>2, <1>3 DEF ProbeInterfaces, Loc
  <2>3. QED
    BY <2>1, <2>2 DEF StoreOK
<1>6. failedAddresses' \in [Buses -> SUBSET Addrs]
  <2>1. failedAddresses' = IF powerIsOn /\ RootBus(b) \subseteq DOMAIN fruAddresses
                           THEN [failedAddresses EXCEPT ![b] = @ \cup mute]
                           ELSE failedAddresses
    BY DEF ReadAddresses
  <2> HIDE DEF mute
  <2>2. failedAddresses[b] \cup mute \in SUBSET Addrs
    BY <1>2 DEF StoreOK
  <2>3. QED
    BY <2>1, <2>2 DEF StoreOK
<1>7. /\ DOMAIN fruAddresses' \subseteq Buses
      /\ \A c \in DOMAIN fruAddresses' : fruAddresses'[c] \in SUBSET Addrs
  <2>1. fruAddresses' = [c \in DOMAIN fruAddresses \cup {b} \cup RootBus(b) |->
                           IF c = b THEN foundItems \cup read
                           ELSE IF c \in DOMAIN fruAddresses THEN fruAddresses[c] ELSE {}]
    BY DEF ReadAddresses
  <2> HIDE DEF read
  <2>2. QED
    BY <1>1, <1>2, <1>3, <2>1 DEF StoreOK
<1>8. \A l \in Loc : l[1] # b =>
         /\ l \in DOMAIN busMap' <=> l \in DOMAIN busMap
         /\ l \in DOMAIN busMap => busMap'[l] = busMap[l]
  BY <1>1, ReadBecomes
<1> QED
  BY <1>1, <1>4, <1>5, <1>6, <1>7, <1>8

\* What a step that reads a bus leaves of the invariant.
LEMMA ReadStep ==
    ASSUME DaemonInv, NEW b \in Buses, Scanning(b), Usable(b),
           NEW foundItems \in FoundItems(b), NEW reached,
           ReadAddresses(b, foundItems, reached),
           scan' = [scan EXCEPT !.todo = @ \ {b}],
           UNCHANGED <<world, powerIsOn, timer, ifaces, unknownBusObjectCount>>,
           busBlocklist' \in SUBSET Buses, steady' \in BOOLEAN
    PROVE  DaemonInv'
<1> USE DEF DaemonInv
<1>1. b \in nodes /\ b \in scan.todo
  BY DEF Usable, Scanning
<1>2. /\ MapOK'
      /\ foundDevices' \in SUBSET {loc \in Loc : Root[loc[1]] = NoBus}
      /\ failedAddresses' \in [Buses -> SUBSET Addrs]
      /\ DOMAIN fruAddresses' \subseteq Buses
      /\ \A c \in DOMAIN fruAddresses' : fruAddresses'[c] \in SUBSET Addrs
      /\ \A l \in Loc : l[1] # b =>
            /\ l \in DOMAIN busMap' <=> l \in DOMAIN busMap
            /\ l \in DOMAIN busMap => busMap'[l] = busMap[l]
  BY <1>1, ReadKeeps
<1>3. WorldOK' /\ PathsOf(ifaces)'
  BY DEF WorldOK, PathsOf, world
<1>4. StoreOK' /\ FlagsOK'
  BY <1>2 DEF StoreOK, FlagsOK
<1>5. ScanOK'
  BY DEF ScanOK
<1>6. Agreement'
  <2>1. scan'.mode = scan.mode /\ scan'.bus = scan.bus
    BY DEF ScanOK
  <2>2. scan.mode # "all" => scan.mode = "one" /\ scan.bus = b
    BY <1>1 DEF ScanOK
  <2>3. ASSUME NEW l \in Loc, ~timer, scan.mode # "all", ~InScan(l)' PROVE ShownRight(l)'
    <3>1. ~InScan(l) /\ l[1] # b
      BY <2>1, <2>2, <2>3 DEF InScan
    <3>2. ShownRight(l)
      BY <2>3, <3>1 DEF Agreement
    <3>3. QED
      BY <1>2, <3>1, <3>2 DEF ShownRight
  <2>4. QED
    BY <2>1, <2>3 DEF Agreement
<1> QED
  BY <1>2, <1>3, <1>4, <1>5, <1>6

-----------------------------------------------------------------------------
(* Publishing keeps the invariant. *)

LEMMA PublishedShows ==
    ASSUME NEW shown, PathsOf(shown), NEW k \in Nat, MapOK',
           NEW all \in SUBSET DOMAIN busMap', DOMAIN shown \cap all = {},
           Published(PublishInOrder([ifaces |-> shown, unknown |-> k], all))
    PROVE  Shows(ifaces', shown, all) /\ unknownBusObjectCount' \in Nat
<1>1. all \in SUBSET Loc
  BY DEF MapOK
<1>2. \A l \in all : /\ busMap'[l] \in Content
                     /\ busMap'[l] = Drive => l[2] = NvmeAddr
  BY DEF MapOK
<1>3. PICK new, n : /\ PublishInOrder([ifaces |-> shown, unknown |-> k], all)
                          = [ifaces |-> new, unknown |-> n]
                    /\ n \in Nat
                    /\ Shows(new, shown, all)
  BY <1>1, <1>2, PublishesAll
<1>4. ifaces' = new /\ unknownBusObjectCount' = n
  BY <1>3 DEF Published
<1> QED
  BY <1>3, <1>4

LEMMA PublishAllStep ==
    ASSUME DaemonInv, PublishAllFrus
    PROVE  DaemonInv'
<1> USE DEF DaemonInv
<1>1. WorldOK'
  BY DEF PublishAllFrus, WorldOK, world
<1>2. ScanOK' /\ scan' = Rest
  BY DEF PublishAllFrus, ScanOK, Rest
<1>3. MapOK'
  <2> DEFINE baseboard == {loc \in Loc \cap {<<0, 0>>} : device[loc] # None}
  <2>1. busMap' = [loc \in DOMAIN busMap \cup baseboard |->
                      IF loc \in DOMAIN busMap THEN busMap[loc] ELSE device[loc]]
    BY DEF PublishAllFrus
  <2>2. ASSUME NEW l \in DOMAIN busMap'
        PROVE  /\ l \in Loc /\ busMap'[l] \in Content
               /\ busMap'[l] = Drive => l[2] = NvmeAddr
    <3>1. CASE l \in DOMAIN busMap
      BY <2>1, <3>1 DEF MapOK
    <3>2. CASE l \notin DOMAIN busMap
      <4>1. l \in baseboard /\ busMap'[l] = device[l]
        BY <2>1, <2>2, <3>2
      <4>2. l \in Loc /\ l = <<0, 0>> /\ device[l] # None
        BY <4>1
      <4>3. device[l] \in Fru \cup {Garbled}
        BY <4>2 DEF WorldOK
      <4>4. QED
        BY <4>1, <4>2, <4>3, ContentAssumption DEF Content
    <3>3. QED
      BY <3>1, <3>2
  <2>3. QED
    BY <2>2 DEF MapOK
<1>4. PathsOf(<<>>)
  BY DEF PathsOf
<1>5. Shows(ifaces', <<>>, DOMAIN busMap') /\ unknownBusObjectCount' \in Nat
  <2>1. Published(PublishInOrder([ifaces |-> <<>>, unknown |-> 0], DOMAIN busMap'))
    BY DEF PublishAllFrus
  <2>2. DOMAIN <<>> \cap DOMAIN busMap' = {}
    OBVIOUS
  <2>3. 0 \in Nat
    OBVIOUS
  <2>4. QED
    BY <1>3, <1>4, <2>1, <2>2, <2>3, PublishedShows
<1>6. PathsOf(ifaces)'
  BY <1>5 DEF Shows, PathsOf
<1>7. StoreOK' /\ FlagsOK'
  BY <1>5 DEF PublishAllFrus, StoreOK, FlagsOK, store
<1>8. Agreement'
  <2>1. \A l \in Loc : ShownRight(l)'
    BY <1>5 DEF Shows, ShownRight
  <2>2. QED
    BY <2>1 DEF Agreement
<1> QED
  BY <1>1, <1>2, <1>3, <1>6, <1>7, <1>8

\* Also of a single bus: the interfaces of the others are kept as they are.
LEMMA PublishBusShows ==
    ASSUME DaemonInv, NEW b \in Buses, PublishFrusOnBus(b)
    PROVE  /\ Shows(ifaces', KeptInterfaces(b), {loc \in DOMAIN busMap : loc[1] = b})
           /\ DOMAIN KeptInterfaces(b) = {loc \in DOMAIN ifaces : loc[1] # b}
           /\ \A l \in DOMAIN KeptInterfaces(b) : KeptInterfaces(b)[l] = ifaces[l]
           /\ unknownBusObjectCount' \in Nat
           /\ busMap' = busMap
<1> USE DEF DaemonInv
<1>1. /\ DOMAIN KeptInterfaces(b) = {loc \in DOMAIN ifaces : loc[1] # b}
      /\ \A l \in DOMAIN KeptInterfaces(b) : KeptInterfaces(b)[l] = ifaces[l]
  BY DEF KeptInterfaces, Restrict
<1>2. busMap' = busMap /\ MapOK'
  BY DEF PublishFrusOnBus, MapOK
<1> DEFINE kept == KeptInterfaces(b)
           all == {loc \in DOMAIN busMap : loc[1] = b}
<1>3. Published(PublishInOrder([ifaces |-> kept, unknown |-> unknownBusObjectCount], all))
  BY DEF PublishFrusOnBus
<1>4. all \in SUBSET DOMAIN busMap' /\ DOMAIN kept \cap all = {}
  BY <1>1, <1>2
<1> HIDE DEF kept, all
<1>5. PathsOf(kept)
  <2>1. /\ DOMAIN kept \subseteq DOMAIN ifaces
        /\ \A l \in DOMAIN kept : kept[l] = ifaces[l]
    BY <1>1 DEF kept
  <2>2. \E n \in Int : \A l \in DOMAIN kept : kept[l].path.index <= n
    BY <2>1 DEF PathsOf
  <2>3. QED
    BY <2>1, <2>2 DEF PathsOf
<1>6. unknownBusObjectCount \in Nat
  BY DEF StoreOK
<1>7. Shows(ifaces', kept, all) /\ unknownBusObjectCount' \in Nat
  BY <1>2, <1>3, <1>4, <1>5, <1>6, PublishedShows
<1> QED
  BY <1>1, <1>2, <1>7 DEF kept, all

LEMMA PublishBusStep ==
    ASSUME DaemonInv, NEW b \in Buses, PublishFrusOnBus(b)
    PROVE  DaemonInv'
<1> USE DEF DaemonInv
<1>1. WorldOK'
  BY DEF PublishFrusOnBus, WorldOK, world
<1>2. ScanOK' /\ scan'.mode \in {"idle", "calls"}
  BY DEF PublishFrusOnBus, ScanOK, Rest
<1>3. MapOK'
  BY DEF PublishFrusOnBus, MapOK
<1> DEFINE kept == KeptInterfaces(b)
           all == {loc \in DOMAIN busMap : loc[1] = b}
<1>4. /\ Shows(ifaces', kept, all)
      /\ DOMAIN kept = {loc \in DOMAIN ifaces : loc[1] # b}
      /\ \A l \in DOMAIN kept : kept[l] = ifaces[l]
      /\ unknownBusObjectCount' \in Nat /\ busMap' = busMap
  BY PublishBusShows
<1> HIDE DEF kept
<1>5. PathsOf(ifaces)'
  BY <1>4 DEF Shows, PathsOf
<1>6. StoreOK' /\ FlagsOK'
  BY <1>4 DEF PublishFrusOnBus, StoreOK, FlagsOK, store
<1>7. Agreement'
  <2> SUFFICES ASSUME ~timer, NEW l \in Loc PROVE ShownRight(l)'
    BY <1>2 DEF Agreement, PublishFrusOnBus
  <2>1. scan.mode = "one" /\ scan.bus = b
    BY DEF PublishFrusOnBus
  <2>2. CASE l[1] = b
    <3>1. l \notin DOMAIN kept /\ (l \in all <=> l \in DOMAIN busMap)
      BY <1>4, <2>2
    <3>2. QED
      BY <1>4, <3>1 DEF Shows, ShownRight
  <2>3. CASE l[1] # b
    <3>1. ShownRight(l)
      BY <2>1, <2>3 DEF Agreement, InScan
    <3>2. l \notin all /\ (l \in DOMAIN kept <=> l \in DOMAIN ifaces)
      BY <1>4, <2>3
    <3>3. (l \in DOMAIN ifaces' <=> l \in DOMAIN ifaces)
          /\ (l \in DOMAIN ifaces => ifaces'[l] = ifaces[l])
      BY <1>4, <3>2 DEF Shows
    <3>4. QED
      BY <1>4, <3>1, <3>3 DEF ShownRight
  <2>4. QED
    BY <2>2, <2>3
<1> QED
  BY <1>1, <1>2, <1>3, <1>5, <1>6, <1>7

-----------------------------------------------------------------------------
(* The other steps. *)

\* rescanOneBus from the first of some buses, whatever its caller does to the
\* events.
LEMMA RescanOneStep ==
    ASSUME DaemonInv, NEW buses \in Seq(Buses), buses # <<>>,
           scan.mode \in {"idle", "calls"}, RescanOneBus(buses), WorldOK'
    PROVE  DaemonInv'
<1> USE DEF DaemonInv
<1> DEFINE b == Head(buses)
<1>1. b \in Buses /\ Tail(buses) \in Seq(Buses)
  BY HeadTailProperties
<1>2. scan' = IF b \in nodes
              THEN [mode |-> "one", bus |-> b, todo |-> {b}, calls |-> Tail(buses)]
              ELSE IF Tail(buses) = <<>> THEN Rest
              ELSE [mode |-> "calls", bus |-> NoBus, todo |-> {}, calls |-> Tail(buses)]
  BY DEF RescanOneBus
<1> HIDE DEF b
<1>3. ScanOK'
  BY <1>1, <1>2 DEF ScanOK, Rest
<1>4. /\ UNCHANGED <<powerIsOn, timer, busMap, ifaces, unknownBusObjectCount, store, steady>>
      /\ foundDevices' \subseteq foundDevices
  BY DEF RescanOneBus
<1>5. MapOK' /\ PathsOf(ifaces)'
  BY <1>4 DEF MapOK, PathsOf
<1>6. StoreOK' /\ FlagsOK'
  BY <1>4 DEF StoreOK, FlagsOK, store
<1>7. Agreement'
  <2> SUFFICES ASSUME ~timer, NEW l \in Loc PROVE ShownRight(l)'
    BY <1>4 DEF Agreement
  <2>1. ShownRight(l)
    BY DEF Agreement, InScan
  <2>2. QED
    BY <1>4, <2>1 DEF ShownRight
<1> QED
  BY <1>3, <1>5, <1>6, <1>7

LEMMA RescanSteps ==
    ASSUME DaemonInv, NextCall \/ HandleEvent \/ \E b \in Buses : ReScanBus(b)
    PROVE  DaemonInv'
<1> USE DEF DaemonInv
<1>1. CASE NextCall
  <2>1. scan.calls \in Seq(Buses) /\ scan.calls # <<>>
    BY <1>1 DEF NextCall, ScanOK
  <2>2. WorldOK'
    BY <1>1 DEF NextCall, WorldOK, world
  <2>3. QED
    BY <1>1, <2>1, <2>2, RescanOneStep DEF NextCall
<1>2. CASE HandleEvent
  <2> DEFINE b == Head(events)
             buses == IF RootBus(b) = {} THEN <<b>> ELSE <<Root[b], b>>
  <2>1. b \in Buses /\ Tail(events) \in Seq(Buses)
    BY <1>2, HeadTailProperties DEF HandleEvent, WorldOK
  <2> HIDE DEF b
  <2>2. RootBus(b) # {} => Root[b] \in Buses
    BY <2>1, RootAssumption DEF RootBus
  <2>3. buses \in Seq(Buses) /\ buses # <<>>
    BY <2>1, <2>2
  <2>4. RescanOneBus(buses)
    BY <1>2 DEF HandleEvent, b
  <2>5. WorldOK'
    BY <1>2, <2>1 DEF HandleEvent, WorldOK
  <2> HIDE DEF buses
  <2>6. scan.mode = "idle"
    BY <1>2 DEF HandleEvent, Idle
  <2>7. QED
    BY <2>3, <2>4, <2>5, <2>6, RescanOneStep
<1>3. ASSUME NEW b \in Buses, ReScanBus(b) PROVE DaemonInv'
  <2>1. <<b>> \in Seq(Buses) /\ <<b>> # <<>>
    OBVIOUS
  <2>2. ops \in Nat /\ MaxOps \in Nat
    BY BoundAssumption DEF WorldOK
  <2>3. WorldOK'
    BY <1>3, <2>2 DEF ReScanBus, WorldOK, Spend
  <2>4. scan.mode = "idle" /\ RescanOneBus(<<b>>)
    BY <1>3 DEF ReScanBus, Idle
  <2>5. QED
    BY <2>1, <2>3, <2>4, RescanOneStep
<1> QED
  BY <1>1, <1>2, <1>3

LEMMA TimerStep ==
    ASSUME DaemonInv, TimerFires
    PROVE  DaemonInv'
<1> USE DEF DaemonInv
<1>1. scan' = [mode |-> "all", bus |-> NoBus, todo |-> nodes, calls |-> <<>>]
  BY DEF TimerFires, Rest
<1>2. WorldOK'
  BY DEF TimerFires, WorldOK, world
<1>3. nodes \in SUBSET Buses /\ <<>> \in Seq(Buses)
  BY DEF WorldOK
<1>4. ScanOK' /\ Agreement'
  BY <1>1, <1>3 DEF ScanOK, Agreement
<1>5. MapOK' /\ PathsOf(ifaces)'
  BY DEF TimerFires, MapOK, PathsOf
<1>6. StoreOK' /\ FlagsOK'
  BY DEF TimerFires, StoreOK, FlagsOK, store
<1> QED
  BY <1>2, <1>4, <1>5, <1>6

\* What a write may leave at the place it reaches.
LEMMA WriteReaches ==
    ASSUME WorldOK, NEW b \in Buses, NEW a \in Addrs, NEW new \in Fru,
           NEW out \in WriteOutcomes(b, a, new)
    PROVE  /\ Target(b, a) \in Loc
           /\ out.content \in {device[Target(b, a)], new, Garbled}
<1>1. Target(b, a) \in Loc
  BY WhereIsLoc DEF Target
<1> QED
  BY <1>1 DEF WriteOutcomes

LEMMA WriteStep ==
    ASSUME DaemonInv, NEW b \in Buses, NEW a \in Addrs, NEW new \in Fru,
           NEW out \in WriteOutcomes(b, a, new), WriteFRU(b, a, out), Spend,
           UNCHANGED <<nodes, events>>
    PROVE  /\ WorldOK'
           /\ timer' \in BOOLEAN /\ steady' \in BOOLEAN
           /\ timer' = TRUE \/ timer' = timer
           /\ out.done => timer' = TRUE
<1> USE DEF DaemonInv
<1> DEFINE place == Target(b, a)
<1>1. place \in Loc /\ out.content \in {device[place], new, Garbled}
  BY WriteReaches
<1>2. device' = [device EXCEPT ![place] = out.content]
  BY DEF WriteFRU
<1> HIDE DEF place
<1>3. device' \in [Loc -> Found]
  <2>1. new \in Found /\ Garbled \in Found /\ device[place] \in Found
    BY <1>1 DEF Found, Content, WorldOK
  <2>2. QED
    BY <1>1, <1>2, <2>1 DEF WorldOK
<1>4. <<0, 0>> \in Loc => device'[<<0, 0>>] \in Fru \cup {None, Garbled}
  BY <1>1, <1>2 DEF WorldOK
<1>5. ops' \in 0..MaxOps
  <2>1. ops \in Nat /\ MaxOps \in Nat
    BY BoundAssumption DEF WorldOK
  <2>2. QED
    BY <2>1 DEF Spend
<1>6. WorldOK'
  BY <1>3, <1>4, <1>5 DEF WorldOK
<1>7. steady' \in BOOLEAN
  BY Zenon DEF WriteFRU, FlagsOK
<1>8. timer' \in BOOLEAN /\ (timer' = TRUE \/ timer' = timer) /\ (out.done => timer' = TRUE)
  BY DEF WriteFRU, rescanBusses, FlagsOK
<1> QED
  BY <1>6, <1>7, <1>8

LEMMA WriteFruStep ==
    ASSUME DaemonInv, NEW b \in Buses, NEW a \in Addrs, NEW new \in Written,
           WriteFru(b, a, new)
    PROVE  DaemonInv'
<1> USE DEF DaemonInv
<1> DEFINE c == b % ByteRange
<1>1. c \in Buses /\ new \in Fru
  BY PlugAssumption DEF WriteFru
<1>2. PICK out \in WriteOutcomes(c, a, new) : WriteFRU(c, a, out)
  BY DEF WriteFru
<1>3. /\ Spend
      /\ UNCHANGED <<nodes, events, powerIsOn, scan, bus_, store>>
  BY DEF WriteFru
<1> HIDE DEF c
<1>4. /\ WorldOK'
      /\ timer' \in BOOLEAN /\ steady' \in BOOLEAN
      /\ timer' = TRUE \/ timer' = timer
  BY <1>1, <1>2, <1>3, WriteStep
<1>5. ScanOK' /\ MapOK' /\ PathsOf(ifaces)'
  BY <1>3 DEF ScanOK, MapOK, PathsOf, bus_
<1>6. StoreOK' /\ FlagsOK'
  BY <1>3, <1>4 DEF StoreOK, FlagsOK, bus_, store
<1>7. Agreement'
  BY <1>3, <1>4 DEF Agreement, InScan, ShownRight, bus_
<1> QED
  BY <1>4, <1>5, <1>6, <1>7

\* What UpdateFruField writes is a FRU, and what the setter shows is one.
LEMMA UpdateFieldStep ==
    ASSUME DaemonInv, NEW b \in Buses, NEW a \in Addrs, NEW f \in Fields,
           NEW v \in Values, NEW setter \in BOOLEAN, UpdateField(b, a, f, v, setter)
    PROVE  DaemonInv'
<1> USE DEF DaemonInv
<1> DEFINE c == b % ByteRange
           loc == <<b, a>>
           new == NewFru(b, a, f, v)
<1>1. /\ Spend /\ c \in Buses
      /\ loc \in DOMAIN ifaces \cap DOMAIN busMap
      /\ busMap[loc] \in Fru /\ ifaces[loc].shown \in Fru
      /\ UNCHANGED <<nodes, events, powerIsOn, scan, busMap, unknownBusObjectCount,
                     foundDevices, store>>
  BY DEF UpdateField
<1>2. PICK out \in WriteOutcomes(c, a, new) :
         /\ WriteFRU(c, a, out)
         /\ ifaces' = IF setter /\ out.done
                      THEN [ifaces EXCEPT ![loc].shown.field[f] = v] ELSE ifaces
  BY DEF UpdateField
<1>3. new \in Fru
  BY <1>1 DEF NewFru, Fru
<1> HIDE DEF c, new, loc
<1>4. /\ WorldOK'
      /\ timer' \in BOOLEAN /\ steady' \in BOOLEAN
      /\ timer' = TRUE \/ timer' = timer
      /\ out.done => timer' = TRUE
  BY <1>1, <1>2, <1>3, WriteStep
<1>5. ScanOK' /\ MapOK'
  BY <1>1 DEF ScanOK, MapOK
<1>6. StoreOK' /\ FlagsOK'
  BY <1>1, <1>4 DEF StoreOK, FlagsOK, store
<1>7. PathsOf(ifaces)'
  <2>1. CASE ifaces' = ifaces
    BY <2>1 DEF PathsOf
  <2>2. CASE ifaces' = [ifaces EXCEPT ![loc].shown.field[f] = v]
    <3>1. ifaces[loc] \in [path : Path, shown : Content]
      BY <1>1 DEF PathsOf
    <3> DEFINE shown == [ifaces[loc].shown EXCEPT !.field[f] = v]
               entry == [ifaces[loc] EXCEPT !.shown = shown]
    <3>2. shown \in Fru
      BY <1>1 DEF Fru
    <3>3. ifaces' = [ifaces EXCEPT ![loc] = entry]
      BY <2>2
    <3>4. shown \in Content
      BY <3>2 DEF Content
    <3> HIDE DEF shown
    <3>5. entry \in [path : Path, shown : Content] /\ entry.path = ifaces[loc].path
      BY <3>1, <3>4
    <3> HIDE DEF entry
    <3>6. DOMAIN ifaces' = DOMAIN ifaces
      BY <3>3
    <3>7. \A l \in DOMAIN ifaces : /\ ifaces'[l].path = ifaces[l].path
                                   /\ ifaces'[l] \in [path : Path, shown : Content]
      BY <3>3, <3>5 DEF PathsOf
    <3>8. \E n \in Int : \A l \in DOMAIN ifaces' : ifaces'[l].path.index <= n
      BY <3>6, <3>7 DEF PathsOf
    <3>9. QED
      BY <3>6, <3>7, <3>8 DEF PathsOf
  <2>3. QED
    BY <1>2, <2>1, <2>2
<1>8. Agreement'
  <2>1. CASE out.done
    BY <1>4, <2>1 DEF Agreement
  <2>2. CASE ~out.done
    <3>1. ifaces' = ifaces
      BY <1>2, <2>2
    <3>2. QED
      BY <1>1, <1>4, <3>1 DEF Agreement, InScan, ShownRight
  <2>3. QED
    BY <2>1, <2>2
<1> QED
  BY <1>4, <1>5, <1>6, <1>7, <1>8

\* The hardware changes under the daemon.
LEMMA HardwareStep ==
    ASSUME DaemonInv, Hardware
    PROVE  DaemonInv'
<1> USE DEF DaemonInv
<1>1. ops \in Nat /\ MaxOps \in Nat
  BY BoundAssumption DEF WorldOK
<1>2. ASSUME UNCHANGED <<powerIsOn, timer, scan, bus_, store>>, steady' = FALSE, WorldOK'
      PROVE  DaemonInv'
  <2>1. ScanOK' /\ MapOK' /\ PathsOf(ifaces)'
    BY <1>2 DEF ScanOK, MapOK, PathsOf, bus_
  <2>2. StoreOK' /\ FlagsOK'
    BY <1>2 DEF StoreOK, FlagsOK, bus_, store
  <2>3. Agreement'
    BY <1>2 DEF Agreement, InScan, ShownRight, bus_
  <2>4. QED
    BY <1>2, <2>1, <2>2, <2>3
<1>3. ASSUME NEW loc \in Loc \ Soldered, NEW content \in Plug[loc], PlugIn(loc, content)
      PROVE  DaemonInv'
  <2>1. content \in Found /\ (loc = <<0, 0>> => content \in Fru \cup {None, Garbled})
    BY PlugAssumption DEF Found, Content
  <2>2. device' \in [Loc -> Found]
    BY <1>3, <2>1 DEF PlugIn, WorldOK
  <2>3. <<0, 0>> \in Loc => device'[<<0, 0>>] \in Fru \cup {None, Garbled}
    BY <1>3, <2>1 DEF PlugIn, WorldOK
  <2>4. ops' \in 0..MaxOps
    BY <1>1, <1>3 DEF PlugIn, Spend
  <2>5. WorldOK'
    BY <1>3, <2>2, <2>3, <2>4 DEF PlugIn, WorldOK
  <2>6. QED
    BY <1>2, <1>3, <2>5 DEF PlugIn
<1>4. ASSUME NEW b \in Buses, ToggleNode(b) PROVE DaemonInv'
  <2>1. nodes' \in SUBSET Buses /\ \A c \in Buses : Root[c] = NoBus => c \in nodes'
    BY <1>4 DEF ToggleNode, WorldOK
  <2>2. events' \in Seq(Buses)
    BY <1>4 DEF ToggleNode, WorldOK
  <2>3. ops' \in 0..MaxOps /\ device' = device
    BY <1>1, <1>4 DEF ToggleNode, Spend
  <2>4. WorldOK'
    BY <2>1, <2>2, <2>3 DEF WorldOK
  <2>5. QED
    BY <1>2, <1>4, <2>4 DEF ToggleNode
<1> QED
  BY <1>3, <1>4 DEF Hardware

LEMMA RequestStep ==
    ASSUME DaemonInv, ReScan \/ \E running \in BOOLEAN : HostState(running)
    PROVE  DaemonInv'
<1> USE DEF DaemonInv
<1>1. /\ Spend
      /\ UNCHANGED <<device, nodes, events, scan, bus_, store, steady>>
      /\ timer' = TRUE \/ timer' = timer
      /\ powerIsOn' \in BOOLEAN
  <2>1. CASE ReScan
    BY <2>1 DEF ReScan, rescanBusses, FlagsOK
  <2>2. ASSUME NEW running \in BOOLEAN, HostState(running)
        PROVE  /\ Spend
               /\ UNCHANGED <<device, nodes, events, scan, bus_, store, steady>>
               /\ timer' = TRUE \/ timer' = timer
               /\ powerIsOn' \in BOOLEAN
    <3>1. powerIsOn' = (powerIsOn \/ running)
      BY <2>2 DEF HostState
    <3>2. powerIsOn' \in BOOLEAN
      BY <3>1, Zenon
    <3>3. QED
      BY <2>2, <3>2 DEF HostState, rescanBusses
  <2>3. QED
    BY <2>1, <2>2
<1>2. WorldOK'
  <2>1. ops \in Nat /\ MaxOps \in Nat
    BY BoundAssumption DEF WorldOK
  <2>2. ops' \in 0..MaxOps
    BY <1>1, <2>1 DEF Spend
  <2>3. QED
    BY <1>1, <2>2 DEF WorldOK
<1>3. ScanOK' /\ MapOK' /\ PathsOf(ifaces)'
  BY <1>1 DEF ScanOK, MapOK, PathsOf, bus_
<1>4. StoreOK' /\ FlagsOK'
  BY <1>1 DEF StoreOK, FlagsOK, bus_, store
<1>5. Agreement'
  BY <1>1 DEF Agreement, InScan, ShownRight, bus_
<1> QED
  BY <1>2, <1>3, <1>4, <1>5

LEMMA DaemonStep == DaemonInv /\ [Next]_vars => DaemonInv'
<1> SUFFICES ASSUME DaemonInv, [Next]_vars PROVE DaemonInv'
  OBVIOUS
<1>1. ASSUME NEW b \in Buses, SkipBus(b) PROVE DaemonInv'
  <2> USE DEF DaemonInv
  <2>1. scan' = [scan EXCEPT !.todo = @ \ {b}]
    BY <1>1 DEF SkipBus
  <2>2. ScanOK' /\ scan'.mode = scan.mode /\ scan'.bus = scan.bus
    BY <2>1 DEF ScanOK
  <2>3. WorldOK' /\ MapOK' /\ PathsOf(ifaces)'
    BY <1>1 DEF SkipBus, WorldOK, MapOK, PathsOf, world, bus_
  <2>4. StoreOK' /\ FlagsOK'
    BY <1>1 DEF SkipBus, StoreOK, FlagsOK, bus_, store
  <2>5. Agreement'
    BY <1>1, <2>2 DEF SkipBus, Agreement, InScan, ShownRight, bus_
  <2>6. QED
    BY <2>2, <2>3, <2>4, <2>5
<1>2. ASSUME NEW b \in Buses, ReadBus(b) PROVE DaemonInv'
  <2>1. PICK foundItems \in FoundItems(b) : ReadAddresses(b, foundItems, Addrs)
    BY <1>2 DEF ReadBus
  <2>2. busBlocklist' \in SUBSET Buses /\ steady' \in BOOLEAN
    BY <1>2 DEF ReadBus, DaemonInv, StoreOK, FlagsOK
  <2>3. /\ Scanning(b) /\ Usable(b) /\ scan' = [scan EXCEPT !.todo = @ \ {b}]
        /\ UNCHANGED <<world, powerIsOn, timer, ifaces, unknownBusObjectCount>>
    BY <1>2 DEF ReadBus
  <2>4. QED
    BY <2>1, <2>2, <2>3, ReadStep
<1>3. ASSUME NEW b \in Buses, TimeOutBus(b) PROVE DaemonInv'
  <2>1. PICK foundItems \in FoundItems(b) : \E cut \in Addrs \cup {128} :
           ReadAddresses(b, foundItems, {a \in Addrs : a < cut})
    BY <1>3 DEF TimeOutBus
  <2>2. PICK reached : ReadAddresses(b, foundItems, reached)
    BY <2>1
  <2>3. busBlocklist' \in SUBSET Buses /\ steady' \in BOOLEAN
    BY <1>3 DEF TimeOutBus, DaemonInv, StoreOK
  <2>4. /\ Scanning(b) /\ Usable(b) /\ scan' = [scan EXCEPT !.todo = @ \ {b}]
        /\ UNCHANGED <<world, powerIsOn, timer, ifaces, unknownBusObjectCount>>
    BY <1>3 DEF TimeOutBus
  <2>5. QED
    BY <2>2, <2>3, <2>4, ReadStep
<1>4. CASE PublishAllFrus
  BY <1>4, PublishAllStep
<1>5. ASSUME NEW b \in Buses, PublishFrusOnBus(b) PROVE DaemonInv'
  BY <1>5, PublishBusStep
<1>6. CASE NextCall \/ HandleEvent \/ \E b \in Buses : ReScanBus(b)
  BY <1>6, RescanSteps
<1>7. CASE TimerFires
  BY <1>7, TimerStep
<1>8. CASE ReScan \/ \E running \in BOOLEAN : HostState(running)
  BY <1>8, RequestStep
<1>9. ASSUME NEW b \in Buses, NEW a \in Addrs, NEW new \in Written, WriteFru(b, a, new)
      PROVE  DaemonInv'
  BY <1>9, WriteFruStep
<1>10. ASSUME NEW b \in Buses, NEW a \in Addrs, NEW f \in Fields, NEW v \in Values,
              NEW setter \in BOOLEAN, UpdateField(b, a, f, v, setter)
       PROVE  DaemonInv'
  BY <1>10, UpdateFieldStep
<1>11. CASE Hardware
  BY <1>11, HardwareStep
<1>12. CASE UNCHANGED vars
  BY <1>12 DEF vars, world, bus_, store, DaemonInv, WorldOK, ScanOK, MapOK, PathsOf,
     StoreOK, FlagsOK, Agreement, InScan, ShownRight
<1> QED
  BY <1>1, <1>2, <1>3, <1>4, <1>5, <1>6, <1>7, <1>8, <1>9, <1>10, <1>11, <1>12
     DEF Next, ScanStep, Call

LEMMA DaemonAlways == Spec => []DaemonInv
BY DaemonInit, DaemonStep, PTL DEF Spec

\* TypeOK is inductive with what keeps the drives at their address and the
\* paths numbered.
THEOREM TypeCorrect == Spec => []TypeOK
BY DaemonAlways, DaemonTypes, PTL

\* No two FRUs are published at the same object path, whatever buses were
\* scanned again in which order, and however many FRUs share a name.
THEOREM PathsStayApart == Spec => []PathsAreUnique
<1>1. DaemonInv => PathsAreUnique
  BY DEF DaemonInv, PathsOf, PathsAreUnique
<1>2. QED
  BY <1>1, DaemonAlways, PTL

\* When nothing is pending, D-Bus shows the map of what was read, after full
\* scans, scans of single buses and writes in any order.
THEOREM MapIsShown == Spec => []DBusShowsTheMap
<1>1. DaemonInv => DBusShowsTheMap
  <2> SUFFICES ASSUME DaemonInv, Idle, ~timer
               PROVE  /\ DOMAIN ifaces = {loc \in DOMAIN busMap : Showable(loc, busMap[loc])}
                      /\ \A loc \in DOMAIN ifaces : ifaces[loc].shown = busMap[loc]
    BY DEF DBusShowsTheMap
  <2>1. \A l \in Loc : ShownRight(l)
    BY DEF DaemonInv, Agreement, InScan, Idle
  <2>2. DOMAIN ifaces \subseteq Loc /\ DOMAIN busMap \subseteq Loc
    BY DEF DaemonInv, PathsOf, MapOK
  <2>3. QED
    BY <2>1, <2>2 DEF ShownRight
<1>2. QED
  BY <1>1, DaemonAlways, PTL

\* Scanning one bus again neither moves the FRUs of another to another path nor
\* drops them.
THEOREM OthersStay == Spec => OthersKeepTheirPath
<1>1. ASSUME DaemonInv, Next, NEW b \in Buses, scan.mode = "one", scan.bus = b,
             NEW loc \in DOMAIN ifaces, loc[1] # b
      PROVE  loc \in DOMAIN ifaces' /\ ifaces'[loc] = ifaces[loc]
  <2>1. CASE \E c \in Buses : PublishFrusOnBus(c)
    <3>1. PublishFrusOnBus(b)
      BY <1>1, <2>1 DEF PublishFrusOnBus
    <3>2. /\ Shows(ifaces', KeptInterfaces(b), {l \in DOMAIN busMap : l[1] = b})
          /\ loc \in DOMAIN KeptInterfaces(b) /\ KeptInterfaces(b)[loc] = ifaces[loc]
      BY <1>1, <3>1, PublishBusShows
    <3>3. QED
      BY <1>1, <3>2 DEF Shows
  <2>2. CASE ~\E c \in Buses : PublishFrusOnBus(c)
    <3>1. ifaces' = ifaces
      BY <1>1, <2>2 DEF Next, ScanStep, SkipBus, ReadBus, TimeOutBus, PublishAllFrus,
         NextCall, RescanOneBus, TimerFires, HandleEvent, Call, ReScan, ReScanBus,
         HostState, WriteFru, UpdateField, Hardware, PlugIn, ToggleNode, Idle, bus_
    <3>2. QED
      BY <3>1
  <2>3. QED
    BY <2>1, <2>2
<1>2. DaemonInv /\ [Next]_vars =>
         [\A b \in Buses : scan.mode = "one" /\ scan.bus = b =>
             \A loc \in DOMAIN ifaces :
                loc[1] # b => loc \in DOMAIN ifaces' /\ ifaces'[loc] = ifaces[loc]]_vars
  BY <1>1
<1>3. QED
  BY <1>2, DaemonAlways, PTL DEF Spec, OthersKeepTheirPath

-----------------------------------------------------------------------------
(* Every FRU once. *)

\* Behind a mux an address is used on one side only.  0 is the address of the
\* baseboard's file, which WriteFru may create.
Wires ==
    \A b \in Buses, a \in Addrs \ {0} :
        Root[b] # NoBus => device[<<b, a>>] = None \/ device[<<Root[b], a>>] = None

\* The full scan in progress, if any, has been at the bus.
Scanned(b) == scan.mode = "all" => b \notin scan.todo

\* What was read through a mux was not found on its root, nor is it a driver's.
ReadRight(b, a) ==
    /\ Usable(b) /\ Scanned(b)
    /\ busMap[<<b, a>>] = Seen(b, a)
    /\ Where(b, a) \notin BlockedAddrs
    /\ Where(b, a) # <<b, a>> =>
          /\ ~Busy(b, a)
          /\ Root[b] \in DOMAIN fruAddresses
          /\ a \notin fruAddresses[Root[b]]

\* A FRU that a scan of its bus reads.
InReach(b, a) == Readable(a, device[<<b, a>>]) /\ ~OutOfReach(b, a)

\* What is in the map was read, or is the baseboard's; what is within reach is
\* in the map; fruAddresses has what was found on a root without a driver's
\* help; and the roots come before their channels.
NothingElse ==
    \A b \in Buses, a \in Addrs : <<b, a>> \in DOMAIN busMap =>
        \/ <<b, a>> = <<0, 0>> /\ busMap[<<b, a>>] = device[<<b, a>>]
        \/ ReadRight(b, a)

AllRead ==
    \A b \in Buses, a \in Addrs :
        Scanned(b) /\ InReach(b, a) => <<b, a>> \in DOMAIN busMap

RootsRemember ==
    \A b \in Buses : Root[b] = NoBus /\ Usable(b) /\ Scanned(b) =>
        /\ b \in DOMAIN fruAddresses
        /\ \A a \in Addrs :
              /\ a \in fruAddresses[b] => device[<<b, a>>] # None
              /\ InReach(b, a) /\ <<b, a>> \notin Driver => a \in fruAddresses[b]

InSequence ==
    scan.mode = "all" => \A b \in nodes \ scan.todo, c \in scan.todo : b < c

OnceInv == steady => NothingElse /\ AllRead /\ RootsRemember /\ InSequence

\* The wiring stays as it is, whatever is plugged in or written.
LEMMA WiresInit == Init => Wires
BY DEF Init, NoConflict, Wires

LEMMA WriteKeepsWires ==
    ASSUME DaemonInv, Wires, NEW b \in Buses, NEW a \in Addrs, NEW new \in Fru,
           NEW out \in WriteOutcomes(b, a, new), WriteFRU(b, a, out)
    PROVE  Wires'
<1> DEFINE place == Target(b, a)
<1>1. place \in Loc /\ (place = <<b, a>> \/ place = <<Root[b], a>>)
  BY WhereIsLoc DEF DaemonInv, Target, Where
<1>2. place[2] = a
  BY <1>1
<1>3. device' = [device EXCEPT ![place] = out.content]
  BY DEF WriteFRU
<1>4. out.content = device[place] \/ device[place] # None \/ a = 0
  BY DEF WriteOutcomes
<1> HIDE DEF place
<1>5. \A l \in Loc : l[2] # 0 /\ device[l] = None => device'[l] = None
  BY <1>1, <1>2, <1>3, <1>4 DEF DaemonInv, WorldOK
<1>6. ASSUME NEW c \in Buses, NEW d \in Addrs \ {0}, Root[c] # NoBus
      PROVE  device'[<<c, d>>] = None \/ device'[<<Root[c], d>>] = None
  <2>1. Root[c] \in Buses
    BY <1>6, RootAssumption
  <2>2. <<c, d>> \in Loc /\ <<Root[c], d>> \in Loc
    BY <2>1 DEF Loc
  <2>3. device[<<c, d>>] = None \/ device[<<Root[c], d>>] = None
    BY <1>6 DEF Wires
  <2>4. d # 0
    OBVIOUS
  <2>5. QED
    BY <1>5, <2>2, <2>3, <2>4
<1> QED
  BY <1>6 DEF Wires

LEMMA WiresStep == DaemonInv /\ Wires /\ [Next]_vars => Wires'
<1> SUFFICES ASSUME DaemonInv, Wires, [Next]_vars PROVE Wires'
  OBVIOUS
<1>1. ASSUME NEW b \in Buses, NEW a \in Addrs, NEW new \in Written, WriteFru(b, a, new)
      PROVE  Wires'
  <2>1. b % ByteRange \in Buses /\ new \in Fru
    BY <1>1, PlugAssumption DEF WriteFru
  <2>2. PICK out \in WriteOutcomes(b % ByteRange, a, new) :
           WriteFRU(b % ByteRange, a, out)
    BY <1>1 DEF WriteFru
  <2>3. QED
    BY <2>1, <2>2, WriteKeepsWires
<1>2. ASSUME NEW b \in Buses, NEW a \in Addrs, NEW f \in Fields, NEW v \in Values,
             NEW setter \in BOOLEAN, UpdateField(b, a, f, v, setter)
      PROVE  Wires'
  <2>1. b % ByteRange \in Buses /\ NewFru(b, a, f, v) \in Fru
    BY <1>2 DEF UpdateField, NewFru, Fru
  <2>2. PICK out \in WriteOutcomes(b % ByteRange, a, NewFru(b, a, f, v)) :
           WriteFRU(b % ByteRange, a, out)
    BY <1>2 DEF UpdateField
  <2>3. QED
    BY <2>1, <2>2, WriteKeepsWires
<1>3. ASSUME NEW loc \in Loc \ Soldered, NEW content \in Plug[loc], PlugIn(loc, content)
      PROVE  Wires'
  BY <1>3 DEF PlugIn, NoConflict, Wires
<1>4. CASE device' = device
  BY <1>4 DEF Wires
<1>5. \/ device' = device
      \/ \E b \in Buses, a \in Addrs, new \in Written : WriteFru(b, a, new)
      \/ \E b \in Buses, a \in Addrs, f \in Fields, v \in Values, setter \in BOOLEAN :
            UpdateField(b, a, f, v, setter)
      \/ \E loc \in Loc \ Soldered : \E content \in Plug[loc] : PlugIn(loc, content)
  BY DEF Next, ScanStep, SkipBus, ReadBus, TimeOutBus, PublishAllFrus, PublishFrusOnBus,
     NextCall, TimerFires, HandleEvent, Call, ReScan, ReScanBus, HostState, Hardware,
     ToggleNode, world, vars
<1> QED
  BY <1>1, <1>2, <1>3, <1>4, <1>5

\* While the hardware and the blocklist stay, so does what a bus answers; with
\* more failed addresses there is less within reach.
LEMMA SameHardware ==
    ASSUME NEW b \in Buses, NEW a \in Addrs, RootBus(b) \subseteq Buses,
           device' = device, nodes' = nodes, busBlocklist' = busBlocklist
    PROVE  /\ RootBus(b)' = RootBus(b)
           /\ Usable(b)' <=> Usable(b)
           /\ Where(b, a)' = Where(b, a) /\ Seen(b, a)' = Seen(b, a)
           /\ Busy(b, a)' <=> Busy(b, a)
           /\ (\A c \in Buses : failedAddresses[c] \subseteq failedAddresses'[c]) =>
                 (InReach(b, a)' => InReach(b, a))
<1>1. \A c : RootBus(c)' = RootBus(c)
  BY DEF RootBus
<1>2. Usable(b)' <=> Usable(b)
  BY <1>1 DEF Usable
<1>3. Where(b, a)' = Where(b, a) /\ Seen(b, a)' = Seen(b, a)
  BY <1>1 DEF Where, Seen
<1>4. Busy(b, a)' <=> Busy(b, a)
  BY <1>1 DEF Busy
<1>5. \A c : AddressesBlocked(c)' = AddressesBlocked(c)
  BY DEF AddressesBlocked
<1>6. ASSUME \A c \in Buses : failedAddresses[c] \subseteq failedAddresses'[c], InReach(b, a)'
      PROVE  InReach(b, a)
  <2>1. Readable(a, device[<<b, a>>])
    BY <1>6 DEF InReach
  <2>2. Usable(b) /\ a \notin AddressesBlocked(b) /\ a \notin Blacklisted(b)
    BY <1>2, <1>5, <1>6 DEF InReach, OutOfReach, Blacklisted
  <2>3. \A c \in RootBus(b) : a \notin AddressesBlocked(c)
    BY <1>1, <1>5, <1>6 DEF InReach, OutOfReach
  <2>4. /\ <<b, a>> \notin Driver => ~Busy(b, a) /\ a \in 13..119
        /\ <<b, a>> \in Driver => device[<<b, a>>] # Drive
    BY <1>4, <1>6 DEF InReach, OutOfReach
  <2>5. \A c \in {b} \cup RootBus(b) : a \notin failedAddresses[c]
    <3>1. \A c \in {b} \cup RootBus(b) : a \notin failedAddresses'[c]
      BY <1>1, <1>6 DEF InReach, OutOfReach
    <3>2. QED
      BY <1>6, <3>1
  <2>6. QED
    BY <2>1, <2>2, <2>3, <2>4, <2>5 DEF InReach, OutOfReach
<1> QED
  BY <1>1, <1>2, <1>3, <1>4, <1>6

\* A step that reads nothing and that no bus is done with but one it cannot use.
LEMMA OnceQuiet ==
    ASSUME DaemonInv, OnceInv, steady, device' = device, nodes' = nodes,
           busMap' = busMap, store' = store,
           \A b \in Buses : Scanned(b) => Scanned(b)',
           \A b \in Buses : Scanned(b)' => Scanned(b) \/ ~Usable(b),
           InSequence'
    PROVE  OnceInv'
<1> USE DEF OnceInv
<1>0. /\ busBlocklist' = busBlocklist /\ fruAddresses' = fruAddresses
      /\ failedAddresses' = failedAddresses
      /\ \A b \in Buses : RootBus(b) \subseteq Buses
  BY RootAssumption DEF store, RootBus
<1>1. ASSUME NEW b \in Buses, NEW a \in Addrs
      PROVE  /\ Usable(b)' <=> Usable(b)
             /\ Where(b, a)' = Where(b, a) /\ Seen(b, a)' = Seen(b, a)
             /\ Busy(b, a)' <=> Busy(b, a)
             /\ InReach(b, a)' => InReach(b, a)
  BY <1>0, SameHardware
<1>2. NothingElse'
  BY <1>0, <1>1 DEF NothingElse, ReadRight
<1>3. AllRead'
  <2>1. \A b \in Buses, a \in Addrs : InReach(b, a) => Usable(b)
    BY DEF InReach, OutOfReach
  <2>2. QED
    BY <1>1, <2>1 DEF AllRead
<1>4. RootsRemember'
  <2> SUFFICES ASSUME NEW b \in Buses, Root[b] = NoBus, Usable(b)', Scanned(b)'
               PROVE  /\ b \in DOMAIN fruAddresses'
                      /\ \A a \in Addrs :
                            /\ a \in fruAddresses'[b] => device'[<<b, a>>] # None
                            /\ InReach(b, a)' /\ <<b, a>> \notin Driver
                                  => a \in fruAddresses'[b]
    BY DEF RootsRemember
  <2>1. Usable(b)
    BY <1>0 DEF Usable, RootBus
  <2>2. Scanned(b)
    BY <2>1
  <2>3. QED
    BY <1>0, <1>1, <2>1, <2>2 DEF RootsRemember
<1> QED
  BY <1>2, <1>3, <1>4

\* A channel that is scanned, or was, has its root behind it.
LEMMA RootIsDone ==
    ASSUME DaemonInv, OnceInv, steady, NEW b \in Buses, Scanning(b), Usable(b),
           RootBus(b) # {}
    PROVE  /\ RootBus(b) = {Root[b]} /\ Root[b] \in Buses /\ Root[b] < b
           /\ Root[Root[b]] = NoBus
           /\ Usable(Root[b]) /\ Scanned(Root[b])
           /\ Root[b] \in DOMAIN fruAddresses
<1> DEFINE r == Root[b]
<1>1. RootBus(b) = {r} /\ r \in Buses
  BY RootAssumption DEF RootBus
<1>2. r < b /\ Root[r] = NoBus
  BY <1>1, RootFirst, BusesAssumption
<1>3. r \in nodes /\ r \notin NoSmbus
  BY <1>1, <1>2, SmbusAssumption DEF DaemonInv, WorldOK, Usable
<1>4. RootBus(r) = {} /\ r \notin busBlocklist
  BY <1>1, <1>2 DEF RootBus, Usable
<1>5. Usable(r)
  BY <1>3, <1>4 DEF Usable
<1>6. Scanned(r)
  <2>1. Buses \subseteq Nat
    BY BusesAssumption
  <2>2. r \in Nat /\ b \in Nat
    BY <1>1, <2>1
  <2>3. ~(b <= r)
    BY <1>2, <2>2
  <2>4. r \notin scan.todo
    BY <2>3 DEF Scanning
  <2>5. QED
    BY <2>4 DEF Scanned
<1>7. r \in DOMAIN fruAddresses
  BY <1>1, <1>2, <1>5, <1>6 DEF OnceInv, RootsRemember
<1> QED
  BY <1>1, <1>2, <1>5, <1>6, <1>7

\* What is tried without a driver and readable is within reach.
LEMMA TriedIsInReach ==
    ASSUME NEW b \in Buses, Usable(b), NEW foundItems,
           NEW a \in Tried(b, foundItems), Readable(a, device[<<b, a>>])
    PROVE  InReach(b, a) /\ <<b, a>> \notin Driver
<1>1. /\ a \in Addrs /\ a \in 13..119 /\ ~Busy(b, a)
      /\ a \notin SkipList(b)
      /\ a \notin UNION {failedAddresses[c] : c \in {b} \cup RootBus(b)}
  BY DEF Tried, Answering, Probed
<1>2. /\ <<b, a>> \notin Driver /\ a \notin Blacklisted(b)
      /\ a \notin UNION {AddressesBlocked(c) : c \in {b} \cup RootBus(b)}
  BY <1>1 DEF SkipList, Eeproms
<1> QED
  BY <1>1, <1>2 DEF InReach, OutOfReach

\* What is within reach of its bus is read there, where it was not found on the
\* root.
LEMMA InReachIsRead ==
    ASSUME NEW b \in Buses, NEW a \in Addrs, InReach(b, a), NEW foundItems,
           <<b, a>> \in Driver \/ a \notin foundItems
    PROVE  /\ <<b, a>> \in Driver => a \in EepromsRead(b)
           /\ <<b, a>> \notin Driver =>
                 a \in Tried(b, foundItems) /\ Readable(a, Seen(b, a))
           /\ Where(b, a) = <<b, a>>
<1>1. /\ device[<<b, a>>] \in Content /\ Readable(a, device[<<b, a>>])
      /\ device[<<b, a>>] # None
  BY ContentAssumption DEF InReach, Readable, Content
<1>2. Where(b, a) = <<b, a>> /\ Seen(b, a) = device[<<b, a>>]
  BY <1>1 DEF Where, Seen
<1>3. /\ a \notin Blacklisted(b)
      /\ \A c \in {b} \cup RootBus(b) : a \notin AddressesBlocked(c)
      /\ \A c \in {b} \cup RootBus(b) : a \notin failedAddresses[c]
      /\ <<b, a>> \notin Driver => ~Busy(b, a) /\ a \in 13..119
      /\ <<b, a>> \in Driver => device[<<b, a>>] # Drive
  BY DEF InReach, OutOfReach
<1>4. CASE <<b, a>> \in Driver
  BY <1>1, <1>2, <1>3, <1>4 DEF EepromsRead, Eeproms
<1>5. CASE <<b, a>> \notin Driver
  <2>1. a \notin SkipList(b)
    BY <1>3, <1>5 DEF SkipList, Eeproms
  <2>2. a \in Answering(b, foundItems)
    BY <1>1, <1>2, <1>3, <1>5, <2>1 DEF Answering, Probed
  <2>3. a \in Tried(b, foundItems)
    BY <1>3, <2>2 DEF Tried
  <2>4. QED
    BY <1>1, <1>2, <1>5, <2>3
<1> QED
  BY <1>2, <1>4, <1>5

\* Neither is at an address that the blocklist names.
LEMMA ReadIsNotBlocked ==
    ASSUME NEW b \in Buses, NEW a \in Addrs, Usable(b), NEW foundItems,
           a \in EepromsRead(b) \/ a \in Tried(b, foundItems)
    PROVE  Where(b, a) \notin BlockedAddrs
<1>1. CASE a \in EepromsRead(b)
  <2>1. Where(b, a) = <<b, a>> /\ a \notin AddressesBlocked(b)
    BY <1>1, DrivenIsSeen DEF EepromsRead
  <2>2. b \notin busBlocklist
    BY DEF Usable
  <2>3. QED
    BY <2>1, <2>2 DEF AddressesBlocked
<1>2. CASE a \in Tried(b, foundItems)
  <2>1. \A c \in {b} \cup RootBus(b) : a \notin AddressesBlocked(c) /\ c \notin busBlocklist
    BY <1>2 DEF Tried, Answering, Probed, SkipList, Usable
  <2>2. \A c \in {b} \cup RootBus(b) : <<c, a>> \notin BlockedAddrs
    BY <2>1 DEF AddressesBlocked
  <2>3. Where(b, a) = <<b, a>> \/ (RootBus(b) = {Root[b]} /\ Where(b, a) = <<Root[b], a>>)
    BY DEF Where, RootBus
  <2>4. QED
    BY <2>2, <2>3
<1> QED
  BY <1>1, <1>2

\* What reading a bus leaves of fruAddresses and failedAddresses.
LEMMA ReadStores ==
    ASSUME DaemonInv, OnceInv, steady, NEW b \in Buses, Scanning(b), Usable(b),
           NEW foundItems \in FoundItems(b), ReadAddresses(b, foundItems, Addrs)
    PROVE  /\ foundItems \in SUBSET Addrs
           /\ RootBus(b) = {} => Root[b] = NoBus /\ foundItems = {}
           /\ RootBus(b) # {} => foundItems = fruAddresses[Root[b]]
           /\ DOMAIN fruAddresses' = DOMAIN fruAddresses \cup {b}
           /\ fruAddresses'[b] =
                 foundItems \cup {a \in Tried(b, foundItems) : Readable(a, Seen(b, a))}
           /\ \A c \in DOMAIN fruAddresses \ {b} : fruAddresses'[c] = fruAddresses[c]
           /\ \A c \in Buses : failedAddresses[c] \subseteq failedAddresses'[c]
<1> DEFINE read == {a \in Tried(b, foundItems) : Readable(a, Seen(b, a))}
           readIn == {a \in Tried(b, foundItems) \cap Addrs : Readable(a, Seen(b, a))}
           mute == {a \in Tried(b, foundItems) \cap Addrs : Seen(b, a) = Mute}
<1>0. b \in nodes
  BY DEF Usable
<1>1. foundItems \in SUBSET Addrs
  BY <1>0, ReadKeeps DEF DaemonInv
<1>2. RootBus(b) = {} => Root[b] = NoBus /\ foundItems = {}
  BY <1>0 DEF RootBus, FoundItems
<1>3. RootBus(b) # {} => /\ RootBus(b) = {Root[b]} /\ Root[b] \in DOMAIN fruAddresses
                         /\ foundItems = fruAddresses[Root[b]]
  BY RootIsDone DEF FoundItems
<1>4. readIn = read
  BY DEF Tried, Answering, Probed
<1>5. fruAddresses' = [c \in DOMAIN fruAddresses \cup {b} \cup RootBus(b) |->
                         IF c = b THEN foundItems \cup readIn
                         ELSE IF c \in DOMAIN fruAddresses THEN fruAddresses[c] ELSE {}]
  BY DEF ReadAddresses
<1>6. DOMAIN fruAddresses \cup {b} \cup RootBus(b) = DOMAIN fruAddresses \cup {b}
  BY <1>2, <1>3
<1>7. failedAddresses' = IF powerIsOn /\ RootBus(b) \subseteq DOMAIN fruAddresses
                         THEN [failedAddresses EXCEPT ![b] = @ \cup mute]
                         ELSE failedAddresses
  BY DEF ReadAddresses
<1>8. \A c \in Buses : failedAddresses[c] \subseteq failedAddresses'[c]
  <2> HIDE DEF mute
  <2>1. QED
    BY <1>7 DEF DaemonInv, StoreOK
<1>9. /\ DOMAIN fruAddresses' = DOMAIN fruAddresses \cup {b}
      /\ fruAddresses'[b] = foundItems \cup read
      /\ \A c \in DOMAIN fruAddresses \ {b} : fruAddresses'[c] = fruAddresses[c]
  <2> HIDE DEF read, readIn
  <2>1. QED
    BY <1>4, <1>5, <1>6
<1> QED
  BY <1>1, <1>2, <1>3, <1>8, <1>9

\* What a bus is scanned for is in the map then, and only that.
LEMMA ReadOnce ==
    ASSUME DaemonInv, OnceInv, Wires, steady, NEW b \in Buses, Scanning(b), Usable(b),
           NEW foundItems \in FoundItems(b), ReadAddresses(b, foundItems, Addrs),
           scan' = [scan EXCEPT !.todo = @ \ {b}],
           device' = device, nodes' = nodes, busBlocklist' = busBlocklist
    PROVE  OnceInv'
<1> USE DEF OnceInv
<1> DEFINE read == {a \in Tried(b, foundItems) : Readable(a, Seen(b, a))}
<1>1. /\ foundItems \in SUBSET Addrs
      /\ RootBus(b) = {} => Root[b] = NoBus /\ foundItems = {}
      /\ RootBus(b) # {} => foundItems = fruAddresses[Root[b]]
      /\ DOMAIN fruAddresses' = DOMAIN fruAddresses \cup {b}
      /\ fruAddresses'[b] = foundItems \cup read
      /\ \A c \in DOMAIN fruAddresses \ {b} : fruAddresses'[c] = fruAddresses[c]
      /\ \A c \in Buses : failedAddresses[c] \subseteq failedAddresses'[c]
  BY ReadStores
<1>2. \A c \in Buses : RootBus(c) \subseteq Buses
  BY RootAssumption DEF RootBus
<1>3. ASSUME NEW c \in Buses, NEW a \in Addrs
      PROVE  /\ RootBus(c)' = RootBus(c)
             /\ Usable(c)' <=> Usable(c)
             /\ Where(c, a)' = Where(c, a) /\ Seen(c, a)' = Seen(c, a)
             /\ Busy(c, a)' <=> Busy(c, a)
             /\ InReach(c, a)' => InReach(c, a)
  BY <1>1, <1>2, SameHardware
<1>4. /\ scan'.mode = scan.mode
      /\ \A c : c \in scan'.todo <=> c \in scan.todo /\ c # b
      /\ \A c : Scanned(c)' <=> Scanned(c) \/ c = b
      /\ Scanned(b)'
  <2>1. scan'.mode = scan.mode /\ scan'.todo = scan.todo \ {b}
    BY DEF DaemonInv, ScanOK
  <2>2. QED
    BY <2>1 DEF Scanned
<1>5. NothingElse'
  <2> SUFFICES ASSUME NEW c \in Buses, NEW a \in Addrs, <<c, a>> \in DOMAIN busMap'
               PROVE  \/ <<c, a>> = <<0, 0>> /\ busMap'[<<c, a>>] = device'[<<c, a>>]
                      \/ ReadRight(c, a)'
    BY DEF NothingElse
  <2>1. CASE c = b
    <3>1. busMap'[<<b, a>>] = Seen(b, a) /\ (a \in EepromsRead(b) \/ a \in read)
      <4>1. PICK x \in Addrs :
               /\ <<b, a>> = <<b, x>> /\ busMap'[<<b, a>>] = Seen(b, x)
               /\ \/ x \in EepromsRead(b)
                  \/ x \in Tried(b, foundItems) \cap Addrs /\ Readable(x, Seen(b, x))
        BY <1>1, <2>1, ReadBecomes DEF DaemonInv
      <4>2. QED
        BY <4>1
    <3>2. Where(b, a) \notin BlockedAddrs
      BY <3>1, ReadIsNotBlocked
    <3>3. ASSUME Where(b, a) # <<b, a>>
          PROVE  /\ ~Busy(b, a)
                 /\ Root[b] \in DOMAIN fruAddresses'
                 /\ a \notin fruAddresses'[Root[b]]
      <4>1. a \in Tried(b, foundItems)
        BY <3>1, <3>3, DrivenIsSeen
      <4>2. ~Busy(b, a) /\ a \notin foundItems
        BY <4>1 DEF Tried, Answering, Probed
      <4>3. RootBus(b) # {}
        BY <3>3, WhereIsLoc
      <4>4. Root[b] \in DOMAIN fruAddresses /\ Root[b] # b
        BY <4>3, RootIsDone, BusesAssumption
      <4>5. QED
        BY <1>1, <4>2, <4>3, <4>4
    <3>4. QED
      BY <1>3, <1>4, <2>1, <3>1, <3>2, <3>3 DEF ReadRight
  <2>2. CASE c # b
    <3>1. <<c, a>> \in DOMAIN busMap /\ busMap'[<<c, a>>] = busMap[<<c, a>>]
      BY <1>1, <2>2, ReadBecomes DEF DaemonInv
    <3>2. CASE <<c, a>> = <<0, 0>> /\ busMap[<<c, a>>] = device[<<c, a>>]
      BY <3>1, <3>2
    <3>3. CASE ReadRight(c, a)
      <4>1. ASSUME Where(c, a) # <<c, a>>
            PROVE  /\ ~Busy(c, a)
                   /\ Root[c] \in DOMAIN fruAddresses'
                   /\ a \notin fruAddresses'[Root[c]]
        <5>1. ~Busy(c, a) /\ Root[c] \in DOMAIN fruAddresses /\ a \notin fruAddresses[Root[c]]
          BY <3>3, <4>1 DEF ReadRight
        <5>2. CASE Root[c] # b
          BY <1>1, <5>1, <5>2
        <5>3. CASE Root[c] = b
          <6>1. b < c /\ Root[b] = NoBus /\ b # NoBus
            BY <5>3, RootFirst, BusesAssumption
          <6>2. RootBus(b) = {} /\ foundItems = {}
            BY <1>1, <6>1 DEF RootBus
          <6>3. ASSUME a \in read PROVE FALSE
            <7>1. Where(b, a) = <<b, a>>
              BY <6>2 DEF Where
            <7>2. InReach(b, a) /\ <<b, a>> \notin Driver
              BY <6>3, <7>1, TriedIsInReach DEF Seen
            <7>3. scan.mode = "all"
              BY <5>1, <5>3, <6>1, <7>2 DEF RootsRemember, Scanned
            <7>4. c < b
              BY <3>3, <7>3 DEF InSequence, ReadRight, Usable, Scanned, Scanning
            <7>5. b \in Nat /\ c \in Nat
              BY BusesAssumption
            <7>6. QED
              BY <6>1, <7>4, <7>5
          <6>4. QED
            BY <1>1, <5>1, <5>3, <6>2, <6>3
        <5>4. QED
          BY <5>2, <5>3
      <4>2. QED
        BY <1>3, <1>4, <3>1, <3>3, <4>1 DEF ReadRight
    <3>4. QED
      BY <3>1, <3>2, <3>3 DEF NothingElse
  <2>3. QED
    BY <2>1, <2>2
<1>6. AllRead'
  <2> SUFFICES ASSUME NEW c \in Buses, NEW a \in Addrs, Scanned(c)', InReach(c, a)'
               PROVE  <<c, a>> \in DOMAIN busMap'
    BY DEF AllRead
  <2>1. InReach(c, a)
    BY <1>3
  <2>2. CASE c # b
    <3>1. <<c, a>> \in DOMAIN busMap
      BY <1>4, <2>1, <2>2 DEF AllRead
    <3>2. QED
      BY <1>1, <2>2, <3>1, ReadBecomes DEF DaemonInv
  <2>3. CASE c = b
    <3>1. ASSUME <<b, a>> \notin Driver, a \in foundItems PROVE FALSE
      <4>1. RootBus(b) # {}
        BY <1>1, <3>1
      <4>2. /\ Root[b] \in Buses /\ Root[Root[b]] = NoBus
            /\ Usable(Root[b]) /\ Scanned(Root[b])
        BY <4>1, RootIsDone
      <4>3. device[<<Root[b], a>>] # None
        BY <1>1, <3>1, <4>1, <4>2 DEF RootsRemember
      <4>4. device[<<b, a>>] # None /\ a \in Addrs \ {0}
        <5>1. device[<<b, a>>] \in Content
          BY <2>1, <2>3 DEF InReach, Readable
        <5>2. device[<<b, a>>] # None
          BY <5>1, ContentAssumption DEF Content
        <5>3. a \in 13..119
          BY <2>1, <2>3, <3>1 DEF InReach, OutOfReach
        <5>4. QED
          BY <5>2, <5>3
      <4>5. Root[b] # NoBus
        BY <4>2, BusesAssumption
      <4>6. QED
        BY <4>3, <4>4, <4>5 DEF Wires
    <3>2. \/ a \in EepromsRead(b)
          \/ a \in Tried(b, foundItems) \cap Addrs /\ Readable(a, Seen(b, a))
      BY <2>1, <2>3, <3>1, InReachIsRead
    <3>3. QED
      BY <1>1, <2>3, <3>2, ReadBecomes DEF DaemonInv
  <2>4. QED
    BY <2>2, <2>3
<1>7. RootsRemember'
  <2> SUFFICES ASSUME NEW c \in Buses, Root[c] = NoBus, Usable(c)', Scanned(c)'
               PROVE  /\ c \in DOMAIN fruAddresses'
                      /\ \A a \in Addrs :
                            /\ a \in fruAddresses'[c] => device'[<<c, a>>] # None
                            /\ InReach(c, a)' /\ <<c, a>> \notin Driver
                                  => a \in fruAddresses'[c]
    BY DEF RootsRemember
  <2>1. CASE c = b
    <3>1. RootBus(b) = {} /\ foundItems = {}
      BY <1>1, <2>1 DEF RootBus
    <3>2. \A a \in Addrs : Seen(b, a) = device[<<b, a>>]
      BY <3>1 DEF Seen, Where
    <3>3. \A a \in read : a \in Addrs => device[<<b, a>>] # None
      BY <3>2, ContentAssumption DEF Readable, Content
    <3>4. \A a \in Addrs : InReach(b, a)' /\ <<b, a>> \notin Driver => a \in read
      BY <1>3, <3>1, InReachIsRead
    <3>5. QED
      BY <1>1, <2>1, <3>1, <3>3, <3>4
  <2>2. CASE c # b
    <3>1. Usable(c) /\ Scanned(c)
      <4>1. Usable(c)
        BY DEF Usable, RootBus
      <4>2. QED
        BY <1>4, <2>2, <4>1
    <3>2. QED
      BY <1>1, <1>3, <2>2, <3>1 DEF RootsRemember
  <2>3. QED
    BY <2>1, <2>2
<1>8. InSequence'
  <2> SUFFICES ASSUME scan'.mode = "all", NEW c \in nodes' \ scan'.todo, NEW d \in scan'.todo
               PROVE  c < d
    BY DEF InSequence
  <2>1. scan.mode = "all" /\ d \in scan.todo /\ d # b /\ c \in nodes
    BY <1>4
  <2>2. c \in Nat /\ d \in Nat /\ b \in Nat
    BY <2>1, BusesAssumption DEF DaemonInv, WorldOK, ScanOK
  <2>3. CASE c = b
    BY <2>1, <2>2, <2>3 DEF Scanning
  <2>4. CASE c # b
    BY <1>4, <2>1, <2>4 DEF InSequence
  <2>5. QED
    BY <2>3, <2>4
<1> QED
  BY <1>5, <1>6, <1>7, <1>8

\* Publishing all adds the baseboard's file, which WriteFru may have made.
LEMMA PublishAllOnce ==
    ASSUME DaemonInv, OnceInv, steady, PublishAllFrus
    PROVE  OnceInv'
<1> USE DEF OnceInv
<1> DEFINE baseboard == {loc \in Loc \cap {<<0, 0>>} : device[loc] # None}
<1>1. /\ device' = device /\ nodes' = nodes /\ busBlocklist' = busBlocklist
      /\ fruAddresses' = fruAddresses /\ failedAddresses' = failedAddresses
      /\ scan.todo = {} /\ scan' = Rest
  BY DEF PublishAllFrus, world, store
<1>2. /\ DOMAIN busMap' = DOMAIN busMap \cup baseboard
      /\ \A l \in DOMAIN busMap : busMap'[l] = busMap[l]
      /\ \A l \in DOMAIN busMap' \ DOMAIN busMap :
            l = <<0, 0>> /\ busMap'[l] = device[l]
  <2>1. busMap' = [loc \in DOMAIN busMap \cup baseboard |->
                      IF loc \in DOMAIN busMap THEN busMap[loc] ELSE device[loc]]
    BY DEF PublishAllFrus
  <2>2. QED
    BY <2>1
<1>3. \A b \in Buses : RootBus(b) \subseteq Buses
  BY RootAssumption DEF RootBus
<1>4. ASSUME NEW b \in Buses, NEW a \in Addrs
      PROVE  /\ Usable(b)' <=> Usable(b)
             /\ Where(b, a)' = Where(b, a) /\ Seen(b, a)' = Seen(b, a)
             /\ Busy(b, a)' <=> Busy(b, a)
             /\ InReach(b, a)' => InReach(b, a)
  BY <1>1, <1>3, SameHardware
<1>5. \A b \in Buses : Scanned(b) /\ Scanned(b)'
  BY <1>1 DEF Scanned, Rest
<1>6. NothingElse'
  <2> SUFFICES ASSUME NEW b \in Buses, NEW a \in Addrs, <<b, a>> \in DOMAIN busMap'
               PROVE  \/ <<b, a>> = <<0, 0>> /\ busMap'[<<b, a>>] = device'[<<b, a>>]
                      \/ ReadRight(b, a)'
    BY DEF NothingElse
  <2>1. CASE <<b, a>> \notin DOMAIN busMap
    BY <1>1, <1>2, <2>1
  <2>2. CASE <<b, a>> \in DOMAIN busMap
    <3>1. \/ <<b, a>> = <<0, 0>> /\ busMap[<<b, a>>] = device[<<b, a>>]
          \/ ReadRight(b, a)
      BY <2>2 DEF NothingElse
    <3>2. ReadRight(b, a) => ReadRight(b, a)'
      BY <1>1, <1>2, <1>4, <1>5, <2>2 DEF ReadRight
    <3>3. QED
      BY <1>1, <1>2, <2>2, <3>1, <3>2
  <2>3. QED
    BY <2>1, <2>2
<1>7. AllRead'
  BY <1>2, <1>4, <1>5 DEF AllRead
<1>8. RootsRemember'
  <2> SUFFICES ASSUME NEW b \in Buses, Root[b] = NoBus, Usable(b)', Scanned(b)'
               PROVE  /\ b \in DOMAIN fruAddresses'
                      /\ \A a \in Addrs :
                            /\ a \in fruAddresses'[b] => device'[<<b, a>>] # None
                            /\ InReach(b, a)' /\ <<b, a>> \notin Driver
                                  => a \in fruAddresses'[b]
    BY DEF RootsRemember
  <2>1. Usable(b)
    BY <1>1 DEF Usable, RootBus
  <2>2. QED
    BY <1>1, <1>4, <1>5, <2>1 DEF RootsRemember
<1>9. InSequence'
  BY <1>1 DEF InSequence, Rest
<1> QED
  BY <1>6, <1>7, <1>8, <1>9

\* A full scan begins with nothing read, and what it will not reach is not in
\* reach.
LEMMA TimerOnce ==
    ASSUME DaemonInv, TimerFires
    PROVE  OnceInv'
<1>1. /\ busMap' = <<>> /\ nodes' = nodes /\ scan' = [Rest EXCEPT !.mode = "all", !.todo = nodes]
  BY DEF TimerFires, world
<1>2. scan'.mode = "all" /\ scan'.todo = nodes
  BY <1>1 DEF Rest
<1>3. ASSUME NEW b \in Buses, Scanned(b)' PROVE ~Usable(b)'
  BY <1>1, <1>2, <1>3 DEF Scanned, Usable
<1>4. NothingElse'
  <2>1. DOMAIN busMap' = {}
    BY <1>1
  <2>2. QED
    BY <2>1 DEF NothingElse
<1>5. AllRead' /\ RootsRemember'
  BY <1>3 DEF AllRead, RootsRemember, InReach, OutOfReach
<1>6. InSequence'
  BY <1>1, <1>2 DEF InSequence
<1> QED
  BY <1>4, <1>5, <1>6 DEF OnceInv

\* A bus is passed over, read whole, or not at all; while the hardware is as it
\* was, nothing else touches what was read.
LEMMA OnceStep == DaemonInv /\ Wires /\ OnceInv /\ [Next]_vars => OnceInv'
<1> SUFFICES ASSUME DaemonInv, Wires, OnceInv, [Next]_vars, steady' PROVE OnceInv'
  BY DEF OnceInv
<1>1. ASSUME NEW b \in Buses, SkipBus(b) PROVE OnceInv'
  <2>1. /\ Scanning(b) /\ ~Usable(b) /\ scan' = [scan EXCEPT !.todo = @ \ {b}]
        /\ steady /\ device' = device /\ nodes' = nodes /\ busMap' = busMap
        /\ store' = store
    BY <1>1 DEF SkipBus, world, bus_
  <2>2. scan'.mode = scan.mode /\ scan'.todo = scan.todo \ {b}
    BY <2>1 DEF DaemonInv, ScanOK
  <2>3. \A c \in Buses : /\ Scanned(c) => Scanned(c)'
                         /\ Scanned(c)' => Scanned(c) \/ ~Usable(c)
    BY <2>1, <2>2 DEF Scanned
  <2>4. InSequence'
    <3> SUFFICES ASSUME scan'.mode = "all", NEW c \in nodes \ scan'.todo, NEW d \in scan'.todo
                 PROVE  c < d
      BY <2>1 DEF InSequence
    <3>1. c \in Nat /\ d \in Nat /\ b \in Nat
      BY <2>2, BusesAssumption DEF DaemonInv, WorldOK, ScanOK
    <3>2. CASE c = b
      BY <2>1, <2>2, <3>1, <3>2 DEF Scanning
    <3>3. CASE c # b
      BY <2>1, <2>2, <3>3 DEF InSequence, OnceInv
    <3>4. QED
      BY <3>2, <3>3
  <2>5. QED
    BY <2>1, <2>3, <2>4, OnceQuiet
<1>2. ASSUME NEW b \in Buses, ReadBus(b) PROVE OnceInv'
  <2>1. PICK foundItems \in FoundItems(b) : ReadAddresses(b, foundItems, Addrs)
    BY <1>2 DEF ReadBus
  <2>2. /\ steady /\ Scanning(b) /\ Usable(b) /\ scan' = [scan EXCEPT !.todo = @ \ {b}]
        /\ device' = device /\ nodes' = nodes /\ busBlocklist' = busBlocklist
    BY <1>2 DEF ReadBus, world
  <2>3. QED
    BY <2>1, <2>2, ReadOnce
<1>3. CASE PublishAllFrus
  <2>1. steady
    BY <1>3 DEF PublishAllFrus
  <2>2. QED
    BY <1>3, <2>1, PublishAllOnce
<1>4. CASE TimerFires
  BY <1>4, TimerOnce
<1>5. ASSUME steady, device' = device, nodes' = nodes, busMap' = busMap, store' = store,
             scan'.mode # "all", scan.mode # "all"
      PROVE  OnceInv'
  <2>1. \A b \in Buses : Scanned(b) /\ Scanned(b)'
    BY <1>5 DEF Scanned
  <2>2. InSequence'
    BY <1>5 DEF InSequence
  <2>3. QED
    BY <1>5, <2>1, <2>2, OnceQuiet
<1>6. ASSUME steady, device' = device, nodes' = nodes, busMap' = busMap, store' = store,
             scan' = scan
      PROVE  OnceInv'
  <2>1. \A b \in Buses : Scanned(b)' <=> Scanned(b)
    BY <1>6 DEF Scanned
  <2>2. InSequence'
    BY <1>6 DEF InSequence, OnceInv
  <2>3. QED
    BY <1>6, <2>1, <2>2, OnceQuiet
<1>7. ASSUME NEW b \in Buses, PublishFrusOnBus(b) PROVE OnceInv'
  <2>1. /\ steady /\ device' = device /\ nodes' = nodes /\ busMap' = busMap
        /\ store' = store /\ scan.mode = "one"
    BY <1>7 DEF PublishFrusOnBus, world
  <2>2. scan'.mode \in {"idle", "calls"}
    BY <1>7 DEF PublishFrusOnBus, Rest
  <2>3. QED
    BY <1>5, <2>1, <2>2
<1>8. CASE NextCall \/ HandleEvent \/ \E b \in Buses : ReScanBus(b)
  <2>1. PICK buses : RescanOneBus(buses)
    BY <1>8 DEF NextCall, HandleEvent, ReScanBus
  <2>2. steady /\ busMap' = busMap /\ store' = store
    BY <2>1 DEF RescanOneBus
  <2>3. scan'.mode # "all"
    BY <2>1 DEF RescanOneBus, Rest
  <2>4. device' = device /\ nodes' = nodes /\ scan.mode # "all"
    BY <1>8 DEF NextCall, HandleEvent, ReScanBus, Idle, world
  <2>5. QED
    BY <1>5, <2>2, <2>3, <2>4
<1>9. CASE ReScan \/ \E running \in BOOLEAN : HostState(running)
  BY <1>6, <1>9 DEF ReScan, HostState, bus_
<1>10. ASSUME NEW b \in Buses, NEW a \in Addrs, NEW new \in Written, WriteFru(b, a, new)
       PROVE  OnceInv'
  <2>1. steady /\ device' = device
    BY <1>10 DEF WriteFru, WriteFRU
  <2>2. QED
    BY <1>6, <1>10, <2>1 DEF WriteFru, bus_
<1>11. ASSUME NEW b \in Buses, NEW a \in Addrs, NEW f \in Fields, NEW v \in Values,
              NEW setter \in BOOLEAN, UpdateField(b, a, f, v, setter)
       PROVE  OnceInv'
  <2>1. steady /\ device' = device
    BY <1>11 DEF UpdateField, WriteFRU
  <2>2. QED
    BY <1>6, <1>11, <2>1 DEF UpdateField
<1>12. ASSUME NEW b \in Buses, TimeOutBus(b) PROVE FALSE
  BY <1>12 DEF TimeOutBus
<1>13. CASE Hardware
  BY <1>13 DEF Hardware, PlugIn, ToggleNode
<1>14. CASE UNCHANGED vars
  BY <1>6, <1>14 DEF vars, world, bus_
<1> QED
  BY <1>1, <1>2, <1>3, <1>4, <1>7, <1>8, <1>9, <1>10, <1>11, <1>12, <1>13, <1>14
     DEF Next, ScanStep, Call

\* After a full scan, and whichever single buses are scanned after it, every
\* FRU within reach is in the map once, and the map has nothing else.
THEOREM EveryFruIsReadOnce == Spec => []EveryFruOnce
<1>1. Init => OnceInv
  BY DEF Init, OnceInv
<1>2. DaemonInv /\ OnceInv => EveryFruOnce
  <2> SUFFICES ASSUME DaemonInv, OnceInv, Idle, steady PROVE EveryFruOnce
    BY DEF EveryFruOnce
  <2>1. \A b \in Buses : Scanned(b)
    BY DEF Idle, Scanned
  <2>2. ASSUME NEW b \in Buses, NEW a \in Addrs, InReach(b, a)
        PROVE  {l \in DOMAIN busMap : Where(l[1], l[2]) = <<b, a>>} = {<<b, a>>}
    <3>1. <<b, a>> \in DOMAIN busMap
      BY <2>1, <2>2 DEF OnceInv, AllRead
    <3>2. Where(b, a) = <<b, a>>
      <4>1. a \notin {}
        OBVIOUS
      <4>2. QED
        BY <2>2, <4>1, InReachIsRead
    <3>3. ASSUME NEW c \in Buses, <<c, a>> \in DOMAIN busMap, Where(c, a) = <<b, a>>, c # b
          PROVE  FALSE
      <4>1. Where(c, a) # <<c, a>>
        BY <3>3
      <4>2. Root[c] = b
        BY <3>3, <4>1, WhereIsLoc
      <4>3. Root[b] = NoBus /\ b < c /\ c \in Nat
        BY <3>3, <4>2, RootFirst, BusesAssumption
      <4>4. c # 0
        BY <4>3, BusesAssumption
      <4>5. ReadRight(c, a)
        BY <3>3, <4>4 DEF OnceInv, NothingElse
      <4>6. ~Busy(c, a) /\ a \notin fruAddresses[b] /\ Usable(c)
        BY <4>1, <4>2, <4>5 DEF ReadRight
      <4>7. RootBus(c) = {b}
        BY <3>3, <4>1, <4>2, WhereIsLoc
      <4>8. <<b, a>> \notin Driver
        BY <4>6, <4>7 DEF Busy
      <4>9. Usable(b)
        BY <2>2 DEF InReach, OutOfReach
      <4>10. a \in fruAddresses[b]
        BY <2>1, <2>2, <4>3, <4>8, <4>9 DEF OnceInv, RootsRemember
      <4>11. QED
        BY <4>6, <4>10
    <3>4. \A l \in DOMAIN busMap : l[1] \in Buses /\ l[2] \in Addrs /\ l = <<l[1], l[2]>>
      BY DEF DaemonInv, MapOK, Loc
    <3>5. \A l \in DOMAIN busMap : Where(l[1], l[2])[2] = l[2]
      BY DEF Where
    <3>6. ASSUME NEW l \in DOMAIN busMap, Where(l[1], l[2]) = <<b, a>> PROVE l = <<b, a>>
      BY <3>3, <3>4, <3>5, <3>6
    <3>7. QED
      BY <3>1, <3>2, <3>6
  <2>3. ASSUME NEW l \in DOMAIN busMap
        PROVE  /\ busMap[l] = Seen(l[1], l[2])
               /\ l # <<0, 0>> => Where(l[1], l[2]) \notin BlockedAddrs
    <3>1. PICK b \in Buses : \E a \in Addrs : l = <<b, a>>
      BY DEF DaemonInv, MapOK, Loc
    <3>2. PICK a \in Addrs : l = <<b, a>>
      BY <3>1
    <3>3. CASE ReadRight(b, a)
      BY <3>2, <3>3 DEF ReadRight
    <3>4. CASE l = <<0, 0>> /\ busMap[l] = device[l]
      <4>1. device[<<0, 0>>] # None
        BY <3>4, ContentAssumption DEF DaemonInv, MapOK, Content
      <4>2. Where(0, 0) = <<0, 0>>
        BY <4>1 DEF Where
      <4>3. QED
        BY <3>4, <4>2 DEF Seen
    <3>5. QED
      BY <3>2, <3>3, <3>4 DEF OnceInv, NothingElse
  <2>4. ASSUME NEW b \in Buses, NEW a \in Addrs,
               Readable(a, device[<<b, a>>]) /\ ~OutOfReach(b, a)
        PROVE  \E c \in Buses :
                  {l \in DOMAIN busMap : Where(l[1], l[2]) = <<b, a>>} = {<<c, a>>}
    BY <2>2, <2>4 DEF InReach
  <2>5. QED
    BY <2>3, <2>4 DEF EveryFruOnce
<1>3. QED
  BY <1>1, <1>2, WiresInit, WiresStep, OnceStep, DaemonInit, DaemonStep, PTL DEF Spec

-----------------------------------------------------------------------------
(* Offsets: the page of an index and its place there. *)

LEMMA FirstPage ==
    ASSUME NEW i \in 0..Page - 1
    PROVE  i \div Page = 0 /\ i % Page = i
BY SizeAssumption, SMT

LEMMA SecondPage ==
    ASSUME NEW i \in Page..2 * Page - 1
    PROVE  i \div Page = 1 /\ i % Page = i - Page
BY SizeAssumption, SMT

\* Every index of a FRU has a cell, and no two have the same.
LEMMA CellOfIndex ==
    ASSUME NEW i \in 0..MaxFruSize - 1
    PROVE  /\ <<i \div Page, i % Page>> \in Cells
           /\ <<0, i>> \in Cells
           /\ <<0, i % Page>> \in Cells
           /\ \A j \in 0..MaxFruSize - 1 :
                i # j => <<i \div Page, i % Page>> # <<j \div Page, j % Page>>
<1>1. \A k \in 0..MaxFruSize - 1 :
         k \div Page = (IF k < Page THEN 0 ELSE 1)
         /\ k % Page = (IF k < Page THEN k ELSE k - Page)
  <2> TAKE k \in 0..MaxFruSize - 1
  <2>1. CASE k < Page
    BY <2>1, FirstPage, SizeAssumption
  <2>2. CASE ~(k < Page)
    <3>1. k \in Page..2 * Page - 1
      BY <2>2, SizeAssumption
    <3>2. QED
      BY <2>2, <3>1, SecondPage
  <2>3. QED
    BY <2>1, <2>2
<1>2. i % Page \in 0..MaxFruSize /\ i \div Page \in {0, 1}
  BY <1>1, SizeAssumption
<1>3. \A j \in 0..MaxFruSize - 1 :
         i # j => i \div Page # j \div Page \/ i % Page # j % Page
  BY <1>1, SizeAssumption
<1>4. QED
  BY <1>2, <1>3, SizeAssumption DEF Cells

-----------------------------------------------------------------------------
(* The device address *)

\* Before the detection nothing is written; a byte of the second page that is
\* tried again, and every byte after it, is sent to the next device address.
AddressMoves ==
    /\ status = "detect" => index = 0 /\ retries = RetryMax
    /\ status \in {"detect", "write"} =>
         address = IF index < Page \/ (index = Page /\ retries = RetryMax) THEN 0 ELSE 1

\* The byte that is written next is sent to the device address of its page.
LEMMA AddressOfPage ==
    ASSUME TransferTypeOK, AddressMoves, status = "write", index < size
    PROVE  Address = index \div Page
<1>1. /\ index \in 0..MaxFruSize - 1 /\ RetryMax \in Nat /\ retries \in 0..RetryMax
      /\ Page \in Nat \ {0} /\ MaxFruSize \in Page..2 * Page
  BY SizeAssumption, RetryAssumption DEF TransferTypeOK
<1>2. CASE index < Page
  <2>1. index \div Page = 0 /\ index % Page = index
    BY <1>1, <1>2, FirstPage
  <2>2. QED
    BY <1>1, <1>2, <2>1 DEF Address, NewPage, AddressMoves
<1>3. CASE index >= Page
  <2>1. index \div Page = 1 /\ index % Page = index - Page
    BY <1>1, <1>3, SecondPage
  <2>2. index % Page = 0 <=> index = Page
    BY <1>1, <1>3, <2>1
  <2>3. QED
    BY <1>1, <1>3, <2>1, <2>2 DEF Address, NewPage, AddressMoves
<1>4. QED
  BY <1>1, <1>2, <1>3

\* The invariant of the index and the address.
Transfer == TransferTypeOK /\ AddressMoves

LEMMA TransferBegins == TransferInit => Transfer
<1> SUFFICES ASSUME TransferInit PROVE Transfer
  OBVIOUS
<1>1. cell \in [Cells -> -1..MaxFruSize]
  <2>1. -1 \in -1..MaxFruSize
    BY SizeAssumption
  <2>2. QED
    BY <2>1 DEF TransferInit
<1>2. index \in 0..size /\ retries \in 0..RetryMax /\ 0 < Page
  BY SizeAssumption, RetryAssumption DEF TransferInit
<1>3. TransferTypeOK
  BY <1>1, <1>2 DEF TransferInit, TransferTypeOK
<1>4. AddressMoves
  BY <1>2 DEF TransferInit, AddressMoves
<1>5. QED
  BY <1>3, <1>4 DEF Transfer

LEMMA TransferStep == Transfer /\ [TransferNext]_transferVars => Transfer'
<1> SUFFICES ASSUME Transfer, [TransferNext]_transferVars PROVE Transfer'
  OBVIOUS
<1> USE SizeAssumption, RetryAssumption DEF Transfer
<1>1. CASE Detect
  <2>1. is16Bit' \in BOOLEAN
    BY <1>1 DEF Detect, IsDevice16Bit
  <2>2. QED
    BY <1>1, <2>1 DEF Detect, TransferTypeOK, AddressMoves
<1>2. CASE DetectFails
  BY <1>2 DEF DetectFails, TransferTypeOK, AddressMoves
<1>3. CASE WriteByte
  <2>1. /\ Address = index \div Page
        /\ Address = (IF index < Page THEN 0 ELSE 1)
    <3>1. Address = index \div Page
      BY <1>3, AddressOfPage DEF WriteByte
    <3>2. index \in 0..2 * Page - 1
      BY <1>3 DEF WriteByte, TransferTypeOK
    <3>3. QED
      BY <3>1, <3>2, FirstPage, SecondPage
  <2>2. cell' \in [Cells -> -1..MaxFruSize]
    BY <1>3 DEF WriteByte, TransferTypeOK
  <2>3. QED
    BY <1>3, <2>1, <2>2 DEF WriteByte, TransferTypeOK, AddressMoves
<1>4. CASE WriteFails
  <2>1. Address = (IF index < Page THEN 0 ELSE 1)
    <3>1. Address = index \div Page
      BY <1>4, AddressOfPage DEF WriteFails
    <3>2. index \in 0..2 * Page - 1
      BY <1>4 DEF WriteFails, TransferTypeOK
    <3>3. QED
      BY <3>1, <3>2, FirstPage, SecondPage
  <2>2. QED
    BY <1>4, <2>1 DEF WriteFails, TransferTypeOK, AddressMoves
<1>5. CASE Finish
  BY <1>5 DEF Finish, TransferTypeOK, AddressMoves
<1>6. CASE UNCHANGED transferVars
  BY <1>6 DEF transferVars, TransferTypeOK, AddressMoves
<1>7. QED
  BY <1>1, <1>2, <1>3, <1>4, <1>5, <1>6 DEF TransferNext

\* Every variable keeps its type; in particular the device address moves on once
\* at most (writeFRU).
THEOREM TransferTypeCorrect == TransferSpec => []TransferTypeOK
<1>1. Transfer => TransferTypeOK
  BY DEF Transfer
<1>2. QED
  BY <1>1, TransferBegins, TransferStep, PTL DEF TransferSpec

-----------------------------------------------------------------------------
(* The order of the pages *)

\* One more byte of a FRU that has a cell for every index.
LEMMA OneByteWritten ==
    ASSUME Transfer, WriteByte, kind.bytes = 1
    PROVE  /\ cell' = [cell EXCEPT ![<<index \div Page, index % Page>>] = index]
           /\ <<index \div Page, index % Page>> \in Cells
<1>1. WrittenCells(index) = {<<index \div Page, index % Page>>}
  BY AddressOfPage DEF Transfer, WriteByte, WrittenCells
<1>2. <<index \div Page, index % Page>> \in Cells
  <2>1. index \in 0..MaxFruSize - 1
    BY SizeAssumption DEF Transfer, TransferTypeOK, WriteByte
  <2>2. QED
    BY <2>1, CellOfIndex
<1>3. QED
  BY <1>1, <1>2 DEF Transfer, TransferTypeOK, WriteByte

LEMMA PagesInit == TransferInit => PagesInOrder
<1> SUFFICES ASSUME TransferInit PROVE PagesInOrder
  OBVIOUS
<1>1. \A i \in 0..size - 1 : <<i \div Page, i % Page>> \in Cells /\ ~(i < index)
  <2> TAKE i \in 0..size - 1
  <2>1. i \in 0..MaxFruSize - 1 /\ ~(i < index)
    BY SizeAssumption DEF TransferInit
  <2>2. QED
    BY <2>1, CellOfIndex
<1>2. QED
  BY <1>1 DEF TransferInit, PagesInOrder

LEMMA PagesStep == Transfer /\ PagesInOrder /\ [TransferNext]_transferVars => PagesInOrder'
<1> SUFFICES ASSUME Transfer, PagesInOrder, [TransferNext]_transferVars PROVE PagesInOrder'
  OBVIOUS
<1>1. CASE WriteByte
  <2>0. kind' = kind /\ size' = size /\ index' = index + 1
    BY <1>1 DEF WriteByte
  <2> SUFFICES ASSUME kind.bytes = 1, kind.next, NEW i \in 0..size - 1
               PROVE  cell'[<<i \div Page, i % Page>>] = IF i < index + 1 THEN i ELSE -1
    BY <2>0, Zenon DEF PagesInOrder
  <2>1. i \in 0..MaxFruSize - 1 /\ index \in 0..MaxFruSize - 1
    BY <1>1, SizeAssumption DEF WriteByte, Transfer, TransferTypeOK
  <2>2. cell[<<i \div Page, i % Page>>] = IF i < index THEN i ELSE -1
    BY DEF PagesInOrder
  <2>3. cell \in [Cells -> -1..MaxFruSize]
    BY DEF Transfer, TransferTypeOK
  <2>4. CASE i = index
    <3> DEFINE c == <<index \div Page, index % Page>>
    <3>1. cell' = [cell EXCEPT ![c] = index] /\ c \in Cells
      BY <1>1, OneByteWritten
    <3> HIDE DEF c
    <3>2. cell'[c] = index
      BY <2>3, <3>1
    <3>3. cell'[<<i \div Page, i % Page>>] = index
      BY <2>4, <3>2 DEF c
    <3>4. i < index + 1
      BY <2>1, <2>4
    <3>5. QED
      BY <2>4, <3>3, <3>4
  <2>5. CASE i # index
    <3>1. <<i \div Page, i % Page>> # <<index \div Page, index % Page>>
          /\ <<i \div Page, i % Page>> \in Cells
      BY <2>1, <2>5, CellOfIndex
    <3>2. cell'[<<i \div Page, i % Page>>] = cell[<<i \div Page, i % Page>>]
      BY <1>1, <2>3, <3>1, OneByteWritten
    <3>3. i < index + 1 <=> i < index
      BY <2>1, <2>5
    <3>4. QED
      BY <2>2, <3>2, <3>3
  <2>6. QED
    BY <2>4, <2>5
<1>2. CASE Detect \/ DetectFails \/ WriteFails \/ Finish \/ UNCHANGED transferVars
  <2>1. UNCHANGED <<kind, size, cell, index>>
    BY <1>2 DEF Detect, DetectFails, WriteFails, Finish, transferVars
  <2>2. QED
    BY <2>1 DEF PagesInOrder
<1>3. QED
  BY <1>1, <1>2 DEF TransferNext

\* The bytes of a FRU end up in the order of the cells of a 4K EEPROM, however
\* many tries each of them took (writeFRU).
THEOREM PagesAreInOrder == TransferSpec => []PagesInOrder
BY TransferBegins, TransferStep, PagesInit, PagesStep, PTL DEF TransferSpec

-----------------------------------------------------------------------------
(* The detection *)

\* The bytes that are looked at are more than one exactly if the EEPROM takes two
\* address bytes, where the mode can tell.
LEMMA Offsets ==
    ASSUME TransferTypeOK, ~kind.flat, mode = "MODE_2" \/ kind.advances
    PROVE  IsDevice16Bit = (kind.bytes = 2)
<1>1. Cardinality({0}) = 1
  BY FS_Singleton
<1>2. Cardinality(0..Looked - 1) = Looked /\ Looked > 1
  <2>1. Looked - 1 \in Int /\ Looked - 1 >= 0 /\ Looked > 1
    BY SizeAssumption
  <2>2. Cardinality(0..Looked - 1) = IF 0 > Looked - 1 THEN 0 ELSE (Looked - 1) - 0 + 1
    BY <2>1, FS_Interval
  <2>3. QED
    BY <2>1, <2>2, SizeAssumption
<1>3. QED
  BY <1>1, <1>2 DEF IsDevice16Bit, Mode1Offsets, Mode2Offsets

LEMMA DetectionStep == Transfer /\ DetectionIsRight /\ [TransferNext]_transferVars => DetectionIsRight'
<1> SUFFICES ASSUME Transfer, DetectionIsRight, [TransferNext]_transferVars PROVE DetectionIsRight'
  OBVIOUS
<1>1. CASE Detect
  BY <1>1, Offsets DEF Detect, DetectionIsRight, Transfer
<1>2. CASE DetectFails
  BY <1>2 DEF DetectFails, DetectionIsRight
<1>3. CASE WriteByte
  BY <1>3 DEF WriteByte, DetectionIsRight
<1>4. CASE WriteFails
  BY <1>4 DEF WriteFails, DetectionIsRight
<1>5. CASE Finish
  BY <1>5 DEF Finish, DetectionIsRight
<1>6. CASE UNCHANGED transferVars
  BY <1>6 DEF transferVars, DetectionIsRight
<1>7. QED
  BY <1>1, <1>2, <1>3, <1>4, <1>5, <1>6 DEF TransferNext

\* The detection tells an EEPROM with two address bytes from one with one,
\* whatever the number of bytes looked at, if it is more than one (isDevice16Bit).
THEOREM DetectionTells == TransferSpec => []DetectionIsRight
<1>1. TransferInit => DetectionIsRight
  BY DEF TransferInit, DetectionIsRight
<1>2. QED
  BY <1>1, TransferBegins, TransferStep, DetectionStep, PTL DEF TransferSpec

-----------------------------------------------------------------------------
(* Reading back *)

\* PageReadsBack is not inductive: the bytes written so far are in place, at the
\* first device address, and a FRU is done when all of them are.
FirstPageWritten ==
    /\ status = "done" => index = size
    /\ size <= Page /\ is16Bit = (kind.bytes = 2) =>
         \A i \in 0..index - 1 : cell[<<0, i>>] = i

LEMMA FirstPageStep == Transfer /\ FirstPageWritten /\ [TransferNext]_transferVars => FirstPageWritten'
<1> SUFFICES ASSUME Transfer, FirstPageWritten, [TransferNext]_transferVars PROVE FirstPageWritten'
  OBVIOUS
<1>1. CASE WriteByte
  <2>1. status' # "done"
    BY <1>1 DEF WriteByte
  <2> SUFFICES ASSUME size <= Page, is16Bit = (kind.bytes = 2), NEW i \in 0..index
               PROVE  cell'[<<0, i>>] = i
    BY <1>1, <2>1 DEF WriteByte, FirstPageWritten, Transfer, TransferTypeOK
  <2>2. /\ index \in 0..Page - 1 /\ i \in 0..Page - 1
        /\ index \in 0..MaxFruSize - 1 /\ i \in 0..MaxFruSize - 1
    BY <1>1, SizeAssumption DEF WriteByte, Transfer, TransferTypeOK
  <2>3. WrittenCells(index) = {<<0, index>>}
    <3>1. index \div Page = 0 /\ index % Page = index
      BY <2>2, FirstPage
    <3>2. Address = 0
      BY <1>1, <3>1, AddressOfPage DEF Transfer, WriteByte
    <3>3. QED
      BY <3>1, <3>2 DEF WrittenCells
  <2>4. <<0, i>> \in Cells
    BY <2>2, CellOfIndex
  <2>5. cell'[<<0, i>>] = IF i = index THEN index ELSE cell[<<0, i>>]
    BY <1>1, <2>3, <2>4 DEF WriteByte
  <2>6. i # index => cell[<<0, i>>] = i
    BY <2>2 DEF FirstPageWritten
  <2>7. QED
    BY <2>5, <2>6
<1>2. CASE Detect
  <2>1. index = 0 /\ index' = 0 /\ status' # "done"
    BY <1>2 DEF Detect, Transfer, AddressMoves
  <2>2. 0..index' - 1 = {}
    BY <2>1
  <2>3. QED
    BY <2>1, <2>2 DEF FirstPageWritten
<1>3. CASE DetectFails \/ WriteFails \/ Finish \/ UNCHANGED transferVars
  <2>1. UNCHANGED <<kind, size, cell, is16Bit, index>>
    BY <1>3 DEF DetectFails, WriteFails, Finish, transferVars
  <2>2. status' = "done" => index = size
    BY <1>3 DEF DetectFails, WriteFails, Finish, transferVars, FirstPageWritten
  <2>3. QED
    BY <2>1, <2>2 DEF FirstPageWritten
<1>4. QED
  BY <1>1, <1>2, <1>3 DEF TransferNext

LEMMA FirstPageReads == Transfer /\ FirstPageWritten => PageReadsBack
<1> SUFFICES ASSUME Transfer, FirstPageWritten, status = "done", size <= Page,
                    is16Bit = (kind.bytes = 2), NEW i \in 0..size - 1
             PROVE  ReadData(i) = i
  BY DEF PageReadsBack
<1>1. cell[<<0, i>>] = i /\ i \in 0..Page - 1
  BY SizeAssumption DEF FirstPageWritten, Transfer, TransferTypeOK
<1>2. i % Page = i
  BY <1>1, FirstPage
<1>3. kind.bytes \in {1, 2}
  BY KindsAssumption DEF Transfer, TransferTypeOK
<1>4. QED
  BY <1>1, <1>2, <1>3 DEF ReadData

\* A FRU of at most a page that writeFRU says it has written is what readData
\* reads, whatever tries failed on the way.
THEOREM PageIsReadBack == TransferSpec => []PageReadsBack
<1>1. TransferInit => FirstPageWritten
  BY DEF TransferInit, FirstPageWritten
<1>2. QED
  BY <1>1, TransferBegins, TransferStep, FirstPageStep, FirstPageReads, PTL DEF TransferSpec

-----------------------------------------------------------------------------
(* Reading out of an EEPROM: arithmetic of the blocks *)

LEMMA BlockBegins ==
    ASSUME NEW b \in Nat
    PROVE  b * CacheBlock \in Nat /\ (b + 1) * CacheBlock = b * CacheBlock + CacheBlock
BY BlocksAssumption

LEMMA LaterBlock ==
    ASSUME NEW a \in Nat, NEW b \in Nat, a < b
    PROVE  a * CacheBlock + CacheBlock <= b * CacheBlock
BY BlocksAssumption

LEMMA WhereIn ==
    ASSUME NEW b \in Nat, NEW k \in 0..CacheBlock - 1
    PROVE  (b * CacheBlock + k) \div CacheBlock = b /\ (b * CacheBlock + k) % CacheBlock = k
BY BlocksAssumption

LEMMA Divided ==
    ASSUME NEW c \in Nat
    PROVE  /\ c \div CacheBlock \in Nat /\ c % CacheBlock \in 0..CacheBlock - 1
           /\ c = (c \div CacheBlock) * CacheBlock + (c % CacheBlock)
<1> DEFINE T == {b \in Nat : c < (b + 1) * CacheBlock}
<1>1. CacheBlock \in Nat \ {0}
  BY BlocksAssumption
<1>2. T # {}
  <2>1. c < (c + 1) * CacheBlock
    <3>1. (c + 1) * CacheBlock = c * CacheBlock + CacheBlock
      BY BlockBegins
    <3>2. c <= c * CacheBlock
      BY <1>1
    <3>3. c * CacheBlock \in Nat
      BY BlockBegins
    <3>4. QED
      BY <1>1, <3>1, <3>2, <3>3
  <2>2. c \in T
    BY <2>1
  <2>3. QED
    BY <2>2
<1>3. PICK b \in T : \A x \in T : b <= x
  <2>1. T \in SUBSET Nat
    OBVIOUS
  <2> HIDE DEF T
  <2>2. QED
    BY <1>2, <2>1, LeastNatural
<1>4. b * CacheBlock <= c
  <2>1. CASE b = 0
    BY <1>1, <2>1
  <2>2. CASE b # 0
    <3>1. b - 1 \in Nat /\ b - 1 \notin T
      BY <1>3, <2>2
    <3>2. ~(c < (b - 1 + 1) * CacheBlock)
      BY <3>1
    <3>3. b - 1 + 1 = b /\ b * CacheBlock \in Nat
      BY <1>3, BlockBegins
    <3>4. QED
      BY <3>2, <3>3
  <2>3. QED
    BY <2>1, <2>2
<1> DEFINE k == c - b * CacheBlock
<1>5. b \in Nat /\ b * CacheBlock \in Nat /\ c < b * CacheBlock + CacheBlock
  BY <1>3, BlockBegins
<1>6. k \in 0..CacheBlock - 1 /\ c = b * CacheBlock + k
  BY <1>1, <1>4, <1>5
<1> HIDE DEF k
<1>7. c \div CacheBlock = b /\ c % CacheBlock = k
  BY <1>5, <1>6, WhereIn
<1>8. QED
  BY <1>5, <1>6, <1>7

-----------------------------------------------------------------------------
(* FRUReader::read *)

\* What is cached below the end is what the EEPROM had there, and the end that
\* was seen is not before the EEPROM's.
CacheIsTrue(blocks, end) ==
    /\ end \in 0..Limit /\ eepromSize \in 0..end /\ DOMAIN blocks \subseteq Nat
    /\ \A b \in DOMAIN blocks : DOMAIN blocks[b] = 0..CacheBlock - 1
    /\ \A b \in DOMAIN blocks : \A k \in 0..CacheBlock - 1 :
          b * CacheBlock + k < end => blocks[b][k] = b * CacheBlock + k

\* The bytes from start on, in their order.
Positions(out, start) == out = [k \in 1..Len(out) |-> start + k - 1]

Continues(tail, from) == tail \in Seq(Int) /\ \A k \in 1..Len(tail) : tail[k] = from + k - 1

LEMMA PositionsGrow ==
    ASSUME NEW start \in Nat, NEW out, Len(out) \in Nat, Positions(out, start),
           NEW tail, Continues(tail, start + Len(out))
    PROVE  Len(out \o tail) = Len(out) + Len(tail) /\ Positions(out \o tail, start)
<1>1. PICK N \in Nat : N = Len(out)
  OBVIOUS
<1>2. tail \in Seq(Int) /\ \A k \in 1..Len(tail) : tail[k] = start + N + k - 1
  BY <1>1 DEF Continues
<1>3. PICK n \in Nat : n = Len(tail)
  BY <1>2
<1>4. out = [k \in 1..N |-> start + k - 1]
  BY <1>1 DEF Positions
<1>5. out \in Seq(Int) /\ \A k \in 1..N : out[k] = start + k - 1
  BY <1>4
<1>6. PICK new : new = out \o tail
  OBVIOUS
<1>7. /\ new \in Seq(Int) /\ Len(new) = N + n
      /\ \A i \in 1..N + n : new[i] = IF i <= N THEN out[i] ELSE tail[i - N]
  BY <1>1, <1>5, <1>6, <1>2, <1>3, ConcatProperties
<1>8. ASSUME NEW k \in 1..N + n PROVE new[k] = start + k - 1
  <2>1. new[k] = IF k <= N THEN out[k] ELSE tail[k - N]
    BY <1>7, <1>8
  <2>2. CASE k <= N
    <3>1. k \in 1..N
      BY <1>8, <2>2
    <3>2. out[k] = start + k - 1
      BY <1>5, <3>1
    <3>3. QED
      BY <2>1, <2>2, <3>2
  <2>3. CASE ~(k <= N)
    <3>1. k - N \in 1..n
      BY <1>8, <2>3
    <3>2. tail[k - N] = start + N + (k - N) - 1
      BY <1>2, <1>3, <3>1
    <3>3. start + N + (k - N) - 1 = start + k - 1
      BY <1>8
    <3>4. QED
      BY <2>1, <2>3, <3>2, <3>3
  <2>4. QED
    BY <2>2, <2>3
<1>9. Len(new) = N + n /\ new = [k \in 1..N + n |-> new[k]]
  BY <1>7
<1>10. Positions(new, start)
  BY <1>8, <1>9 DEF Positions
<1>11. QED
  BY <1>1, <1>3, <1>6, <1>9, <1>10

\* How much of a block at the cursor is there.
LEMMA AvailableIs ==
    ASSUME NEW end \in Nat, NEW blk \in Nat, NEW cursor \in Nat,
           cursor \div CacheBlock = blk, cursor < end \/ end \div CacheBlock = blk
    PROVE  /\ Available(end, blk) \in 0..CacheBlock
           /\ blk * CacheBlock + Available(end, blk) = Lesser(end, blk * CacheBlock + CacheBlock)
<1> DEFINE from == cursor % CacheBlock
<1>1. from \in 0..CacheBlock - 1 /\ cursor = blk * CacheBlock + from
  BY Divided
<1>2. /\ end \div CacheBlock \in Nat /\ end % CacheBlock \in 0..CacheBlock - 1
      /\ end = (end \div CacheBlock) * CacheBlock + (end % CacheBlock)
  BY Divided
<1>3. CacheBlock \in Nat /\ blk * CacheBlock \in Nat
  BY BlocksAssumption, BlockBegins
<1>4. CASE end \div CacheBlock = blk
  BY <1>1, <1>2, <1>3, <1>4 DEF Available, Lesser
<1>5. CASE end \div CacheBlock # blk
  <2>1. blk * CacheBlock + from < end
    BY <1>1, <1>5
  <2>2. ~(end \div CacheBlock < blk)
    <3>1. SUFFICES ASSUME end \div CacheBlock < blk PROVE FALSE
      OBVIOUS
    <3> DEFINE e == end \div CacheBlock
    <3>2. e * CacheBlock + CacheBlock <= blk * CacheBlock
      BY <1>2, <3>1, LaterBlock
    <3>3. e * CacheBlock \in Nat
      BY <1>2, BlockBegins
    <3> HIDE DEF e
    <3>4. end = e * CacheBlock + (end % CacheBlock)
      BY <1>2 DEF e
    <3>5. QED
      BY <1>1, <1>2, <1>3, <2>1, <3>2, <3>3, <3>4
  <2>3. blk * CacheBlock + CacheBlock <= (end \div CacheBlock) * CacheBlock
    BY <1>2, <1>5, <2>2, LaterBlock
  <2>4. (end \div CacheBlock) * CacheBlock \in Nat
    BY <1>2, BlockBegins
  <2>5. blk * CacheBlock + CacheBlock <= end
    BY <1>2, <1>3, <2>3, <2>4
  <2>6. Available(end, blk) = CacheBlock
    BY <1>5 DEF Available
  <2>7. QED
    BY <1>1, <1>3, <2>5, <2>6 DEF Lesser
<1>6. QED
  BY <1>1, <1>4, <1>5

\* Copying what is there of a block: the cursor is behind the block, or behind
\* what was asked for, or at the end.
LEMMA CountIs ==
    ASSUME NEW from \in Nat, NEW there \in Nat, NEW left \in Nat, NEW count,
           count = Greater(0, Lesser(there - from, left))
    PROVE  /\ count \in 0..left
           /\ from + count <= there \/ count = 0
           /\ \/ from + count = Lesser(from + left, there)
              \/ from + count >= there
BY DEF Greater, Lesser

CopyHeld(b, from, there, count, start, N, len, end, width) ==
    /\ N + count <= len /\ start + N = b + from /\ from < width
    /\ b + there = Lesser(end, b + width)
    /\ from + count <= there \/ count = 0
    /\ \/ from + count = Lesser(from + (len - N), there)
       \/ from + count >= there
CopyReached(b, count, start, N, len, end, width) ==
    /\ \/ start + (N + count) = Lesser(start + len, b + width)
       \/ start + (N + count) >= end
    /\ N + count = N \/ start + (N + count) <= end
LEMMA CursorIs ==
    ASSUME NEW b \in Nat, NEW from \in Nat, NEW there \in Nat, NEW count \in Nat,
           NEW start \in Nat, NEW N \in Nat, NEW len \in Nat, NEW end \in Nat, NEW width \in Nat,
           CopyHeld(b, from, there, count, start, N, len, end, width)
    PROVE  CopyReached(b, count, start, N, len, end, width)
<1>0. /\ N + count <= len /\ start + N = b + from /\ from < width
      /\ b + there = Lesser(end, b + width)
      /\ from + count <= there \/ count = 0
      /\ \/ from + count = Lesser(from + (len - N), there)
         \/ from + count >= there
  BY DEF CopyHeld
<1>1. /\ b + there <= end /\ b + there <= b + width
      /\ b + there = end \/ b + there = b + width
  BY <1>0 DEF Lesser
<1>2. start + (N + count) = b + (from + count) /\ start + len = b + (from + (len - N))
  BY <1>0
<1>3. N + count = N \/ start + (N + count) <= end
  BY <1>0, <1>1, <1>2
<1>4. CASE from + count >= there
  <2> SUFFICES /\ \/ start + (N + count) = Lesser(start + len, b + width)
                 \/ start + (N + count) >= end
    BY <1>3 DEF CopyReached
  <2>1. CASE b + there = end
    BY <1>0, <1>2, <1>4, <2>1
  <2>2. CASE b + there = b + width
    <3>1. count # 0
      BY <1>0, <1>4, <2>2
    <3>2. from + count = there /\ there = width
      BY <1>0, <1>4, <2>2, <3>1
    <3>3. start + (N + count) = b + width /\ b + width <= start + len
      BY <1>0, <1>2, <3>2
    <3>4. QED
      BY <3>3 DEF Lesser
  <2>3. QED
    BY <1>1, <2>1, <2>2
<1>5. CASE from + count = Lesser(from + (len - N), there)
  BY <1>0, <1>1, <1>2, <1>3, <1>5 DEF Lesser, CopyReached
<1>6. QED
  BY <1>0, <1>4, <1>5

IsCopied(new, s, blocks, end, blk, start, len) ==
    /\ new.cache = blocks /\ new.eof = end /\ new.stop = FALSE /\ new.ret = s.ret
    /\ Len(new.out) \in 0..len /\ Positions(new.out, start)
    /\ \/ start + Len(new.out) = Lesser(start + len, blk * CacheBlock + CacheBlock)
       \/ start + Len(new.out) >= end
    /\ Len(new.out) = Len(s.out) \/ start + Len(new.out) <= end

LEMMA CopiedIs ==
    ASSUME NEW start \in Nat, NEW len \in Nat, NEW s, Len(s.out) \in 0..len,
           Positions(s.out, start),
           NEW blocks, NEW end, CacheIsTrue(blocks, end),
           NEW blk \in DOMAIN blocks, blk \in Nat,
           (start + Len(s.out)) \div CacheBlock = blk,
           start + Len(s.out) < end \/ end \div CacheBlock = blk
    PROVE  IsCopied(Copied(s, blocks, end, blk, start, len), s, blocks, end, blk, start, len)
<1>1. PICK N : N = Len(s.out)
  OBVIOUS
<1>2. PICK from : from = (start + N) % CacheBlock
  OBVIOUS
<1>3. PICK there : there = Available(end, blk)
  OBVIOUS
<1>4. PICK count : count = Greater(0, Lesser(there - from, len - N))
  OBVIOUS
<1>5. PICK tail : tail = [k \in 1..count |-> blocks[blk][from + k - 1]]
  OBVIOUS
<1>6. Copied(s, blocks, end, blk, start, len) = Reader(s.out \o tail, blocks, end, FALSE, s.ret)
  BY <1>1, <1>2, <1>3, <1>4, <1>5 DEF Copied
<1>7. N \in 0..len /\ start + N \in Nat /\ len - N \in Nat
  BY <1>1
<1>8. end \in Nat /\ CacheBlock \in Nat /\ blk * CacheBlock \in Nat
  BY SizesAssumption, BlocksAssumption, BlockBegins DEF CacheIsTrue
<1>9. PICK b \in Nat : b = blk * CacheBlock
  BY <1>8
<1>10. from \in 0..CacheBlock - 1 /\ start + N = b + from
  <2>1. (start + N) \div CacheBlock = blk
    BY <1>1
  <2>2. /\ from \in 0..CacheBlock - 1
        /\ start + N = ((start + N) \div CacheBlock) * CacheBlock + from
    BY <1>2, <1>7, Divided
  <2>3. QED
    BY <1>9, <2>1, <2>2
<1>11. there \in 0..CacheBlock /\ b + there = Lesser(end, b + CacheBlock)
  <2>1. PICK cursor \in Nat : cursor = start + N
    BY <1>7
  <2>2. cursor \div CacheBlock = blk /\ (cursor < end \/ end \div CacheBlock = blk)
    BY <1>1, <2>1
  <2>3. /\ Available(end, blk) \in 0..CacheBlock
        /\ blk * CacheBlock + Available(end, blk) = Lesser(end, blk * CacheBlock + CacheBlock)
    BY <1>8, <2>2, AvailableIs
  <2>4. QED
    BY <1>3, <1>9, <2>3
<1>12. from \in Nat /\ there \in Nat
  BY <1>8, <1>10, <1>11
<1>13. /\ count \in 0..len - N
       /\ from + count <= there \/ count = 0
       /\ \/ from + count = Lesser(from + (len - N), there)
          \/ from + count >= there
  BY <1>4, <1>7, <1>12, CountIs
<1>14. count \in Nat /\ N \in Nat /\ N <= len /\ N + count \in 0..len
  BY <1>7, <1>13
<1>15. ASSUME NEW k \in 1..count PROVE tail[k] = start + N + k - 1
  <2>1. tail[k] = blocks[blk][from + k - 1]
    BY <1>5, <1>15
  <2>2. PICK i \in Nat : i = from + k - 1
    BY <1>12, <1>14, <1>15
  <2>3. i < there
    BY <1>12, <1>13, <1>14, <1>15, <2>2
  <2>4. i \in 0..CacheBlock - 1
    BY <1>8, <1>11, <2>3
  <2>5. b + i < end
    BY <1>8, <1>11, <1>12, <2>3 DEF Lesser
  <2>6. blocks[blk][i] = b + i
    BY <1>9, <2>4, <2>5 DEF CacheIsTrue
  <2>7. b + i = start + N + k - 1
    BY <1>7, <1>10, <1>12, <1>14, <1>15, <2>2
  <2>8. QED
    BY <2>1, <2>2, <2>6, <2>7
<1>16. tail \in Seq(Int) /\ Len(tail) = count
  <2>1. \A k \in 1..count : start + N + k - 1 \in Int
    BY <1>7, <1>14
  <2>2. tail = [k \in 1..count |-> tail[k]]
    BY <1>5
  <2>3. tail = [k \in 1..count |-> start + N + k - 1]
    BY <1>15, <2>2
  <2>4. QED
    BY <1>14, <2>1, <2>3
<1>17. Len(s.out \o tail) = N + count /\ Positions(s.out \o tail, start)
  <2>1. PICK out : out = s.out
    OBVIOUS
  <2>2. Len(out) = N /\ Len(out) \in Nat /\ Positions(out, start)
    BY <1>1, <1>14, <2>1
  <2>3. Continues(tail, start + Len(out))
    BY <1>15, <1>16, <2>2 DEF Continues
  <2>4. Len(out \o tail) = Len(out) + Len(tail) /\ Positions(out \o tail, start)
    BY <2>2, <2>3, PositionsGrow
  <2>5. QED
    BY <1>16, <2>1, <2>2, <2>4
<1>18. /\ \/ start + (N + count) = Lesser(start + len, b + CacheBlock)
          \/ start + (N + count) >= end
       /\ N + count = N \/ start + (N + count) <= end
  <2>1. N + count <= len /\ from < CacheBlock /\ end \in Nat /\ CacheBlock \in Nat
    BY <1>7, <1>8, <1>10, <1>14
  <2>2. start + N = b + from /\ b + there = Lesser(end, b + CacheBlock)
    BY <1>10, <1>11
  <2>3. CopyHeld(b, from, there, count, start, N, len, end, CacheBlock)
    BY <1>13, <2>1, <2>2 DEF CopyHeld
  <2>4. CopyReached(b, count, start, N, len, end, CacheBlock)
    BY <1>9, <1>12, <1>14, <2>1, <2>3, CursorIs
  <2>5. QED
    BY <2>4 DEF CopyReached
<1>19. PICK new : new = Copied(s, blocks, end, blk, start, len)
  OBVIOUS
<1>20. /\ new.out = s.out \o tail /\ new.cache = blocks /\ new.eof = end /\ new.stop = FALSE
       /\ new.ret = s.ret
  BY <1>6, <1>19 DEF Reader
<1>21. Len(new.out) = N + count /\ Positions(new.out, start)
  BY <1>17, <1>20
<1>22. IsCopied(new, s, blocks, end, blk, start, len)
  BY <1>1, <1>9, <1>14, <1>18, <1>20, <1>21 DEF IsCopied
<1>23. QED
  BY <1>19, <1>22

\* A block that was not cached is filled with what the EEPROM has there, and
\* where it is short the end has been seen.
LEMMA BlockIsFilled ==
    ASSUME NEW blocks, NEW end, CacheIsTrue(blocks, end), NEW blk \in Nat,
           NEW cursor \in Nat, cursor \div CacheBlock = blk, cursor < end
    PROVE  LET ret  == ReadFunc(blk)
               seen == EndSeen(end, blk, ret)
           IN  /\ ret \in Nat
               /\ CacheIsTrue(blocks, seen) /\ seen <= end
               /\ ret <= 0 => seen <= cursor
               /\ ~(ret <= 0) => /\ CacheIsTrue(Filled(blocks, blk, ret), seen)
                                 /\ blk \in DOMAIN Filled(blocks, blk, ret)
                                 /\ cursor < seen \/ seen \div CacheBlock = blk
<1>1. PICK ret : ret = ReadFunc(blk)
  OBVIOUS
<1>2. PICK seen : seen = EndSeen(end, blk, ret)
  OBVIOUS
<1>3. PICK at : at = blk * CacheBlock
  OBVIOUS
<1>4. /\ CacheBlock \in Nat /\ CacheBlock >= 3 /\ at \in Nat /\ end \in Nat
      /\ eepromSize \in Nat /\ eepromSize <= end /\ end <= Limit /\ Limit \in Nat
  <2>1. end \in 0..Limit /\ eepromSize \in 0..end
    BY DEF CacheIsTrue
  <2>2. CacheBlock \in Nat /\ CacheBlock >= 3
    BY BlocksAssumption
  <2>3. at \in Nat
    BY <1>3, BlockBegins
  <2>4. QED
    BY <2>1, <2>2, <2>3, SizesAssumption
<1>5. at <= cursor
  <2>1. /\ cursor % CacheBlock \in 0..CacheBlock - 1
        /\ cursor = (cursor \div CacheBlock) * CacheBlock + (cursor % CacheBlock)
    BY Divided
  <2>2. PICK k : k = cursor % CacheBlock
    OBVIOUS
  <2>3. k \in 0..CacheBlock - 1 /\ cursor = at + k
    BY <1>3, <2>1, <2>2
  <2>4. QED
    BY <1>4, <2>3
<1>6. /\ ret \in 0..CacheBlock
      /\ ret < CacheBlock => ret = Greater(0, eepromSize - at)
      /\ ret = CacheBlock => at + CacheBlock <= eepromSize
  BY <1>1, <1>3, <1>4 DEF ReadFunc, Lesser, Greater
<1>7. seen = IF ret < CacheBlock THEN at + ret ELSE end
  BY <1>2, <1>3, <1>4, <1>6 DEF EndSeen
<1>8. seen \in Nat /\ seen <= end /\ eepromSize <= seen
  BY <1>4, <1>5, <1>6, <1>7 DEF Greater
<1>9. CacheIsTrue(blocks, seen)
  <2>1. ASSUME NEW b \in DOMAIN blocks, NEW k \in 0..CacheBlock - 1, b * CacheBlock + k < seen
        PROVE  blocks[b][k] = b * CacheBlock + k
    <3>1. b * CacheBlock + k < end
      <4>1. PICK c : c = b * CacheBlock
        OBVIOUS
      <4>2. c \in Nat
        BY <4>1, BlockBegins DEF CacheIsTrue
      <4>3. QED
        BY <1>4, <1>8, <2>1, <4>1, <4>2
    <3>2. QED
      BY <3>1 DEF CacheIsTrue
  <2>2. QED
    BY <1>4, <1>8, <2>1 DEF CacheIsTrue
<1>10. ret <= 0 => seen <= cursor
  BY <1>4, <1>5, <1>6, <1>7
<1>11. CacheIsTrue(Filled(blocks, blk, ret), seen)
  <2>1. PICK new : new = Filled(blocks, blk, ret)
    OBVIOUS
  <2>2. /\ DOMAIN new = DOMAIN blocks \cup {blk}
        /\ \A b \in DOMAIN blocks : b # blk => new[b] = blocks[b]
        /\ DOMAIN new[blk] = 0..CacheBlock - 1
        /\ \A k \in 0..CacheBlock - 1 : k < ret => new[blk][k] = blk * CacheBlock + k
    BY <2>1 DEF Filled
  <2>3. ASSUME NEW b \in DOMAIN new, NEW k \in 0..CacheBlock - 1, b * CacheBlock + k < seen
        PROVE  new[b][k] = b * CacheBlock + k
    <3>1. CASE b # blk
      BY <1>9, <2>2, <2>3, <3>1 DEF CacheIsTrue
    <3>2. CASE b = blk
      <4>1. at + k < seen
        BY <1>3, <2>3, <3>2
      <4>2. k < ret
        BY <1>4, <1>6, <1>7, <2>3, <4>1
      <4>3. QED
        BY <2>2, <2>3, <3>2, <4>2
    <3>3. QED
      BY <3>1, <3>2
  <2>4. DOMAIN new \subseteq Nat /\ \A b \in DOMAIN new : DOMAIN new[b] = 0..CacheBlock - 1
    BY <2>2 DEF CacheIsTrue
  <2>5. QED
    BY <1>4, <1>8, <2>1, <2>3, <2>4 DEF CacheIsTrue
<1>12. blk \in DOMAIN Filled(blocks, blk, ret)
  BY DEF Filled
<1>13. cursor < seen \/ seen \div CacheBlock = blk
  <2>1. CASE ret < CacheBlock
    <3>1. ret \in 0..CacheBlock - 1 /\ seen = blk * CacheBlock + ret
      BY <1>3, <1>4, <1>6, <1>7, <2>1
    <3>2. QED
      BY <3>1, WhereIn
  <2>2. CASE ~(ret < CacheBlock)
    BY <1>7, <2>2
  <2>3. QED
    BY <2>1, <2>2
<1>14. ret \in Nat
  BY <1>4, <1>6
<1>15. QED
  BY <1>1, <1>2, <1>8, <1>9, <1>10, <1>11, <1>12, <1>13, <1>14

-----------------------------------------------------------------------------
(* The turns of the reader's loop *)

Reached(start, len, n) ==
    IF n = 0 THEN start ELSE Lesser(start + len, (start \div CacheBlock + n) * CacheBlock)

\* After n turns: what was read is in place, and the cursor is as far as the
\* blocks go, or at the end that was seen.  Only a failing access stops it early.
Turned(s, n, start, len, fails) ==
    /\ CacheIsTrue(s.cache, s.eof)
    /\ Len(s.out) \in 0..len /\ Positions(s.out, start)
    /\ Len(s.out) = 0 \/ start + Len(s.out) <= Limit
    /\ s.stop \/ start + Len(s.out) = Reached(start, len, n) \/ start + Len(s.out) >= s.eof
    /\ ~fails => s.ret \in Nat /\ (s.stop => start + Len(s.out) >= s.eof)

\* The block of the n-th turn is where the turns before have left the cursor.
LEMMA NextBlock ==
    ASSUME NEW start \in Nat, NEW len \in Nat, len > 0, NEW n \in 1..Blocks(start, len)
    PROVE  /\ start \div CacheBlock + n - 1 \in Nat
           /\ Reached(start, len, n - 1) \div CacheBlock = start \div CacheBlock + n - 1
<1>1. PICK first : first = start \div CacheBlock
  OBVIOUS
<1>2. PICK last : last = (start + len - 1) \div CacheBlock
  OBVIOUS
<1>3. first \in Nat
  BY <1>1, Divided
<1>4. start + len - 1 \in Nat
  OBVIOUS
<1>5. /\ last \in Nat /\ (start + len - 1) % CacheBlock \in Nat
      /\ start + len - 1 = last * CacheBlock + ((start + len - 1) % CacheBlock)
  BY <1>2, <1>4, Divided
<1>6. n \in Nat /\ 1 <= n /\ n <= last - first + 1
  BY <1>1, <1>2, <1>3, <1>5 DEF Blocks
<1>7. CASE n = 1
  <2>1. Reached(start, len, n - 1) = start
    BY <1>7 DEF Reached
  <2>2. QED
    BY <1>1, <1>3, <1>7, <2>1
<1>8. CASE n # 1
  <2>1. PICK blk \in Nat : blk = first + n - 1
    BY <1>3, <1>6
  <2>2. blk <= last /\ first + (n - 1) = blk /\ n - 1 # 0
    BY <1>3, <1>5, <1>6, <1>8, <2>1
  <2>3. blk * CacheBlock \in Nat /\ last * CacheBlock \in Nat
    BY <1>5, BlockBegins
  <2>4. blk * CacheBlock <= last * CacheBlock
    <3>1. CASE blk = last
      BY <2>3, <3>1
    <3>2. CASE blk # last
      <4>1. blk < last
        BY <1>5, <2>1, <2>2, <3>2
      <4>2. blk * CacheBlock + CacheBlock <= last * CacheBlock
        BY <1>5, <4>1, LaterBlock
      <4>3. QED
        BY <2>3, <4>2, BlocksAssumption
    <3>3. QED
      BY <3>1, <3>2
  <2>5. blk * CacheBlock < start + len
    <3>1. PICK b, l, k : /\ b = blk * CacheBlock /\ l = last * CacheBlock
                         /\ k = (start + len - 1) % CacheBlock
      OBVIOUS
    <3>2. /\ b \in Nat /\ l \in Nat /\ k \in Nat /\ b <= l
          /\ start + len - 1 = l + k
      BY <1>5, <2>3, <2>4, <3>1
    <3>3. b < start + len
      BY <3>2
    <3>4. QED
      BY <3>1, <3>3
  <2>6. Reached(start, len, n - 1) = Lesser(start + len, blk * CacheBlock)
    BY <1>1, <2>2 DEF Reached
  <2>7. Lesser(start + len, blk * CacheBlock) = blk * CacheBlock
    BY <2>3, <2>5 DEF Lesser
  <2>8. (blk * CacheBlock + 0) \div CacheBlock = blk
    BY BlocksAssumption, WhereIn
  <2>9. blk * CacheBlock + 0 = blk * CacheBlock
    BY <2>3
  <2>10. QED
    BY <1>1, <2>1, <2>6, <2>7, <2>8, <2>9
<1>9. QED
  BY <1>7, <1>8

\* After the last turn the cursor is behind what was asked for.
LEMMA LastBlock ==
    ASSUME NEW start \in Nat, NEW len \in Nat, len > 0
    PROVE  /\ Blocks(start, len) \in Nat /\ Blocks(start, len) > 0
           /\ Reached(start, len, Blocks(start, len)) = start + len
<1>1. PICK first : first = start \div CacheBlock
  OBVIOUS
<1>2. PICK last : last = (start + len - 1) \div CacheBlock
  OBVIOUS
<1>3. PICK f : f = start % CacheBlock
  OBVIOUS
<1>4. PICK k : k = (start + len - 1) % CacheBlock
  OBVIOUS
<1>5. /\ CacheBlock \in Nat /\ first \in Nat /\ f \in 0..CacheBlock - 1
      /\ start = first * CacheBlock + f
  BY <1>1, <1>3, Divided, BlocksAssumption
<1>6. start + len - 1 \in Nat
  OBVIOUS
<1>7. /\ last \in Nat /\ k \in 0..CacheBlock - 1
      /\ start + len - 1 = last * CacheBlock + k
  BY <1>2, <1>4, <1>6, Divided
<1>8. PICK a, b : a = first * CacheBlock /\ b = last * CacheBlock
  OBVIOUS
<1>9. a \in Nat /\ b \in Nat /\ (last + 1) * CacheBlock = b + CacheBlock
  BY <1>5, <1>7, <1>8, BlockBegins
<1>10. start = a + f /\ start + len - 1 = b + k
  BY <1>5, <1>7, <1>8
<1>11. ~(last < first)
  <2>1. SUFFICES ASSUME last < first PROVE FALSE
    OBVIOUS
  <2>2. b + CacheBlock <= a
    BY <1>5, <1>7, <1>8, <2>1, LaterBlock
  <2>3. QED
    BY <1>5, <1>7, <1>9, <1>10, <2>2
<1>12. Blocks(start, len) = last - first + 1
  BY <1>1, <1>2 DEF Blocks
<1>13. start + len <= b + CacheBlock
  BY <1>5, <1>7, <1>9, <1>10
<1>14. Blocks(start, len) \in Nat /\ Blocks(start, len) > 0 /\ first + Blocks(start, len) = last + 1
  BY <1>5, <1>7, <1>11, <1>12
<1>15. Reached(start, len, Blocks(start, len)) = Lesser(start + len, b + CacheBlock)
  BY <1>1, <1>9, <1>14 DEF Reached
<1>16. QED
  BY <1>5, <1>9, <1>13, <1>14, <1>15 DEF Lesser

LEMMA CopyIsATurn ==
    ASSUME NEW start \in Nat, NEW len \in Nat, len > 0, NEW fails, NEW n \in 1..Blocks(start, len),
           NEW s, Turned(s, n - 1, start, len, fails),
           NEW blocks, NEW end, CacheIsTrue(blocks, end),
           NEW blk \in DOMAIN blocks, blk = start \div CacheBlock + n - 1,
           (start + Len(s.out)) \div CacheBlock = blk,
           start + Len(s.out) < end \/ end \div CacheBlock = blk
    PROVE  Turned(Copied(s, blocks, end, blk, start, len), n, start, len, fails)
<1>1. PICK new : new = Copied(s, blocks, end, blk, start, len)
  OBVIOUS
<1>2. PICK first : first = start \div CacheBlock
  OBVIOUS
<1>3. /\ Len(s.out) \in 0..len /\ Positions(s.out, start) /\ (~fails => s.ret \in Nat)
      /\ Len(s.out) = 0 \/ start + Len(s.out) <= Limit
  BY DEF Turned
<1>4. blk \in Nat /\ first \in Nat
  BY <1>2, NextBlock, Divided
<1>5. /\ new.cache = blocks /\ new.eof = end /\ new.stop = FALSE /\ new.ret = s.ret
      /\ Len(new.out) \in 0..len /\ Positions(new.out, start)
      /\ Len(new.out) = Len(s.out) \/ start + Len(new.out) <= end
      /\ \/ start + Len(new.out) = Lesser(start + len, blk * CacheBlock + CacheBlock)
         \/ start + Len(new.out) >= end
  <2>1. IsCopied(Copied(s, blocks, end, blk, start, len), s, blocks, end, blk, start, len)
    BY <1>3, <1>4, CopiedIs
  <2>2. QED
    BY <1>1, <2>1 DEF IsCopied
<1>6. Reached(start, len, n) = Lesser(start + len, blk * CacheBlock + CacheBlock)
  <2>1. n # 0 /\ first + n = blk + 1
    BY <1>2, <1>4
  <2>2. (blk + 1) * CacheBlock = blk * CacheBlock + CacheBlock
    BY <1>4, BlockBegins
  <2>3. QED
    BY <1>2, <2>1, <2>2 DEF Reached
<1>7. Len(new.out) = 0 \/ start + Len(new.out) <= Limit
  <2>1. end \in 0..Limit
    BY DEF CacheIsTrue
  <2>2. QED
    BY <1>3, <1>5, <2>1, SizesAssumption
<1>8. QED
  BY <1>1, <1>3, <1>5, <1>6, <1>7 DEF Turned

LEMMA ReadBlockTurns ==
    ASSUME NEW start \in Nat, NEW len \in Nat, len > 0, NEW fails, NEW n \in 1..Blocks(start, len),
           NEW s, Turned(s, n - 1, start, len, fails)
    PROVE  Turned(ReadBlock(s, start \div CacheBlock + n - 1, start, len, fails), n, start, len, fails)
<1>1. PICK blk : blk = start \div CacheBlock + n - 1
  OBVIOUS
<1>2. PICK cursor : cursor = start + Len(s.out)
  OBVIOUS
<1>3. PICK ret : ret = IF fails THEN -1 ELSE ReadFunc(blk)
  OBVIOUS
<1>4. PICK end : end = EndSeen(s.eof, blk, ret)
  OBVIOUS
<1>5. PICK new : new = ReadBlock(s, blk, start, len, fails)
  OBVIOUS
<1>6. new = IF s.stop \/ cursor >= s.eof
            THEN Reader(s.out, s.cache, s.eof, TRUE, s.ret)
            ELSE IF blk \in DOMAIN s.cache THEN Copied(s, s.cache, s.eof, blk, start, len)
            ELSE IF ret <= 0 THEN Reader(s.out, s.cache, end, TRUE, ret)
            ELSE Copied(s, Filled(s.cache, blk, ret), end, blk, start, len)
  BY <1>2, <1>3, <1>4, <1>5 DEF ReadBlock
<1>7. /\ CacheIsTrue(s.cache, s.eof)
      /\ Len(s.out) \in 0..len /\ Positions(s.out, start)
      /\ Len(s.out) = 0 \/ start + Len(s.out) <= Limit
      /\ s.stop \/ cursor = Reached(start, len, n - 1) \/ cursor >= s.eof
      /\ ~fails => s.ret \in Nat /\ (s.stop => cursor >= s.eof)
  BY <1>2 DEF Turned
<1>8. cursor \in Nat /\ s.eof \in Nat
  BY <1>2, <1>7 DEF CacheIsTrue
<1>9. CASE s.stop \/ cursor >= s.eof
  <2>1. /\ new.out = s.out /\ new.cache = s.cache /\ new.eof = s.eof /\ new.stop = TRUE
        /\ new.ret = s.ret
    BY <1>6, <1>9 DEF Reader
  <2>2. QED
    BY <1>1, <1>2, <1>5, <1>7, <1>9, <2>1 DEF Turned
<1>10. CASE ~(s.stop \/ cursor >= s.eof)
  <2>1. cursor < s.eof /\ cursor = Reached(start, len, n - 1)
    BY <1>7, <1>8, <1>10
  <2>2. blk \in Nat /\ cursor \div CacheBlock = blk
    BY <1>1, <2>1, NextBlock
  <2>3. CASE blk \in DOMAIN s.cache
    BY <1>1, <1>2, <1>5, <1>6, <1>7, <1>10, <2>1, <2>2, <2>3, CopyIsATurn
  <2>4. CASE blk \notin DOMAIN s.cache /\ fails
    <3>1. ret = -1 /\ ret <= 0 /\ end = s.eof
      BY <1>3, <1>4, <2>4 DEF EndSeen
    <3>2. /\ new.out = s.out /\ new.cache = s.cache /\ new.eof = s.eof /\ new.stop = TRUE
      BY <1>6, <1>10, <2>4, <3>1 DEF Reader
    <3>3. QED
      BY <1>1, <1>5, <1>7, <2>4, <3>2 DEF Turned
  <2>5. CASE blk \notin DOMAIN s.cache /\ ~fails
    <3>1. ret = ReadFunc(blk)
      BY <1>3, <2>5
    <3>2. /\ ret \in Nat
          /\ CacheIsTrue(s.cache, end)
          /\ ret <= 0 => end <= cursor
          /\ ~(ret <= 0) => /\ CacheIsTrue(Filled(s.cache, blk, ret), end)
                            /\ blk \in DOMAIN Filled(s.cache, blk, ret)
                            /\ cursor < end \/ end \div CacheBlock = blk
      BY <1>4, <1>7, <1>8, <2>1, <2>2, <3>1, BlockIsFilled
    <3>3. CASE ret <= 0
      <4>1. /\ new.out = s.out /\ new.cache = s.cache /\ new.eof = end /\ new.stop = TRUE
            /\ new.ret = ret
        BY <1>6, <1>10, <2>5, <3>3 DEF Reader
      <4>2. cursor >= end
        BY <1>8, <3>2, <3>3 DEF CacheIsTrue
      <4>3. QED
        BY <1>1, <1>2, <1>5, <1>7, <3>2, <4>1, <4>2 DEF Turned
    <3>4. CASE ~(ret <= 0)
      <4>1. PICK blocks : blocks = Filled(s.cache, blk, ret)
        OBVIOUS
      <4>2. new = Copied(s, blocks, end, blk, start, len)
        BY <1>6, <1>10, <2>5, <3>4, <4>1
      <4>3. CacheIsTrue(blocks, end) /\ blk \in DOMAIN blocks
        BY <3>2, <3>4, <4>1
      <4>4. start + Len(s.out) < end \/ end \div CacheBlock = blk
        BY <1>2, <3>2, <3>4
      <4>5. (start + Len(s.out)) \div CacheBlock = blk
        BY <1>2, <2>2
      <4>6. Turned(Copied(s, blocks, end, blk, start, len), n, start, len, fails)
        BY <1>1, <4>3, <4>4, <4>5, CopyIsATurn
      <4>7. QED
        BY <1>1, <1>5, <4>2, <4>6
    <3>5. QED
      BY <3>3, <3>4
  <2>6. QED
    BY <2>3, <2>4, <2>5
<1>11. QED
  BY <1>9, <1>10

\* The loop is its turns.
Turns(f, start, len, fails) ==
    /\ f[0] = Reader(<<>>, cache, eof, FALSE, 0)
    /\ \A n \in 1..Blocks(start, len) :
          f[n] = ReadBlock(f[n - 1], start \div CacheBlock + n - 1, start, len, fails)

LEMMA ReadIs ==
    ASSUME NEW start \in Nat, NEW len \in Nat, len > 0, NEW fails
    PROVE  \E f : Read(start, len, fails) = f[Blocks(start, len)] /\ Turns(f, start, len, fails)
<1> DEFINE N == Blocks(start, len)
           Is(f, m) == f = [n \in 0..m |-> IF n = 0 THEN Reader(<<>>, cache, eof, FALSE, 0)
                ELSE ReadBlock(f[n - 1], start \div CacheBlock + n - 1, start, len, fails)]
           T == {m \in 0..N : \E f : Is(f, m)}
<1>0. N \in Nat
  BY LastBlock
<1> HIDE DEF N
<1>1. 0 \in T
  <2>1. 0 \in 0..N /\ Is([n \in 0..0 |-> Reader(<<>>, cache, eof, FALSE, 0)], 0)
    BY <1>0
  <2> HIDE DEF Is
  <2>2. QED
    BY <2>1
<1>2. ASSUME NEW m \in 0..N - 1, m \in T PROVE m + 1 \in T
  <2>1. PICK f : Is(f, m)
    BY <1>2
  <2> DEFINE g == [n \in 0..m + 1 |-> IF n = m + 1
                THEN ReadBlock(f[m], start \div CacheBlock + (m + 1) - 1, start, len, fails)
                ELSE f[n]]
  <2>2. m + 1 \in 0..N /\ Is(g, m + 1)
    BY <1>0, <2>1
  <2> HIDE DEF g, Is
  <2>3. QED
    BY <2>2
<1>3. \E f : Is(f, N)
  <2>1. N \in 0..N
    BY <1>0
  <2> HIDE DEF T
  <2>2. N \in T
    BY <1>0, <1>1, <1>2, <2>1, UpTo
  <2> USE DEF T
  <2>3. QED
    BY <2>2
<1>4. Read(start, len, fails) = (CHOOSE f : Is(f, N))[N]
  BY DEF Read, N
<1>5. PICK f : Is(f, N) /\ f = CHOOSE h : Is(h, N)
  <2> HIDE DEF Is
  <2>1. QED
    BY <1>3
<1>6. f[N] = Read(start, len, fails)
  <2> HIDE DEF Is
  <2>1. QED
    BY <1>4, <1>5
<1>7. Turns(f, start, len, fails)
  <2>1. Is(f, N)
    <3> HIDE DEF Is
    <3>1. QED
      BY <1>5
  <2>2. \A n \in 0..N : f[n] = IF n = 0 THEN Reader(<<>>, cache, eof, FALSE, 0)
                ELSE ReadBlock(f[n - 1], start \div CacheBlock + n - 1, start, len, fails)
    BY <2>1
  <2> HIDE DEF Is
  <2>3. f[0] = Reader(<<>>, cache, eof, FALSE, 0)
    <3>1. 0 \in 0..N
      BY <1>0
    <3>2. QED
      BY <2>2, <3>1, Zenon
  <2>4. ASSUME NEW n \in 1..N
        PROVE  f[n] = ReadBlock(f[n - 1], start \div CacheBlock + n - 1, start, len, fails)
    <3>1. n \in 0..N /\ n # 0
      BY <1>0, <2>4
    <3>2. QED
      BY <2>2, <3>1
  <2>5. QED
    BY <2>3, <2>4 DEF Turns, N
<1>8. QED
  BY <1>6, <1>7 DEF N

\* Whatever is read is what the EEPROM has there, and all of it is read if it
\* is there and no access fails.
LEMMA ReadReads ==
    ASSUME NEW start \in Nat, NEW len \in Nat, len > 0, NEW fails, CacheIsTrue(cache, eof)
    PROVE  LET r == Read(start, len, fails)
           IN  /\ CacheIsTrue(r.cache, r.eof)
               /\ Len(r.out) \in 0..len /\ Positions(r.out, start)
               /\ Len(r.out) = 0 \/ start + Len(r.out) <= Limit
               /\ ~fails => r.ret \in Nat
               /\ ~fails /\ start + len <= eepromSize => Len(r.out) = len
<1>1. PICK f : Read(start, len, fails) = f[Blocks(start, len)] /\ Turns(f, start, len, fails)
  BY ReadIs
<1>2. PICK N \in Nat : N = Blocks(start, len)
  BY LastBlock
<1>3. Reached(start, len, N) = start + len
  BY <1>2, LastBlock
<1> DEFINE T == {m \in 0..N : Turned(f[m], m, start, len, fails)}
<1>4. 0 \in T
  <2>1. PICK s : s = f[0]
    OBVIOUS
  <2>2. /\ s.out = <<>> /\ s.cache = cache /\ s.eof = eof /\ s.stop = FALSE /\ s.ret = 0
    BY <1>1, <2>1 DEF Turns, Reader
  <2>3. Len(s.out) = 0 /\ Positions(s.out, start) /\ Reached(start, len, 0) = start
    BY <2>2 DEF Positions, Reached
  <2>4. Turned(s, 0, start, len, fails)
    BY <2>2, <2>3 DEF Turned
  <2>5. QED
    BY <1>2, <2>1, <2>4
<1>5. ASSUME NEW m \in 0..N - 1, m \in T PROVE m + 1 \in T
  <2>1. PICK n : n = m + 1
    OBVIOUS
  <2>2. n \in 1..Blocks(start, len) /\ n - 1 = m
    BY <1>2, <1>5, <2>1
  <2>3. PICK s : s = f[n - 1]
    OBVIOUS
  <2>4. Turned(s, n - 1, start, len, fails)
    BY <1>5, <2>2, <2>3
  <2>5. f[n] = ReadBlock(s, start \div CacheBlock + n - 1, start, len, fails)
    BY <1>1, <2>2, <2>3 DEF Turns
  <2>6. Turned(f[n], n, start, len, fails)
    BY <2>2, <2>4, <2>5, ReadBlockTurns
  <2>7. n \in 0..N
    BY <1>2, <2>2
  <2>8. QED
    BY <2>1, <2>6, <2>7
<1>6. N \in T
  <2>1. N \in 0..N
    BY <1>2
  <2> HIDE DEF T
  <2>2. QED
    BY <1>2, <1>4, <1>5, <2>1, UpTo
<1>7. PICK r : r = Read(start, len, fails)
  OBVIOUS
<1>8. Turned(r, N, start, len, fails)
  BY <1>1, <1>2, <1>6, <1>7
<1>9. ASSUME ~fails, start + len <= eepromSize PROVE Len(r.out) = len
  <2>1. /\ r.eof \in Nat /\ eepromSize \in Nat /\ eepromSize <= r.eof /\ Len(r.out) \in 0..len
    BY <1>8 DEF Turned, CacheIsTrue
  <2>2. start + Len(r.out) = start + len \/ start + Len(r.out) >= r.eof
    BY <1>3, <1>8, <1>9 DEF Turned
  <2>3. QED
    BY <1>9, <2>1, <2>2
<1>10. QED
  BY <1>7, <1>8, <1>9 DEF Turned

-----------------------------------------------------------------------------
(* What the image says of its FRU *)

LEMMA SameImage ==
    ASSUME image' = image
    PROVE  RecordsEnd' = RecordsEnd
BY DEF RecordsEnd, IsLast, RecordEnd, Byte, HeaderBase

LEMMA BytesAre ==
    ASSUME image \in Images, NEW pos \in 0..2 * Limit
    PROVE  Byte(pos) = image[pos] /\ Byte(pos) \in Nat /\ Byte(pos) * FruBlock \in 0..Limit
<1>1. pos # -1
  BY SizesAssumption
<1>2. image[pos] \in Nat /\ image[pos] * FruBlock <= Limit
  BY ImagesAssumption
<1>3. image[pos] * FruBlock \in Nat
  BY <1>2, BlocksAssumption
<1>4. QED
  BY <1>1, <1>2, <1>3, SizesAssumption DEF Byte

LEMMA HeaderIs ==
    ASSUME image \in Images
    PROVE  /\ HeaderBase \in Nat /\ HeaderBase + 3 <= Limit
           /\ \A a \in 0..FruBlock : HeaderBase + a \in 0..2 * Limit
           /\ \A from \in 0..Limit : \A k \in 0..2 : HeaderBase + from + k \in 0..2 * Limit
BY SizesAssumption, BlocksAssumption, ImagesAssumption DEF HeaderBase

LEMMA RecordIs ==
    ASSUME image \in Images, NEW from \in 0..Limit
    PROVE  /\ RecordEnd(from) \in Nat /\ RecordEnd(from) >= from + 3
           /\ ~IsLast(from) => RecordEnd(from) \in 0..Limit
<1>1. HeaderBase + from + 2 \in 0..2 * Limit
  BY HeaderIs
<1>2. Byte(HeaderBase + from + 2) \in Nat
  BY <1>1, BytesAre
<1>3. RecordEnd(from) \in Nat /\ RecordEnd(from) >= from + 3
  BY <1>2, BlocksAssumption DEF RecordEnd
<1>4. ~IsLast(from) => RecordEnd(from) < Limit - 1
  BY <1>3, SizesAssumption DEF IsLast
<1>5. QED
  BY <1>3, <1>4, SizesAssumption

\* The records' end is found by going from one to the next.
LEMMA RecordsEndIs ==
    ASSUME image \in Images, NEW from \in 0..Limit
    PROVE  RecordsEnd[from] = IF IsLast(from) THEN RecordEnd(from) ELSE RecordsEnd[RecordEnd(from)]
<1> DEFINE Is(f, m) == f = [x \in Limit - m..Limit |->
                                IF IsLast(x) THEN RecordEnd(x) ELSE f[RecordEnd(x)]]
           T == {m \in 0..Limit : \E f : Is(f, m)}
<1>0. Limit \in Nat
  BY SizesAssumption
<1>1. 0 \in T
  <2> DEFINE last == [x \in Limit - 0..Limit |-> RecordEnd(x)]
  <2>1. ASSUME NEW x \in Limit - 0..Limit PROVE IsLast(x)
    <3>1. x = Limit /\ x \in 0..Limit
      BY <1>0, <2>1
    <3>2. RecordEnd(x) \in Nat /\ RecordEnd(x) >= x + 3
      BY <3>1, RecordIs
    <3>3. QED
      BY <1>0, <3>1, <3>2 DEF IsLast
  <2>2. Is(last, 0)
    BY <2>1
  <2>3. 0 \in 0..Limit
    BY <1>0
  <2> HIDE DEF last, Is
  <2>4. QED
    BY <2>2, <2>3
<1>2. ASSUME NEW m \in 0..Limit - 1, m \in T PROVE m + 1 \in T
  <2>1. PICK f : Is(f, m)
    BY <1>2
  <2>2. PICK y : y = Limit - (m + 1)
    OBVIOUS
  <2>3. /\ y \in 0..Limit /\ m + 1 \in 0..Limit
        /\ \A x \in y..Limit : x # y => x \in Limit - m..Limit
        /\ \A x \in Limit - m..Limit : x \in y..Limit /\ x # y /\ x \in 0..Limit
    BY <1>0, <1>2, <2>2
  <2>4. \A x \in Limit - m..Limit :
            f[x] = IF IsLast(x) THEN RecordEnd(x) ELSE f[RecordEnd(x)]
    BY <2>1
  <2> HIDE DEF Is
  <2> DEFINE g == [x \in y..Limit |->
                      IF x = y THEN IF IsLast(y) THEN RecordEnd(y) ELSE f[RecordEnd(y)]
                      ELSE f[x]]
  <2>5. ASSUME NEW x \in y..Limit, ~IsLast(x) PROVE RecordEnd(x) \in Limit - m..Limit
    <3>1. x \in 0..Limit /\ y \in Nat /\ y <= x
      BY <1>0, <2>3, <2>5
    <3>2. RecordEnd(x) \in 0..Limit /\ RecordEnd(x) >= x + 3
      BY <2>5, <3>1, RecordIs
    <3>3. QED
      BY <1>0, <1>2, <2>2, <3>1, <3>2
  <2>6. ASSUME NEW x \in Limit - m..Limit PROVE g[x] = f[x]
    BY <2>3, <2>6
  <2>7. ASSUME NEW x \in y..Limit
        PROVE  g[x] = IF IsLast(x) THEN RecordEnd(x) ELSE g[RecordEnd(x)]
    <3>1. ~IsLast(x) => g[RecordEnd(x)] = f[RecordEnd(x)]
      BY <2>5, <2>6, <2>7
    <3>2. CASE x = y
      BY <2>7, <3>1, <3>2
    <3>3. CASE x # y
      <4>1. x \in Limit - m..Limit
        BY <2>3, <2>7, <3>3
      <4>2. g[x] = f[x]
        BY <2>6, <4>1
      <4>3. f[x] = IF IsLast(x) THEN RecordEnd(x) ELSE f[RecordEnd(x)]
        BY <2>4, <4>1
      <4> HIDE DEF g
      <4>4. QED
        BY <3>1, <4>2, <4>3
    <3>4. QED
      BY <3>2, <3>3
  <2>8. g = [x \in y..Limit |-> g[x]]
    OBVIOUS
  <2> HIDE DEF g
  <2>9. g = [x \in y..Limit |-> IF IsLast(x) THEN RecordEnd(x) ELSE g[RecordEnd(x)]]
    BY <2>7, <2>8
  <2>10. Is(g, m + 1)
    BY <2>2, <2>9 DEF Is
  <2>11. QED
    BY <2>3, <2>10
<1>3. \E f : Is(f, Limit)
  <2>1. Limit \in 0..Limit
    BY <1>0
  <2> HIDE DEF T
  <2>2. Limit \in T
    BY <1>0, <1>1, <1>2, <2>1, UpTo
  <2> USE DEF T
  <2>3. QED
    BY <2>2
<1>4. \E f : f = [x \in 0..Limit |-> IF IsLast(x) THEN RecordEnd(x) ELSE f[RecordEnd(x)]]
  <2>1. Limit - Limit = 0
    BY <1>0
  <2>2. QED
    BY <1>3, <2>1
<1>5. RecordsEnd = [x \in 0..Limit |->
                       IF IsLast(x) THEN RecordEnd(x) ELSE RecordsEnd[RecordEnd(x)]]
  BY <1>4 DEF RecordsEnd
<1>6. QED
  BY <1>5

LEMMA RecordsGrow ==
    ASSUME image \in Images, NEW from \in 0..Limit
    PROVE  RecordsEnd[from] \in Nat /\ RecordsEnd[from] >= RecordEnd(from)
<1> DEFINE Grows(x) == RecordsEnd[x] \in Nat /\ RecordsEnd[x] >= RecordEnd(x)
           T == {m \in 0..Limit : \A x \in Limit - m..Limit : Grows(x)}
<1>0. Limit \in Nat
  BY SizesAssumption
<1>1. ASSUME NEW x \in 0..Limit, IsLast(x) PROVE Grows(x)
  <2>1. RecordsEnd[x] = RecordEnd(x) /\ RecordEnd(x) \in Nat
    BY <1>1, RecordsEndIs, RecordIs
  <2>2. QED
    BY <2>1
<1>2. ASSUME NEW x \in 0..Limit, ~IsLast(x), Grows(RecordEnd(x)) PROVE Grows(x)
  <2>1. RecordsEnd[x] = RecordsEnd[RecordEnd(x)]
    BY <1>2, RecordsEndIs
  <2>2. RecordEnd(x) \in 0..Limit
    BY <1>2, RecordIs
  <2>3. PICK y \in 0..Limit : y = RecordEnd(x)
    BY <2>2
  <2>4. RecordEnd(y) \in Nat /\ RecordEnd(y) >= y + 3
    BY RecordIs
  <2>5. RecordsEnd[y] \in Nat /\ RecordsEnd[y] >= RecordEnd(y)
    BY <1>2, <2>3
  <2>6. RecordsEnd[x] \in Nat /\ RecordsEnd[x] >= y
    BY <2>1, <2>3, <2>4, <2>5
  <2>7. QED
    BY <2>3, <2>6
<1> HIDE DEF Grows
<1>3. ASSUME NEW x \in 0..Limit, x = Limit PROVE IsLast(x)
  <2>1. RecordEnd(x) \in Nat /\ RecordEnd(x) >= x + 3
    BY RecordIs
  <2>2. QED
    BY <1>0, <1>3, <2>1 DEF IsLast
<1>4. 0 \in T
  <2>1. ASSUME NEW x \in Limit - 0..Limit PROVE Grows(x)
    <3>1. x = Limit /\ x \in 0..Limit
      BY <1>0, <2>1
    <3>2. QED
      BY <1>1, <1>3, <3>1
  <2>2. 0 \in 0..Limit
    BY <1>0
  <2>3. QED
    BY <2>1, <2>2
<1>5. ASSUME NEW m \in 0..Limit - 1, m \in T PROVE m + 1 \in T
  <2>1. m + 1 \in 0..Limit
    BY <1>0, <1>5
  <2>2. \A x \in Limit - m..Limit : Grows(x)
    BY <1>5
  <2>3. ASSUME NEW x \in Limit - (m + 1)..Limit PROVE Grows(x)
    <3>1. x \in 0..Limit
      BY <1>0, <1>5, <2>3
    <3>2. CASE IsLast(x)
      BY <1>1, <3>1, <3>2
    <3>3. CASE ~IsLast(x)
      <4>1. RecordEnd(x) \in 0..Limit /\ RecordEnd(x) >= x + 3
        BY <3>1, <3>3, RecordIs
      <4>2. RecordEnd(x) \in Limit - m..Limit
        BY <1>0, <1>5, <2>3, <3>1, <4>1
      <4>3. QED
        BY <1>2, <2>2, <3>1, <3>3, <4>2
    <3>4. QED
      BY <3>2, <3>3
  <2>4. QED
    BY <2>1, <2>3
<1>6. from \in Limit - Limit..Limit
  BY <1>0
<1>7. Limit \in T
  <2>1. Limit \in 0..Limit
    BY <1>0
  <2> HIDE DEF T
  <2>2. QED
    BY <1>0, <1>4, <1>5, <2>1, UpTo
<1>8. Grows(from)
  BY <1>6, <1>7
<1>9. QED
  BY <1>8 DEF Grows

\* Where the FRU may end by its first n areas.
Ends(n) == {FruBlock} \cup {End(a) : a \in {b \in Present : b <= n}}

IsLongest(m, n) == m \in Ends(n) /\ \A end \in Ends(n) : end <= m

LEMMA StartIs ==
    ASSUME image \in Images, NEW a \in 1..Areas + 1
    PROVE  Start(a) \in Nat /\ Start(a) * FruBlock \in 0..Limit
<1>1. a \in 0..FruBlock
  BY BlocksAssumption
<1>2. HeaderBase + a \in 0..2 * Limit
  BY <1>1, HeaderIs
<1>3. QED
  BY <1>2, BytesAre DEF Start

LEMMA EndIs ==
    ASSUME image \in Images, NEW a \in 1..Areas + 1
    PROVE  End(a) \in Nat
<1>1. PICK s : s = Start(a)
  OBVIOUS
<1>2. s \in Nat /\ s * FruBlock \in 0..Limit
  BY <1>1, StartIs
<1>3. CASE a > Areas
  <2>1. RecordsEnd[s * FruBlock] \in Nat
    BY <1>2, RecordsGrow
  <2>2. QED
    BY <1>1, <1>3, <2>1 DEF End
<1>4. CASE ~(a > Areas)
  <2>1. HeaderBase + s * FruBlock + 1 \in 0..2 * Limit
    BY <1>2, HeaderIs
  <2>2. Byte(HeaderBase + s * FruBlock + 1) \in Nat
    BY <2>1, BytesAre
  <2>3. (s + Byte(HeaderBase + s * FruBlock + 1)) * FruBlock \in Nat
    BY <1>2, <2>2, BlocksAssumption
  <2>4. QED
    BY <1>1, <1>4, <2>3 DEF End, AreaEnd
<1>5. QED
  BY <1>3, <1>4

LEMMA EndsAre ==
    ASSUME image \in Images, NEW n
    PROVE  Ends(n) \subseteq Nat
<1>1. Present \subseteq 1..Areas + 1
  BY DEF Present
<1>2. QED
  BY <1>1, EndIs, BlocksAssumption DEF Ends

LEMMA EndsBegin ==
    ASSUME image \in Images
    PROVE  IsLongest(FruBlock, 0)
<1>1. \A b \in Present : b \in 1..Areas + 1
  BY DEF Present
<1>2. {b \in Present : b <= 0} = {}
  <2>1. \A b \in Present : ~(b <= 0)
    BY <1>1, BlocksAssumption
  <2>2. QED
    BY <2>1, Zenon
<1>3. Ends(0) = {FruBlock}
  BY <1>2 DEF Ends
<1>4. QED
  BY <1>3, BlocksAssumption DEF IsLongest

LEMMA EndsGrow ==
    ASSUME image \in Images, NEW n \in 1..Areas + 1, NEW m, IsLongest(m, n - 1)
    PROVE  /\ n \in Present => IsLongest(Greater(End(n), m), n)
           /\ n \notin Present => IsLongest(m, n)
<1>1. \A b \in Present : b \in 1..Areas + 1
  BY DEF Present
<1>2. {b \in Present : b <= n} = {b \in Present : b <= n - 1} \cup (Present \cap {n})
  <2>1. \A b \in Present : b <= n <=> b <= n - 1 \/ b = n
    BY <1>1, BlocksAssumption
  <2>2. QED
    BY <2>1, Zenon
<1>3. CASE n \in Present
  <2>1. {b \in Present : b <= n} = {b \in Present : b <= n - 1} \cup {n}
    BY <1>2, <1>3
  <2>2. Ends(n) = Ends(n - 1) \cup {End(n)}
    BY <2>1 DEF Ends
  <2>3. Ends(n - 1) \subseteq Nat /\ End(n) \in Nat
    BY EndsAre, EndIs
  <2>4. m \in Nat /\ m \in Ends(n - 1) /\ \A end \in Ends(n - 1) : end <= m
    BY <2>3 DEF IsLongest
  <2>5. PICK g : g = Greater(End(n), m)
    OBVIOUS
  <2>6. (g = m \/ g = End(n)) /\ m <= g /\ End(n) <= g /\ g \in Nat
    BY <2>3, <2>4, <2>5 DEF Greater
  <2>7. \A end \in Ends(n - 1) : end <= g
    BY <2>3, <2>4, <2>6
  <2>8. IsLongest(g, n)
    BY <2>2, <2>4, <2>6, <2>7 DEF IsLongest
  <2>9. QED
    BY <1>3, <2>5, <2>8
<1>4. CASE n \notin Present
  <2>1. {b \in Present : b <= n} = {b \in Present : b <= n - 1}
    BY <1>2, <1>4
  <2>2. Ends(n) = Ends(n - 1)
    BY <2>1 DEF Ends
  <2>3. QED
    BY <1>4, <2>2 DEF IsLongest
<1>5. QED
  BY <1>3, <1>4

LEMMA LongestIsClaimed ==
    ASSUME image \in Images, NEW m, IsLongest(m, Areas + 1)
    PROVE  ClaimedLength = m
<1>1. \A b \in Present : b \in 1..Areas + 1
  BY DEF Present
<1>2. {b \in Present : b <= Areas + 1} = Present
  <2>1. \A b \in Present : b <= Areas + 1
    BY <1>1, BlocksAssumption
  <2>2. QED
    BY <2>1, Zenon
<1>3. Ends(Areas + 1) = {FruBlock} \cup {End(a) : a \in Present}
  BY <1>2 DEF Ends
<1>4. PICK S : S = Ends(Areas + 1)
  OBVIOUS
<1>5. S \subseteq Nat /\ m \in S /\ \A x \in S : x <= m
  BY <1>4, EndsAre DEF IsLongest
<1>6. ClaimedLength = CHOOSE x \in S : \A y \in S : x >= y
  BY <1>3, <1>4 DEF ClaimedLength, Max
<1>7. m \in S /\ \A y \in S : m >= y
  BY <1>5
<1>8. \A x \in S : (\A y \in S : x >= y) => x = m
  BY <1>5
<1>9. QED
  BY <1>6, <1>7, <1>8

\* How long the FRU is by its first n areas.
Longest == [n \in 0..Areas + 1 |-> Max(Ends(n))]

LEMMA LongestIs ==
    ASSUME image \in Images, NEW n \in 0..Areas + 1, NEW m, IsLongest(m, n)
    PROVE  Longest[n] = m /\ m \in Nat
<1>1. PICK S : S = Ends(n)
  OBVIOUS
<1>2. S \subseteq Nat /\ m \in S /\ \A x \in S : x <= m
  BY <1>1, EndsAre DEF IsLongest
<1>3. Longest[n] = CHOOSE x \in S : \A y \in S : x >= y
  BY <1>1 DEF Longest, Max
<1>4. m \in S /\ \A y \in S : m >= y
  BY <1>2
<1>5. \A x \in S : (\A y \in S : x >= y) => x = m
  BY <1>2
<1>6. QED
  BY <1>2, <1>3, <1>4, <1>5

LEMMA SomeIsLongest ==
    ASSUME image \in Images
    PROVE  \A n \in 0..Areas + 1 : \E m : IsLongest(m, n)
<1> DEFINE T == {n \in 0..Areas + 1 : \E m : IsLongest(m, n)}
<1>0. Areas + 1 \in Nat
  BY BlocksAssumption
<1>1. 0 \in T
  BY <1>0, EndsBegin
<1>2. ASSUME NEW n \in 0..(Areas + 1) - 1, n \in T PROVE n + 1 \in T
  <2>1. PICK k : k = n + 1
    OBVIOUS
  <2>2. k \in 1..Areas + 1 /\ k \in 0..Areas + 1 /\ k - 1 = n
    BY <1>0, <1>2, <2>1
  <2>3. \E m : IsLongest(m, k - 1)
    BY <1>2, <2>2
  <2>4. \E m : IsLongest(m, k)
    BY <2>2, <2>3, EndsGrow
  <2>5. QED
    BY <2>1, <2>2, <2>4
<1>3. \A n \in 0..Areas + 1 : n \in T
  <2> HIDE DEF T
  <2>1. QED
    BY <1>0, <1>1, <1>2, UpTo
<1>4. QED
  BY <1>3

\* It is found area by area, and is what the FRU claims at the last.
LEMMA LongestGrows ==
    ASSUME image \in Images
    PROVE  /\ Longest[0] = FruBlock
           /\ \A n \in 1..Areas + 1 :
                 /\ Longest[n - 1] \in Nat
                 /\ n \in Present => Longest[n] = Greater(End(n), Longest[n - 1])
                 /\ n \notin Present => Longest[n] = Longest[n - 1]
           /\ Longest[Areas + 1] = ClaimedLength
           /\ ClaimedLength \in Nat /\ ClaimedLength >= FruBlock
<1>0. Areas + 1 \in Nat
  BY BlocksAssumption
<1>1. Longest[0] = FruBlock
  <2>1. 0 \in 0..Areas + 1
    BY <1>0
  <2>2. QED
    BY <2>1, EndsBegin, LongestIs
<1>2. ASSUME NEW n \in 1..Areas + 1
      PROVE  /\ Longest[n - 1] \in Nat
             /\ n \in Present => Longest[n] = Greater(End(n), Longest[n - 1])
             /\ n \notin Present => Longest[n] = Longest[n - 1]
  <2>1. n - 1 \in 0..Areas + 1 /\ n \in 0..Areas + 1
    BY <1>0, <1>2
  <2>2. PICK m : IsLongest(m, n - 1)
    BY <2>1, SomeIsLongest
  <2>3. Longest[n - 1] = m /\ m \in Nat
    BY <2>1, <2>2, LongestIs
  <2>4. CASE n \in Present
    BY <1>2, <2>1, <2>2, <2>3, <2>4, EndsGrow, LongestIs
  <2>5. CASE n \notin Present
    BY <1>2, <2>1, <2>2, <2>3, <2>5, EndsGrow, LongestIs
  <2>6. QED
    BY <2>3, <2>4, <2>5
<1>3. Areas + 1 \in 0..Areas + 1
  BY <1>0
<1>4. PICK m : IsLongest(m, Areas + 1)
  BY <1>3, SomeIsLongest
<1>5. Longest[Areas + 1] = m /\ m \in Nat /\ ClaimedLength = m
  BY <1>3, <1>4, LongestIs, LongestIsClaimed
<1>6. FruBlock \in Ends(Areas + 1)
  BY DEF Ends
<1>7. FruBlock <= m
  BY <1>4, <1>6 DEF IsLongest
<1>8. QED
  BY <1>1, <1>2, <1>5, <1>7, BlocksAssumption

LEMMA SameFru ==
    ASSUME image' = image
    PROVE  /\ ClaimedLength' = ClaimedLength /\ HeaderBase' = HeaderBase
           /\ Longest' = Longest /\ RecordsEnd' = RecordsEnd
           /\ eepromSize' = eepromSize => Fits' = Fits
<1>1. RecordsEnd' = RecordsEnd
  BY SameImage
<1>2. HeaderBase' = HeaderBase
  BY DEF HeaderBase, Byte
<1>3. Present' = Present
  BY DEF Present, Start, HeaderBase, Byte
<1>4. ClaimedLength' = ClaimedLength
  BY <1>1 DEF ClaimedLength, Present, End, AreaEnd, Start, HeaderBase, Byte
<1>5. Longest' = Longest
  BY <1>1 DEF Longest, Ends, Present, End, AreaEnd, Start, HeaderBase, Byte
<1>6. \A a : Start(a)' = Start(a)
  BY DEF Start, HeaderBase, Byte
<1>7. eepromSize' = eepromSize => Fits' = Fits
  BY <1>2, <1>4 DEF Fits, Present, Start, HeaderBase, Byte
<1>8. QED
  BY <1>1, <1>2, <1>4, <1>5, <1>7

-----------------------------------------------------------------------------
(* Types, and what the cache holds *)

Places == -1..Limit
Buffers == [1..CacheBlock -> Places]
Steps == {"header", "other", "areas", "records", "data", "tail", "done", "empty"}

ContentsTyped ==
    /\ eepromSize < Limit /\ CacheIsTrue(cache, eof)
    /\ image \in Images /\ storageSize \in Int
    /\ base \in {0, OtherBase} /\ area \in 1..Areas + 1
    /\ prevOffset \in Nat /\ offset \in Nat
    /\ fruLength \in Nat /\ fruLength >= FruBlock
    /\ blockData \in Buffers /\ contents \in Seq(Places)
    /\ step \in Steps
    /\ step \in {"areas", "records"} => Len(contents) = FruBlock
    /\ step = "data" => Len(contents) <= fruLength

LEMMA TypedIsOK ==
    ASSUME ContentsTyped
    PROVE  ContentsTypeOK
<1>1. Range(contents) \subseteq -1..Limit
  BY RangeAt DEF ContentsTyped, Places
<1>2. Len(blockData) = CacheBlock
  BY BlocksAssumption DEF ContentsTyped, Buffers
<1>3. eepromSize \in 0..Limit - 1
  BY SizesAssumption DEF ContentsTyped, CacheIsTrue
<1>4. QED
  BY <1>1, <1>2, <1>3 DEF ContentsTyped, ContentsTypeOK, CacheIsTrue, Steps

LEMMA ByteIs ==
    ASSUME image \in Images, NEW p \in Places
    PROVE  Byte(p) \in Nat /\ Byte(p) * FruBlock \in 0..Limit
<1>1. CASE p = -1
  BY <1>1, SizesAssumption, BlocksAssumption DEF Byte
<1>2. CASE p # -1
  <2>1. p \in 0..2 * Limit
    BY <1>2, SizesAssumption DEF Places
  <2>2. QED
    BY <2>1, BytesAre
<1>3. QED
  BY <1>1, <1>2

LEMMA BufferIs ==
    ASSUME NEW buffer \in Buffers, NEW n \in 0..CacheBlock
    PROVE  /\ SubSeq(buffer, 1, n) \in Seq(Places) /\ Len(SubSeq(buffer, 1, n)) = n
           /\ \A i \in 1..n : SubSeq(buffer, 1, n)[i] = buffer[i]
<1>1. buffer \in Seq(Places) /\ Len(buffer) = CacheBlock /\ CacheBlock \in Nat
  BY BlocksAssumption DEF Buffers
<1>2. \A i \in 1..n : buffer[i] \in Places
  BY <1>1 DEF Buffers
<1>3. SubSeq(buffer, 1, n) = [i \in 1..n |-> buffer[i]]
  BY <1>1
<1>4. QED
  BY <1>1, <1>2, <1>3

\* A read lays its bytes over the buffer.
LEMMA OverIs ==
    ASSUME NEW buffer \in Buffers, NEW out \in Seq(Places), NEW start, Positions(out, start)
    PROVE  /\ Over(buffer, out) \in Buffers
           /\ \A k \in 1..CacheBlock : k <= Len(out) => Over(buffer, out)[k] = start + k - 1
<1>1. \A k \in 1..Len(out) : out[k] = start + k - 1 /\ out[k] \in Places
  BY DEF Positions
<1>2. Len(out) \in Nat /\ CacheBlock \in Nat
  BY BlocksAssumption
<1>3. ASSUME NEW k \in 1..CacheBlock
      PROVE  /\ Over(buffer, out)[k] \in Places
             /\ k <= Len(out) => Over(buffer, out)[k] = start + k - 1
  <2>1. Over(buffer, out)[k] = IF k <= Len(out) THEN out[k] ELSE buffer[k]
    BY <1>3 DEF Over
  <2>2. k <= Len(out) => k \in 1..Len(out)
    BY <1>2, <1>3
  <2>3. buffer[k] \in Places
    BY <1>3 DEF Buffers
  <2>4. QED
    BY <1>1, <2>1, <2>2, <2>3
<1>4. Over(buffer, out) = [k \in 1..CacheBlock |-> Over(buffer, out)[k]]
  BY DEF Over
<1>5. Over(buffer, out) \in Buffers
  BY <1>3, <1>4 DEF Buffers
<1>6. QED
  BY <1>3, <1>5

LEMMA ReadIsTyped ==
    ASSUME NEW start \in Nat, NEW len \in Nat, len > 0, NEW fails, CacheIsTrue(cache, eof)
    PROVE  LET r == Read(start, len, fails)
           IN  /\ r.out \in Seq(Places) /\ Len(r.out) \in 0..len /\ Positions(r.out, start)
               /\ CacheIsTrue(r.cache, r.eof)
<1>1. PICK r : r = Read(start, len, fails)
  OBVIOUS
<1>2. /\ CacheIsTrue(r.cache, r.eof)
      /\ Len(r.out) \in 0..len /\ Positions(r.out, start)
      /\ Len(r.out) = 0 \/ start + Len(r.out) <= Limit
  BY <1>1, ReadReads
<1>3. PICK n \in Nat : n = Len(r.out)
  BY <1>2
<1>4. r.out = [k \in 1..n |-> start + k - 1]
  BY <1>2, <1>3 DEF Positions
<1>5. \A k \in 1..n : start + k - 1 \in Places
  BY <1>2, <1>3, SizesAssumption DEF Places
<1>6. r.out \in Seq(Places)
  BY <1>4, <1>5
<1>7. QED
  BY <1>1, <1>2, <1>6

LEMMA SameCache ==
    ASSUME CacheIsTrue(cache', eof'), eepromSize' = eepromSize
    PROVE  CacheIsTrue(cache, eof)'
BY DEF CacheIsTrue

LEMMA ContentsInitTypes ==
    ASSUME ContentsInit
    PROVE  ContentsTyped
<1>1. CacheIsTrue(cache, eof)
  BY SizesAssumption DEF ContentsInit, CacheIsTrue
<1>2. blockData \in Buffers
  BY SizesAssumption DEF ContentsInit, Buffers, Places
<1>3. contents \in Seq(Places)
  BY DEF ContentsInit
<1>4. eepromSize < Limit /\ storageSize \in Int
  BY SizesAssumption DEF ContentsInit
<1>5. area \in 1..Areas + 1 /\ fruLength \in Nat /\ fruLength >= FruBlock
  BY BlocksAssumption DEF ContentsInit
<1>6. QED
  BY <1>1, <1>2, <1>3, <1>4, <1>5 DEF ContentsInit, ContentsTyped, Steps

\* The EEPROM as it was, while the FRU is read out of it.
SameEeprom == UNCHANGED <<image, eepromSize, storageSize>>

\* Reading into the buffer keeps what the cache and the buffer hold.
LEMMA TookIsTyped ==
    ASSUME ContentsTyped, SameEeprom, NEW start \in Nat, NEW len \in Nat, len > 0, NEW fails,
           Took(Read(start, len, fails))
    PROVE  CacheIsTrue(cache, eof)' /\ blockData' \in Buffers
<1>1. PICK r : r = Read(start, len, fails)
  OBVIOUS
<1>2. /\ r.out \in Seq(Places) /\ Positions(r.out, start)
      /\ CacheIsTrue(r.cache, r.eof)
  BY <1>1, ReadIsTyped DEF ContentsTyped
<1>3. cache' = r.cache /\ eof' = r.eof /\ blockData' = Over(blockData, r.out)
  BY <1>1 DEF Took
<1>4. CacheIsTrue(cache, eof)'
  BY <1>2, <1>3, SameCache DEF SameEeprom
<1>5. blockData' \in Buffers
  BY <1>2, <1>3, OverIs DEF ContentsTyped
<1>6. QED
  BY <1>4, <1>5

LEMMA FindHeaderTypes ==
    ASSUME ContentsTyped, SameEeprom, NEW fails, FindHeader(fails)
    PROVE  ContentsTyped'
<1>1. PICK r : r = Read(base, FruBlock, fails)
  OBVIOUS
<1>2. PICK buffer : buffer = Over([k \in 1..CacheBlock |-> -1], r.out)
  OBVIOUS
<1>3. base \in Nat /\ FruBlock \in Nat /\ FruBlock > 0 /\ FruBlock \in 0..CacheBlock
  BY BlocksAssumption, ImagesAssumption DEF ContentsTyped
<1>4. r.out \in Seq(Places) /\ Positions(r.out, base) /\ CacheIsTrue(r.cache, r.eof)
  BY <1>1, <1>3, ReadIsTyped DEF ContentsTyped
<1>5. buffer \in Buffers
  <2>1. [k \in 1..CacheBlock |-> -1] \in Buffers
    BY SizesAssumption DEF Buffers, Places
  <2>2. QED
    BY <1>2, <1>4, <2>1, OverIs
<1>6. /\ cache' = r.cache /\ eof' = r.eof /\ blockData' = buffer
      /\ UNCHANGED <<area, prevOffset, offset, fruLength>>
  BY <1>1, <1>2 DEF FindHeader
<1>7. \/ step' = "empty" /\ contents' = <<>> /\ base' = base
      \/ step' = "areas" /\ contents' = SubSeq(buffer, 1, FruBlock) /\ base' = base
      \/ step' = "other" /\ base' = OtherBase /\ contents' = contents
  BY <1>1, <1>2 DEF FindHeader, Empty
<1>8. CacheIsTrue(cache, eof)'
  BY <1>4, <1>6, SameCache DEF SameEeprom
<1>9. base' \in {0, OtherBase}
  BY <1>7 DEF ContentsTyped
<1>10. /\ contents' \in Seq(Places) /\ step' \in Steps
       /\ step' \in {"areas", "records"} => Len(contents') = FruBlock
       /\ step' # "data"
  <2>1. /\ SubSeq(buffer, 1, FruBlock) \in Seq(Places)
        /\ Len(SubSeq(buffer, 1, FruBlock)) = FruBlock
    BY <1>3, <1>5, BufferIs
  <2>2. contents \in Seq(Places) /\ <<>> \in Seq(Places)
    BY DEF ContentsTyped
  <2>3. contents' \in Seq(Places)
    BY <1>7, <2>1, <2>2
  <2>4. step' \in {"empty", "areas", "other"} /\ (step' = "areas" => Len(contents') = FruBlock)
    BY <1>7, <2>1
  <2>5. QED
    BY <2>3, <2>4 DEF Steps
<1>11. QED
  BY <1>5, <1>6, <1>8, <1>9, <1>10 DEF ContentsTyped, SameEeprom

LEMMA WalkAreasTypes ==
    ASSUME ContentsTyped, SameEeprom, NEW fails, WalkAreas(fails)
    PROVE  ContentsTyped'
<1>1. PICK start : start = Byte(contents[area + 1])
  OBVIOUS
<1>2. PICK r : r = Read(At(start * FruBlock), 2, fails)
  OBVIOUS
<1>3. PICK end : end = (start + Byte(blockData'[2])) * FruBlock
  OBVIOUS
<1>4. /\ area \in 1..Areas + 1 /\ fruLength \in Nat /\ fruLength >= FruBlock
      /\ Len(contents) = FruBlock /\ contents \in Seq(Places) /\ image \in Images
      /\ step = "areas" /\ base \in Nat
  BY ImagesAssumption DEF ContentsTyped, WalkAreas
<1>5. start \in Nat /\ start * FruBlock \in 0..Limit
  <2>1. area + 1 \in 1..Len(contents)
    BY <1>4, BlocksAssumption
  <2>2. contents[area + 1] \in Places
    BY <1>4, <2>1
  <2>3. QED
    BY <1>1, <1>4, <2>2, ByteIs
<1>6. \/ /\ area' = (IF IsMultirecord(area) THEN area ELSE area + 1)
         /\ step' = (IF IsMultirecord(area) THEN "data" ELSE step)
         /\ UNCHANGED <<reader, blockData, base, prevOffset, offset, fruLength, contents>>
      \/ step' = "empty" /\ contents' = <<>> /\ UNCHANGED <<reader, blockData, walk>>
      \/ /\ step' = "records" /\ offset' = start * FruBlock
         /\ UNCHANGED <<reader, blockData, base, area, prevOffset, fruLength, contents>>
      \/ /\ ~IsMultirecord(area) /\ Took(r) /\ prevOffset' = start
         /\ \/ step' = "empty" /\ contents' = <<>> /\ UNCHANGED <<area, fruLength>>
            \/ fruLength' = Extended(end) /\ area' = area + 1 /\ UNCHANGED <<step, contents>>
         /\ UNCHANGED <<base, offset>>
  BY <1>1, <1>2, <1>3 DEF WalkAreas, Empty
<1>7. CASE /\ area' = (IF IsMultirecord(area) THEN area ELSE area + 1)
           /\ step' = (IF IsMultirecord(area) THEN "data" ELSE step)
           /\ UNCHANGED <<reader, blockData, base, prevOffset, offset, fruLength, contents>>
  <2>1. CacheIsTrue(cache, eof)'
    BY <1>7, SameCache DEF ContentsTyped, SameEeprom, reader
  <2>2. area' \in 1..Areas + 1
    BY <1>4, <1>7, BlocksAssumption DEF IsMultirecord
  <2>3. step' \in {"areas", "data"}
    BY <1>4, <1>7
  <2>4. QED
    BY <1>4, <1>7, <2>1, <2>2, <2>3 DEF ContentsTyped, SameEeprom, Steps
<1>8. CASE step' = "empty" /\ contents' = <<>> /\ UNCHANGED <<reader, blockData, walk>>
  <2>1. CacheIsTrue(cache, eof)'
    BY <1>8, SameCache DEF ContentsTyped, SameEeprom, reader
  <2>2. QED
    BY <1>8, <2>1 DEF ContentsTyped, SameEeprom, Steps, walk
<1>9. CASE /\ step' = "records" /\ offset' = start * FruBlock
           /\ UNCHANGED <<reader, blockData, base, area, prevOffset, fruLength, contents>>
  <2>1. CacheIsTrue(cache, eof)'
    BY <1>9, SameCache DEF ContentsTyped, SameEeprom, reader
  <2>2. offset' \in Nat
    BY <1>5, <1>9, SizesAssumption
  <2>3. QED
    BY <1>4, <1>9, <2>1, <2>2 DEF ContentsTyped, SameEeprom, Steps
<1>10. CASE /\ ~IsMultirecord(area) /\ Took(r) /\ prevOffset' = start
            /\ \/ step' = "empty" /\ contents' = <<>> /\ UNCHANGED <<area, fruLength>>
               \/ fruLength' = Extended(end) /\ area' = area + 1 /\ UNCHANGED <<step, contents>>
            /\ UNCHANGED <<base, offset>>
  <2>1. At(start * FruBlock) \in Nat
    BY <1>4, <1>5, SizesAssumption DEF At
  <2>2. CacheIsTrue(cache, eof)' /\ blockData' \in Buffers
    BY <1>2, <1>10, <2>1, TookIsTyped
  <2>3. end \in Nat
    <3>1. blockData'[2] \in Places
      BY <2>2, BlocksAssumption DEF Buffers
    <3>2. Byte(blockData'[2]) \in Nat
      BY <1>4, <3>1, ByteIs
    <3>3. QED
      BY <1>3, <1>5, <3>2, BlocksAssumption
  <2>4. /\ fruLength' \in Nat /\ fruLength' >= FruBlock /\ area' \in 1..Areas + 1
        /\ step' \in {"areas", "empty"} /\ contents' \in Seq(Places)
        /\ step' = "areas" => Len(contents') = FruBlock
    <3>1. Extended(end) \in Nat /\ Extended(end) >= FruBlock
      BY <1>4, <2>3, BlocksAssumption DEF Extended, Greater
    <3>2. area + 1 \in 1..Areas + 1
      BY <1>4, <1>10, BlocksAssumption DEF IsMultirecord
    <3>3. <<>> \in Seq(Places)
      OBVIOUS
    <3>4. CASE step' = "empty" /\ contents' = <<>> /\ UNCHANGED <<area, fruLength>>
      BY <1>4, <3>3, <3>4
    <3>5. CASE fruLength' = Extended(end) /\ area' = area + 1 /\ UNCHANGED <<step, contents>>
      BY <1>4, <3>1, <3>2, <3>5
    <3>6. QED
      BY <1>10, <3>4, <3>5
  <2>5. QED
    BY <1>5, <1>10, <2>2, <2>4 DEF ContentsTyped, SameEeprom, Steps
<1>11. QED
  BY <1>6, <1>7, <1>8, <1>9, <1>10

LEMMA WalkRecordsTypes ==
    ASSUME ContentsTyped, SameEeprom, NEW fails, WalkRecords(fails)
    PROVE  ContentsTyped'
<1>1. PICK r : r = Read(At(offset), 3, fails)
  OBVIOUS
<1>2. PICK end : end = offset + Byte(blockData'[3]) + RecordHeader
  OBVIOUS
<1>3. /\ fruLength \in Nat /\ fruLength >= FruBlock /\ offset \in Nat
      /\ Len(contents) = FruBlock /\ contents \in Seq(Places) /\ image \in Images
      /\ step = "records" /\ base \in Nat
  BY ImagesAssumption DEF ContentsTyped, WalkRecords
<1>4. /\ Took(r)
      /\ \/ step' = "empty" /\ contents' = <<>> /\ UNCHANGED <<offset, fruLength>>
         \/ /\ offset' = end /\ fruLength' = Extended(end) /\ contents' = contents
            /\ step' = (IF Byte(blockData'[2]) = 1 \/ end >= Limit - 1 THEN "data" ELSE step)
      /\ UNCHANGED <<base, area, prevOffset>>
  BY <1>1, <1>2 DEF WalkRecords, Empty
<1>5. CacheIsTrue(cache, eof)' /\ blockData' \in Buffers
  <2>1. At(offset) \in Nat
    BY <1>3 DEF At
  <2>2. QED
    BY <1>1, <1>4, <2>1, TookIsTyped
<1>6. end \in Nat
  <2>1. blockData'[3] \in Places
    BY <1>5, BlocksAssumption DEF Buffers
  <2>2. Byte(blockData'[3]) \in Nat
    BY <1>3, <2>1, ByteIs
  <2>3. QED
    BY <1>2, <1>3, <2>2, BlocksAssumption
<1>7. Extended(end) \in Nat /\ Extended(end) >= FruBlock
  BY <1>3, <1>6, BlocksAssumption DEF Extended, Greater
<1>8. CASE step' = "empty" /\ contents' = <<>> /\ UNCHANGED <<offset, fruLength>>
  BY <1>3, <1>4, <1>5, <1>8 DEF ContentsTyped, SameEeprom, Steps
<1>9. CASE /\ offset' = end /\ fruLength' = Extended(end) /\ contents' = contents
           /\ step' = (IF Byte(blockData'[2]) = 1 \/ end >= Limit - 1 THEN "data" ELSE step)
  <2>1. step' \in {"data", "records"}
    BY <1>3, <1>9
  <2>2. QED
    BY <1>3, <1>4, <1>5, <1>6, <1>7, <1>9, <2>1 DEF ContentsTyped, SameEeprom, Steps
<1>10. QED
  BY <1>4, <1>8, <1>9

\* A chunk is appended, never beyond the FRU's length.
LEMMA ChunkIs ==
    ASSUME ContentsTyped, step = "data", fruLength # Len(contents)
    PROVE  LET request == Lesser(CacheBlock, fruLength - Len(contents))
           IN  request \in 1..CacheBlock /\ Len(contents) + request <= fruLength
BY BlocksAssumption DEF ContentsTyped, Lesser

LEMMA ReadChunkTypes ==
    ASSUME ContentsTyped, SameEeprom, NEW fails, ReadChunk(fails)
    PROVE  ContentsTyped'
<1>1. PICK request : request = Lesser(CacheBlock, fruLength - Len(contents))
  OBVIOUS
<1>2. PICK r : r = Read(At(Len(contents)), request, fails)
  OBVIOUS
<1>3. /\ fruLength \in Nat /\ fruLength >= FruBlock
      /\ contents \in Seq(Places) /\ Len(contents) <= fruLength
      /\ step = "data" /\ base \in Nat
  BY ImagesAssumption DEF ContentsTyped, ReadChunk
<1>4. /\ \/ /\ fruLength = Len(contents) /\ step' = "tail"
            /\ UNCHANGED <<reader, blockData, contents>>
         \/ /\ fruLength # Len(contents) /\ Took(r)
            /\ \/ step' = "empty" /\ contents' = <<>>
               \/ contents' = contents \o SubSeq(blockData', 1, request) /\ step' = step
      /\ UNCHANGED walk
  BY <1>1, <1>2 DEF ReadChunk, Empty
<1>5. CASE /\ fruLength = Len(contents) /\ step' = "tail"
           /\ UNCHANGED <<reader, blockData, contents>>
  <2>1. CacheIsTrue(cache, eof)'
    BY <1>5, SameCache DEF ContentsTyped, SameEeprom, reader
  <2>2. QED
    BY <1>4, <1>5, <2>1 DEF ContentsTyped, SameEeprom, Steps, walk
<1>6. CASE /\ fruLength # Len(contents) /\ Took(r)
           /\ \/ step' = "empty" /\ contents' = <<>>
              \/ contents' = contents \o SubSeq(blockData', 1, request) /\ step' = step
  <2>1. request \in 1..CacheBlock /\ Len(contents) + request <= fruLength
    BY <1>1, <1>3, <1>6, ChunkIs
  <2>2. request \in Nat /\ request > 0 /\ request \in 0..CacheBlock /\ At(Len(contents)) \in Nat
    BY <1>3, <2>1, BlocksAssumption DEF At
  <2>3. CacheIsTrue(cache, eof)' /\ blockData' \in Buffers
    BY <1>2, <1>6, <2>2, TookIsTyped
  <2>4. PICK chunk : chunk = SubSeq(blockData', 1, request)
    OBVIOUS
  <2>5. chunk \in Seq(Places) /\ Len(chunk) = request
    BY <2>2, <2>3, <2>4, BufferIs
  <2>6. contents \o chunk \in Seq(Places) /\ Len(contents \o chunk) <= fruLength
    BY <1>3, <2>1, <2>5, ConcatProperties
  <2>7. CASE step' = "empty" /\ contents' = <<>>
    BY <1>3, <1>4, <2>3, <2>7 DEF ContentsTyped, SameEeprom, Steps, walk
  <2>8. CASE contents' = contents \o chunk /\ step' = step
    BY <1>3, <1>4, <2>3, <2>6, <2>8 DEF ContentsTyped, SameEeprom, Steps, walk
  <2>9. QED
    BY <1>6, <2>4, <2>7, <2>8
<1>7. QED
  BY <1>4, <1>5, <1>6

LEMMA ReadTailTypes ==
    ASSUME ContentsTyped, SameEeprom, NEW fails, ReadTail(fails)
    PROVE  ContentsTyped'
<1>1. PICK available : available = storageSize - base
  OBVIOUS
<1>2. PICK remaining : remaining = available - Len(contents)
  OBVIOUS
<1>3. PICK r : r = Read(At(Len(contents)), remaining, fails)
  OBVIOUS
<1>4. /\ contents \in Seq(Places) /\ base \in Nat /\ remaining \in Int
  BY <1>1, <1>2, ImagesAssumption DEF ContentsTyped
<1>5. /\ \/ step' = "done" /\ UNCHANGED <<reader, contents>>
         \/ step' = "empty" /\ contents' = <<>> /\ UNCHANGED reader
         \/ /\ remaining # 0 /\ ~(remaining < 0) /\ cache' = r.cache /\ eof' = r.eof
            /\ \/ step' = "empty" /\ contents' = <<>>
               \/ step' = "done" /\ contents' = contents \o r.out
      /\ UNCHANGED <<blockData, walk>>
  BY <1>1, <1>2, <1>3 DEF ReadTail, Empty
<1>6. CASE step' = "done" /\ UNCHANGED <<reader, contents>>
  <2>1. CacheIsTrue(cache, eof)'
    BY <1>6, SameCache DEF ContentsTyped, SameEeprom, reader
  <2>2. QED
    BY <1>5, <1>6, <2>1 DEF ContentsTyped, SameEeprom, Steps, walk
<1>7. CASE step' = "empty" /\ contents' = <<>> /\ UNCHANGED reader
  <2>1. CacheIsTrue(cache, eof)'
    BY <1>7, SameCache DEF ContentsTyped, SameEeprom, reader
  <2>2. QED
    BY <1>5, <1>7, <2>1 DEF ContentsTyped, SameEeprom, Steps, walk
<1>8. CASE /\ remaining # 0 /\ ~(remaining < 0) /\ cache' = r.cache /\ eof' = r.eof
           /\ \/ step' = "empty" /\ contents' = <<>>
              \/ step' = "done" /\ contents' = contents \o r.out
  <2>1. remaining \in Nat /\ remaining > 0 /\ At(Len(contents)) \in Nat
    BY <1>4, <1>8 DEF At
  <2>2. r.out \in Seq(Places) /\ CacheIsTrue(r.cache, r.eof)
    BY <1>3, <2>1, ReadIsTyped DEF ContentsTyped
  <2>3. CacheIsTrue(cache, eof)'
    BY <1>8, <2>2, SameCache DEF SameEeprom
  <2>4. contents \o r.out \in Seq(Places) /\ <<>> \in Seq(Places)
    BY <1>4, <2>2
  <2>5. contents' \in Seq(Places) /\ step' \in {"empty", "done"}
    BY <1>8, <2>4
  <2>6. QED
    BY <1>5, <2>3, <2>5 DEF ContentsTyped, SameEeprom, Steps, walk
<1>9. QED
  BY <1>5, <1>6, <1>7, <1>8

LEMMA ShrinkTypes ==
    ASSUME ContentsTyped, Shrink
    PROVE  ContentsTyped'
<1>1. eepromSize' \in Nat /\ eepromSize' < eepromSize
  BY SizesAssumption DEF Shrink
<1>2. eepromSize \in 0..eof /\ eof \in 0..Limit /\ eepromSize < Limit
  BY DEF ContentsTyped, CacheIsTrue
<1>3. eepromSize' \in 0..eof /\ eepromSize' < Limit
  BY <1>1, <1>2, SizesAssumption
<1>4. CacheIsTrue(cache, eof)'
  BY <1>3 DEF ContentsTyped, CacheIsTrue, Shrink, reader
<1>5. QED
  BY <1>3, <1>4 DEF ContentsTyped, Shrink, reader, walk

LEMMA NextTypes ==
    ASSUME ContentsTyped, [ContentsNext]_contentsVars
    PROVE  ContentsTyped'
<1>1. CASE Shrink
  BY <1>1, ShrinkTypes
<1>2. ASSUME NEW fails \in BOOLEAN,
             FindHeader(fails) \/ WalkAreas(fails) \/ WalkRecords(fails)
                \/ ReadChunk(fails) \/ ReadTail(fails),
             UNCHANGED <<image, eepromSize, shrunk, storageSize>>
      PROVE  ContentsTyped'
  <2>1. SameEeprom
    BY <1>2 DEF SameEeprom
  <2>2. QED
    BY <1>2, <2>1, FindHeaderTypes, WalkAreasTypes, WalkRecordsTypes, ReadChunkTypes, ReadTailTypes
<1>3. CASE UNCHANGED contentsVars
  BY <1>3 DEF contentsVars, reader, walk, ContentsTyped, CacheIsTrue
<1>4. QED
  BY <1>1, <1>2, <1>3 DEF ContentsNext

\* Whatever fails, and wherever the EEPROM ends meanwhile.
THEOREM ContentsTypeCorrect == ContentsSpec => []ContentsTypeOK
<1>1. ContentsInit => ContentsTyped
  BY ContentsInitTypes
<1>2. ContentsTyped /\ [ContentsNext]_contentsVars => ContentsTyped'
  BY NextTypes
<1>3. ContentsTyped => ContentsTypeOK
  BY TypedIsOK
<1>4. QED
  BY <1>1, <1>2, <1>3, PTL DEF ContentsSpec

-----------------------------------------------------------------------------
(* What has been read so far is exact *)

\* Of the walk's state: the base is the header's, what is read is in place, and
\* the length is what the areas and records so far claim.
IsExact(at, from, a, length, record, bytes, known) ==
    /\ at \in {"header", "other"} => a = 1 /\ length = FruBlock
    /\ at = "header" => from = 0
    /\ at \in {"other", "areas", "records", "data", "tail", "done"} => from = HeaderBase
    /\ at \in {"areas", "records", "data", "tail", "done"} => Positions(bytes, HeaderBase)
    /\ at = "areas" => length = Longest[a - 1]
    /\ at = "records" => /\ record \in 0..Limit
                         /\ Greater(length, RecordsEnd[record]) = ClaimedLength
    /\ at = "data" => length = ClaimedLength
    /\ at = "tail" => Len(bytes) = ClaimedLength
    /\ at = "done" => Len(bytes) = IF known = -1 THEN ClaimedLength ELSE known - HeaderBase

ExactSoFar == IsExact(step, base, area, fruLength, offset, contents, storageSize)
ExactNext == IsExact(step', base', area', fruLength', offset', contents', storageSize)

LEMMA ExactIsNext ==
    ASSUME SameEeprom, ExactNext
    PROVE  ExactSoFar'
BY SameFru DEF SameEeprom, ExactNext, ExactSoFar, IsExact, Positions

LEMMA EmptyIsExact ==
    ASSUME step' = "empty"
    PROVE  ExactNext
BY DEF ExactNext, IsExact

\* What is asked for is read in full.
LEMMA FullRead ==
    ASSUME ContentsTyped, NEW start \in Nat, NEW len \in Nat, len > 0, start + len <= eepromSize
    PROVE  LET r == Read(start, len, FALSE)
           IN  Len(r.out) = len /\ Positions(r.out, start) /\ r.out \in Seq(Places) /\ ~Failed(r)
<1>1. PICK r : r = Read(start, len, FALSE)
  OBVIOUS
<1>2. Len(r.out) = len /\ Positions(r.out, start)
  BY <1>1, ReadReads DEF ContentsTyped
<1>3. r.out # <<>>
  BY <1>2
<1>4. r.out \in Seq(Places)
  BY <1>1, ReadIsTyped DEF ContentsTyped
<1>5. QED
  BY <1>1, <1>2, <1>3, <1>4 DEF Failed

LEMMA FullyTook ==
    ASSUME ContentsTyped, NEW start \in Nat, NEW len \in 1..CacheBlock, start + len <= eepromSize,
           Took(Read(start, len, FALSE))
    PROVE  /\ ~Failed(Read(start, len, FALSE))
           /\ \A k \in 1..len : blockData'[k] = start + k - 1
<1>1. PICK r : r = Read(start, len, FALSE)
  OBVIOUS
<1>2. len \in Nat /\ len > 0 /\ CacheBlock \in Nat
  BY BlocksAssumption
<1>3. Len(r.out) = len /\ Positions(r.out, start) /\ r.out \in Seq(Places) /\ ~Failed(r)
  BY <1>1, <1>2, FullRead
<1>4. blockData' = Over(blockData, r.out)
  BY <1>1 DEF Took
<1>5. \A k \in 1..CacheBlock : k <= Len(r.out) => blockData'[k] = start + k - 1
  BY <1>3, <1>4, OverIs DEF ContentsTyped
<1>6. ASSUME NEW k \in 1..len PROVE blockData'[k] = start + k - 1
  <2>1. k \in 1..CacheBlock /\ k <= Len(r.out)
    BY <1>2, <1>3, <1>6
  <2>2. QED
    BY <1>5, <2>1
<1>7. QED
  BY <1>1, <1>3, <1>6

\* What fits, in numbers.
LEMMA FitsIs ==
    ASSUME ContentsTyped, Fits
    PROVE  /\ HeaderBase \in Nat /\ ClaimedLength \in Nat /\ eepromSize \in Nat
           /\ FruBlock \in Nat /\ FruBlock <= ClaimedLength
           /\ HeaderBase + ClaimedLength <= eepromSize
           /\ \A a \in Present : HeaderBase + Start(a) * FruBlock + 2 <= eepromSize
<1>1. image \in Images /\ eepromSize \in Nat
  BY SizesAssumption DEF ContentsTyped, CacheIsTrue
<1>2. HeaderBase \in Nat
  BY <1>1, HeaderIs
<1>3. ClaimedLength \in Nat /\ ClaimedLength >= FruBlock
  BY <1>1, LongestGrows
<1>4. FruBlock \in Nat
  BY BlocksAssumption
<1>5. FruBlock <= ClaimedLength
  BY <1>3, <1>4
<1>6. QED
  BY <1>1, <1>2, <1>3, <1>4, <1>5 DEF Fits

LEMMA FindHeaderIsExact ==
    ASSUME ContentsTyped, ExactSoFar, Fits, SameEeprom, FindHeader(FALSE)
    PROVE  ExactNext
<1>1. PICK r : r = Read(base, FruBlock, FALSE)
  OBVIOUS
<1>2. PICK buffer : buffer = Over([k \in 1..CacheBlock |-> -1], r.out)
  OBVIOUS
<1>3. /\ step \in {"header", "other"} /\ area = 1 /\ fruLength = FruBlock
      /\ step = "header" => base = 0
      /\ step = "other" => base = HeaderBase
  BY DEF FindHeader, ExactSoFar, IsExact
<1>4. /\ HeaderBase \in Nat /\ FruBlock \in Nat /\ FruBlock > 0 /\ FruBlock \in 0..CacheBlock
      /\ HeaderBase + FruBlock <= eepromSize /\ eepromSize \in Nat /\ 1 \in 1..CacheBlock
  BY FitsIs, BlocksAssumption
<1>5. base \in Nat /\ base + FruBlock <= eepromSize
  BY <1>3, <1>4
<1>6. Len(r.out) = FruBlock /\ Positions(r.out, base) /\ r.out \in Seq(Places)
  BY <1>1, <1>4, <1>5, FullRead
<1>7. [k \in 1..CacheBlock |-> -1] \in Buffers
  BY SizesAssumption DEF Buffers, Places
<1>8. /\ buffer \in Buffers
      /\ \A k \in 1..CacheBlock : k <= FruBlock => buffer[k] = base + k - 1
  <2>1. PICK old \in Buffers : old = [k \in 1..CacheBlock |-> -1]
    BY <1>7
  <2>2. buffer = Over(old, r.out)
    BY <1>2, <2>1
  <2>3. QED
    BY <1>6, <2>2, OverIs
<1>9. buffer[1] = base
  BY <1>4, <1>5, <1>8
<1>10. UNCHANGED <<area, prevOffset, offset, fruLength>>
  BY DEF FindHeader
<1>11. \/ step' = "empty"
       \/ /\ step' = "areas" /\ contents' = SubSeq(buffer, 1, FruBlock) /\ base' = base
          /\ ValidHeader(buffer)
       \/ /\ step' = "other" /\ base' = OtherBase
          /\ step = "header" /\ Byte(buffer[1]) = 2
  BY <1>1, <1>2 DEF FindHeader, Empty
<1>12. CASE step' = "empty"
  BY <1>12, EmptyIsExact
<1>13. CASE /\ step' = "areas" /\ contents' = SubSeq(buffer, 1, FruBlock) /\ base' = base
            /\ ValidHeader(buffer)
  <2>1. Byte(base) = 1
    BY <1>9, <1>13 DEF ValidHeader
  <2>2. base = HeaderBase
    BY <1>3, <2>1 DEF HeaderBase
  <2>3. /\ contents' \in Seq(Places) /\ Len(contents') = FruBlock
        /\ \A i \in 1..FruBlock : contents'[i] = buffer[i]
    BY <1>4, <1>8, <1>13, BufferIs
  <2>4. ASSUME NEW i \in 1..FruBlock PROVE contents'[i] = HeaderBase + i - 1
    <3>1. i \in 1..CacheBlock /\ i <= FruBlock
      BY <1>4, <2>4, BlocksAssumption
    <3>2. buffer[i] = base + i - 1 /\ contents'[i] = buffer[i]
      BY <1>8, <2>3, <2>4, <3>1
    <3>3. QED
      BY <2>2, <3>2
  <2>5. contents' = [i \in 1..FruBlock |-> contents'[i]]
    BY <2>3
  <2>6. Positions(contents', HeaderBase)
    BY <2>3, <2>4, <2>5 DEF Positions
  <2>7. area' = 1 /\ fruLength' = FruBlock /\ base' = HeaderBase
    BY <1>3, <1>10, <1>13, <2>2
  <2>8. fruLength' = Longest[area' - 1]
    BY <2>7, LongestGrows DEF ContentsTyped
  <2>9. QED
    BY <1>13, <2>6, <2>7, <2>8 DEF ExactNext, IsExact
<1>14. CASE /\ step' = "other" /\ base' = OtherBase
            /\ step = "header" /\ Byte(buffer[1]) = 2
  <2>1. HeaderBase = OtherBase
    BY <1>3, <1>9, <1>14 DEF HeaderBase
  <2>2. QED
    BY <1>3, <1>10, <1>14, <2>1 DEF ExactNext, IsExact
<1>15. QED
  BY <1>11, <1>12, <1>13, <1>14

LEMMA WalkAreasIsExact ==
    ASSUME ContentsTyped, ExactSoFar, Fits, SameEeprom, WalkAreas(FALSE)
    PROVE  ExactNext
<1>1. PICK start : start = Byte(contents[area + 1])
  OBVIOUS
<1>2. PICK r : r = Read(At(start * FruBlock), 2, FALSE)
  OBVIOUS
<1>3. PICK end : end = (start + Byte(blockData'[2])) * FruBlock
  OBVIOUS
<1>4. /\ step = "areas" /\ area \in 1..Areas + 1 /\ Len(contents) = FruBlock
      /\ Positions(contents, HeaderBase) /\ base = HeaderBase
      /\ fruLength \in Nat /\ fruLength = Longest[area - 1]
      /\ image \in Images /\ Areas \in Nat /\ FruBlock \in Nat /\ FruBlock > Areas + 1
  BY BlocksAssumption DEF WalkAreas, ContentsTyped, ExactSoFar, IsExact
<1>5. start = Start(area)
  <2>1. area + 1 \in 1..Len(contents)
    BY <1>4
  <2>2. contents[area + 1] = HeaderBase + (area + 1) - 1
    BY <1>4, <2>1 DEF Positions
  <2>3. HeaderBase + (area + 1) - 1 = HeaderBase + area
    BY <1>4, FitsIs
  <2>4. QED
    BY <1>1, <2>2, <2>3 DEF Start
<1>6. start \in Nat /\ start * FruBlock \in 0..Limit /\ (start # 0 <=> area \in Present)
  BY <1>4, <1>5, StartIs DEF Present
<1>7. /\ area \in Present => Longest[area] = Greater(End(area), fruLength)
      /\ area \notin Present => Longest[area] = fruLength
      /\ Longest[Areas + 1] = ClaimedLength /\ ClaimedLength \in Nat
  BY <1>4, LongestGrows
<1>8. \/ step' = "empty"
      \/ /\ start = 0
         /\ area' = (IF IsMultirecord(area) THEN area ELSE area + 1)
         /\ step' = (IF IsMultirecord(area) THEN "data" ELSE step)
         /\ UNCHANGED <<base, fruLength, contents>>
      \/ /\ start # 0 /\ IsMultirecord(area)
         /\ step' = "records" /\ offset' = start * FruBlock
         /\ UNCHANGED <<base, fruLength, contents>>
      \/ /\ start # 0 /\ ~IsMultirecord(area) /\ Took(r)
         /\ fruLength' = Extended(end) /\ area' = area + 1 /\ UNCHANGED <<step, contents, base>>
  BY <1>1, <1>2, <1>3 DEF WalkAreas, Empty
<1>9. CASE step' = "empty"
  BY <1>9, EmptyIsExact
<1>10. CASE /\ start = 0
            /\ area' = (IF IsMultirecord(area) THEN area ELSE area + 1)
            /\ step' = (IF IsMultirecord(area) THEN "data" ELSE step)
            /\ UNCHANGED <<base, fruLength, contents>>
  <2>1. Longest[area] = fruLength
    BY <1>6, <1>7, <1>10
  <2>2. CASE IsMultirecord(area)
    <3>1. area = Areas + 1
      BY <1>4, <2>2 DEF IsMultirecord
    <3>2. fruLength' = ClaimedLength /\ step' = "data"
      BY <1>7, <1>10, <2>1, <2>2, <3>1
    <3>3. QED
      BY <1>4, <1>10, <3>2 DEF ExactNext, IsExact
  <2>3. CASE ~IsMultirecord(area)
    <3>1. area' - 1 = area /\ step' = "areas"
      BY <1>4, <1>10, <2>3
    <3>2. QED
      BY <1>4, <1>10, <2>1, <3>1 DEF ExactNext, IsExact
  <2>4. QED
    BY <2>2, <2>3
<1>11. CASE /\ start # 0 /\ IsMultirecord(area)
            /\ step' = "records" /\ offset' = start * FruBlock
            /\ UNCHANGED <<base, fruLength, contents>>
  <2>1. area = Areas + 1 /\ area > Areas /\ area \in Present
    BY <1>4, <1>6, <1>11 DEF IsMultirecord
  <2>2. End(area) = RecordsEnd[offset'] /\ offset' \in 0..Limit
    BY <1>5, <1>6, <1>11, <2>1 DEF End
  <2>3. RecordsEnd[offset'] \in Nat
    BY <1>4, <2>2, RecordsGrow
  <2>4. Greater(fruLength, RecordsEnd[offset']) = ClaimedLength
    BY <1>4, <1>7, <2>1, <2>2, <2>3 DEF Greater
  <2>5. QED
    BY <1>4, <1>11, <2>2, <2>4 DEF ExactNext, IsExact
<1>12. CASE /\ start # 0 /\ ~IsMultirecord(area) /\ Took(r)
            /\ fruLength' = Extended(end) /\ area' = area + 1 /\ UNCHANGED <<step, contents, base>>
  <2>1. area \in Present /\ ~(area > Areas)
    BY <1>6, <1>12 DEF IsMultirecord
  <2>2. PICK at \in Nat : at = HeaderBase + start * FruBlock
    BY <1>6, FitsIs, SizesAssumption
  <2>3. at + 2 <= eepromSize /\ At(start * FruBlock) = at
    BY <1>4, <1>5, <2>1, <2>2, FitsIs DEF At
  <2>4. 2 \in 1..CacheBlock
    BY BlocksAssumption
  <2>5. \A k \in 1..2 : blockData'[k] = at + k - 1
    BY <1>2, <1>12, <2>3, <2>4, FullyTook
  <2>6. blockData'[2] = HeaderBase + start * FruBlock + 1
    BY <2>2, <2>5
  <2>7. end = End(area)
    BY <1>3, <1>5, <2>1, <2>6 DEF End, AreaEnd
  <2>8. fruLength' = Longest[area]
    BY <1>7, <1>12, <2>1, <2>7 DEF Extended
  <2>9. area' - 1 = area /\ step' = "areas"
    BY <1>4, <1>12
  <2>10. QED
    BY <1>4, <1>12, <2>8, <2>9 DEF ExactNext, IsExact
<1>13. QED
  BY <1>8, <1>9, <1>10, <1>11, <1>12

LEMMA WalkRecordsIsExact ==
    ASSUME ContentsTyped, ExactSoFar, Fits, SameEeprom, WalkRecords(FALSE)
    PROVE  ExactNext
<1>1. PICK r : r = Read(At(offset), 3, FALSE)
  OBVIOUS
<1>2. PICK end : end = offset + Byte(blockData'[3]) + RecordHeader
  OBVIOUS
<1>3. /\ step = "records" /\ Positions(contents, HeaderBase) /\ base = HeaderBase
      /\ fruLength \in Nat /\ offset \in 0..Limit /\ image \in Images
      /\ Greater(fruLength, RecordsEnd[offset]) = ClaimedLength
  BY DEF WalkRecords, ContentsTyped, ExactSoFar, IsExact
<1>4. /\ Took(r) /\ base' = base /\ area' = area
      /\ \/ step' = "empty"
         \/ /\ offset' = end /\ fruLength' = Extended(end) /\ contents' = contents
            /\ step' = (IF Byte(blockData'[2]) = 1 \/ end >= Limit - 1 THEN "data" ELSE step)
  BY <1>1, <1>2 DEF WalkRecords, Empty
<1>5. /\ RecordEnd(offset) \in Nat /\ RecordEnd(offset) >= offset + 3
      /\ RecordsEnd[offset] \in Nat /\ RecordsEnd[offset] >= RecordEnd(offset)
  BY <1>3, RecordIs, RecordsGrow
<1>6. PICK at \in Nat : at = HeaderBase + offset
  BY <1>3, FitsIs, SizesAssumption
<1>7. at + 3 <= eepromSize
  <2>1. offset + 3 <= ClaimedLength
    BY <1>3, <1>5, SizesAssumption DEF Greater
  <2>2. QED
    BY <1>3, <1>6, <2>1, FitsIs, SizesAssumption
<1>8. At(offset) = at /\ 3 \in 1..CacheBlock
  BY <1>3, <1>6, BlocksAssumption DEF At
<1>9. \A k \in 1..3 : blockData'[k] = at + k - 1
  BY <1>1, <1>4, <1>7, <1>8, FullyTook
<1>10. blockData'[2] = HeaderBase + offset + 1 /\ blockData'[3] = HeaderBase + offset + 2
  BY <1>6, <1>9
<1>11. end = RecordEnd(offset)
  BY <1>2, <1>10 DEF RecordEnd
<1>12. (Byte(blockData'[2]) = 1 \/ end >= Limit - 1) <=> IsLast(offset)
  BY <1>10, <1>11 DEF IsLast
<1>13. RecordsEnd[offset] = IF IsLast(offset) THEN end ELSE RecordsEnd[end]
  BY <1>3, <1>11, RecordsEndIs
<1>14. CASE step' = "empty"
  BY <1>14, EmptyIsExact
<1>15. CASE /\ offset' = end /\ fruLength' = Extended(end) /\ contents' = contents
            /\ step' = (IF Byte(blockData'[2]) = 1 \/ end >= Limit - 1 THEN "data" ELSE step)
  <2>1. CASE IsLast(offset)
    <3>1. fruLength' = ClaimedLength
      BY <1>3, <1>5, <1>11, <1>13, <1>15, <2>1 DEF Extended, Greater
    <3>2. step' = "data"
      BY <1>12, <1>15, <2>1
    <3>3. QED
      BY <1>3, <1>4, <1>15, <3>1, <3>2 DEF ExactNext, IsExact
  <2>2. CASE ~IsLast(offset)
    <3>1. end \in 0..Limit
      BY <1>3, <1>11, <2>2, RecordIs
    <3>2. /\ RecordEnd(end) \in Nat /\ RecordEnd(end) >= end + 3
          /\ RecordsEnd[end] \in Nat /\ RecordsEnd[end] >= RecordEnd(end)
      BY <1>3, <3>1, RecordIs, RecordsGrow
    <3>3. RecordsEnd[offset] = RecordsEnd[end] /\ end <= RecordsEnd[end] /\ end \in Nat
      BY <1>13, <2>2, <3>1, <3>2, SizesAssumption
    <3>4. Greater(Extended(end), RecordsEnd[end]) = ClaimedLength
      BY <1>3, <3>2, <3>3 DEF Extended, Greater
    <3>5. step' = "records"
      BY <1>3, <1>12, <1>15, <2>2
    <3>6. QED
      BY <1>3, <1>4, <1>15, <3>1, <3>4, <3>5 DEF ExactNext, IsExact
  <2>3. QED
    BY <2>1, <2>2
<1>16. QED
  BY <1>4, <1>14, <1>15

LEMMA PlacesAreNumbers ==
    ASSUME NEW s \in Seq(Places)
    PROVE  s \in Seq(Int)
<1>1. Len(s) \in Nat /\ s = [k \in 1..Len(s) |-> s[k]] /\ \A k \in 1..Len(s) : s[k] \in Places
  OBVIOUS
<1>2. \A k \in 1..Len(s) : s[k] \in Int
  BY <1>1, SizesAssumption DEF Places
<1>3. QED
  BY <1>1, <1>2

LEMMA ReadChunkIsExact ==
    ASSUME ContentsTyped, ExactSoFar, Fits, SameEeprom, ReadChunk(FALSE)
    PROVE  ExactNext
<1>1. PICK request : request = Lesser(CacheBlock, fruLength - Len(contents))
  OBVIOUS
<1>2. PICK r : r = Read(At(Len(contents)), request, FALSE)
  OBVIOUS
<1>3. /\ step = "data" /\ Positions(contents, HeaderBase) /\ base = HeaderBase
      /\ fruLength = ClaimedLength /\ contents \in Seq(Places) /\ HeaderBase \in Nat
  BY FitsIs DEF ReadChunk, ContentsTyped, ExactSoFar, IsExact
<1>4. /\ \/ fruLength = Len(contents) /\ step' = "tail" /\ contents' = contents
         \/ step' = "empty"
         \/ /\ fruLength # Len(contents) /\ Took(r)
            /\ contents' = contents \o SubSeq(blockData', 1, request) /\ step' = step
      /\ UNCHANGED walk
  BY <1>1, <1>2 DEF ReadChunk, Empty
<1>5. CASE fruLength = Len(contents) /\ step' = "tail" /\ contents' = contents
  BY <1>3, <1>4, <1>5 DEF ExactNext, IsExact, walk
<1>6. CASE step' = "empty"
  BY <1>6, EmptyIsExact
<1>7. CASE /\ fruLength # Len(contents) /\ Took(r)
           /\ contents' = contents \o SubSeq(blockData', 1, request) /\ step' = step
  <2>1. PICK n \in Nat : n = Len(contents)
    BY <1>3
  <2>2. request \in 1..CacheBlock /\ n + request <= fruLength
    BY <1>1, <1>3, <1>7, <2>1, ChunkIs
  <2>3. PICK at \in Nat : at = HeaderBase + n
    BY <1>3
  <2>4. At(Len(contents)) = at
    BY <1>3, <2>1, <2>3 DEF At
  <2>5. at + request <= eepromSize
    BY <1>3, <2>2, <2>3, FitsIs, BlocksAssumption
  <2>6. \A k \in 1..request : blockData'[k] = at + k - 1
    BY <1>2, <1>7, <2>2, <2>4, <2>5, FullyTook
  <2>7. blockData' \in Buffers /\ request \in 0..CacheBlock
    <3>1. request \in Nat /\ request > 0
      BY <2>2, BlocksAssumption
    <3>2. Took(Read(at, request, FALSE))
      BY <1>2, <1>7, <2>4
    <3>3. blockData' \in Buffers
      BY <3>1, <3>2, TookIsTyped
    <3>4. QED
      BY <2>2, <3>1, <3>3, BlocksAssumption
  <2>8. PICK chunk : chunk = SubSeq(blockData', 1, request)
    OBVIOUS
  <2>9. /\ chunk \in Seq(Places) /\ Len(chunk) = request
        /\ \A i \in 1..request : chunk[i] = blockData'[i]
    BY <2>7, <2>8, BufferIs
  <2>10. Continues(chunk, HeaderBase + Len(contents))
    <3>1. chunk \in Seq(Int)
      BY <2>9, PlacesAreNumbers
    <3>2. ASSUME NEW k \in 1..Len(chunk) PROVE chunk[k] = HeaderBase + Len(contents) + k - 1
      <4>1. k \in 1..request
        BY <2>9, <3>2
      <4>2. chunk[k] = blockData'[k] /\ blockData'[k] = at + k - 1
        BY <2>6, <2>9, <4>1
      <4>3. QED
        BY <2>1, <2>3, <4>2
    <3>3. QED
      BY <3>1, <3>2 DEF Continues
  <2>11. Positions(contents \o chunk, HeaderBase)
    BY <1>3, <2>10, PositionsGrow
  <2>12. QED
    BY <1>3, <1>4, <1>7, <2>8, <2>11 DEF ExactNext, IsExact, walk
<1>8. QED
  BY <1>4, <1>5, <1>6, <1>7

LEMMA ReadTailIsExact ==
    ASSUME ContentsTyped, ExactSoFar, Fits, SameEeprom, ReadTail(FALSE)
    PROVE  ExactNext
<1>1. PICK available : available = storageSize - base
  OBVIOUS
<1>2. PICK remaining : remaining = available - Len(contents)
  OBVIOUS
<1>3. PICK r : r = Read(At(Len(contents)), remaining, FALSE)
  OBVIOUS
<1>4. /\ step = "tail" /\ Positions(contents, HeaderBase) /\ base = HeaderBase
      /\ Len(contents) = ClaimedLength /\ contents \in Seq(Places) /\ HeaderBase \in Nat
      /\ storageSize \in Int
  BY FitsIs DEF ReadTail, ContentsTyped, ExactSoFar, IsExact
<1>5. PICK n \in Nat : n = Len(contents)
  BY <1>4
<1>6. available \in Int /\ remaining \in Int /\ available = storageSize - HeaderBase
      /\ available = n + remaining
  BY <1>1, <1>2, <1>4, <1>5
<1>7. /\ \/ step' = "empty"
         \/ (storageSize = -1 \/ remaining = 0) /\ step' = "done" /\ contents' = contents
         \/ /\ ~(storageSize = -1 \/ remaining = 0) /\ ~(available < 0 \/ remaining < 0)
            /\ Len(r.out) = remaining /\ step' = "done" /\ contents' = contents \o r.out
      /\ UNCHANGED walk
  BY <1>1, <1>2, <1>3 DEF ReadTail, Empty
<1>8. base' = HeaderBase /\ storageSize' = storageSize
  BY <1>4, <1>7 DEF SameEeprom, walk
<1>9. CASE step' = "empty"
  BY <1>9, EmptyIsExact
<1>10. CASE (storageSize = -1 \/ remaining = 0) /\ step' = "done" /\ contents' = contents
  <2>1. Len(contents') = IF storageSize' = -1 THEN ClaimedLength ELSE storageSize' - HeaderBase
    <3>1. CASE storageSize = -1
      BY <1>4, <1>8, <1>10, <3>1
    <3>2. CASE storageSize # -1
      <4>1. n = storageSize - HeaderBase
        BY <1>6, <1>10, <3>2
      <4>2. QED
        BY <1>5, <1>8, <1>10, <3>2, <4>1
    <3>3. QED
      BY <3>1, <3>2
  <2>2. QED
    BY <1>4, <1>8, <1>10, <2>1 DEF ExactNext, IsExact
<1>11. CASE /\ ~(storageSize = -1 \/ remaining = 0) /\ ~(available < 0 \/ remaining < 0)
            /\ Len(r.out) = remaining /\ step' = "done" /\ contents' = contents \o r.out
  <2>1. remaining \in Nat /\ remaining > 0
    BY <1>6, <1>11
  <2>2. PICK at \in Nat : at = HeaderBase + n
    BY <1>4
  <2>3. At(Len(contents)) = at
    BY <1>4, <1>5, <2>2 DEF At
  <2>4. r.out \in Seq(Places) /\ Positions(r.out, at)
    BY <1>3, <2>1, <2>3, ReadIsTyped DEF ContentsTyped
  <2>5. Continues(r.out, HeaderBase + Len(contents))
    <3>1. r.out \in Seq(Int)
      BY <2>4, PlacesAreNumbers
    <3>2. ASSUME NEW k \in 1..Len(r.out)
          PROVE  r.out[k] = HeaderBase + Len(contents) + k - 1
      <4>1. r.out[k] = at + k - 1
        BY <2>4, <3>2 DEF Positions
      <4>2. QED
        BY <1>5, <2>2, <4>1
    <3>3. QED
      BY <3>1, <3>2 DEF Continues
  <2>6. Positions(contents \o r.out, HeaderBase) /\ Len(contents \o r.out) = n + remaining
    <3>1. Len(contents \o r.out) = Len(contents) + Len(r.out) /\ Positions(contents \o r.out, HeaderBase)
      BY <1>4, <2>5, PositionsGrow
    <3>2. QED
      BY <1>5, <1>11, <3>1
  <2>7. Len(contents') = storageSize' - HeaderBase /\ storageSize' # -1
    BY <1>6, <1>8, <1>11, <2>6
  <2>8. QED
    BY <1>8, <1>11, <2>6, <2>7 DEF ExactNext, IsExact
<1>12. QED
  BY <1>7, <1>9, <1>10, <1>11

\* The EEPROM that holds a FRU after it has shrunk held it before.
LEMMA ShrinkIsExact ==
    ASSUME ContentsTyped, Shrink, Fits'
    PROVE  /\ Fits
           /\ ExactSoFar => ExactSoFar'
<1>1. /\ ClaimedLength' = ClaimedLength /\ HeaderBase' = HeaderBase
      /\ Longest' = Longest /\ RecordsEnd' = RecordsEnd
  BY SameFru DEF Shrink
<1>2. Present' = Present /\ \A a : Start(a)' = Start(a)
  BY DEF Shrink, Present, Start, HeaderBase, Byte
<1>3. /\ HeaderBase + ClaimedLength <= eepromSize'
      /\ \A a \in Present : HeaderBase + Start(a) * FruBlock + 2 <= eepromSize'
  BY <1>1, <1>2 DEF Fits, Shrink, Present, Start, HeaderBase, Byte
<1>4. /\ eepromSize' \in Nat /\ eepromSize \in Nat /\ eepromSize' < eepromSize
      /\ image \in Images /\ HeaderBase \in Nat /\ ClaimedLength \in Nat
  BY SizesAssumption, HeaderIs, LongestGrows DEF ContentsTyped, CacheIsTrue, Shrink
<1>5. HeaderBase + ClaimedLength <= eepromSize
  BY <1>3, <1>4
<1>6. ASSUME NEW a \in Present PROVE HeaderBase + Start(a) * FruBlock + 2 <= eepromSize
  <2>1. Start(a) * FruBlock \in Nat
    BY <1>4, <1>6, StartIs, SizesAssumption DEF Present
  <2>2. QED
    BY <1>3, <1>4, <1>6, <2>1
<1>7. Fits
  BY <1>5, <1>6 DEF Fits
<1>8. ExactSoFar => ExactSoFar'
  BY <1>1 DEF Shrink, walk, ExactSoFar, IsExact, Positions
<1>9. QED
  BY <1>7, <1>8

ContentsExact == ContentsTyped /\ (~failed /\ Fits => ExactSoFar)

LEMMA ContentsInitExact ==
    ASSUME ContentsInit
    PROVE  ContentsExact
<1>1. ExactSoFar
  BY DEF ContentsInit, ExactSoFar, IsExact
<1>2. QED
  BY <1>1, ContentsInitTypes DEF ContentsExact

LEMMA NextIsExact ==
    ASSUME ContentsExact, [ContentsNext]_contentsVars
    PROVE  ContentsExact'
<1>1. ContentsTyped /\ ContentsTyped' /\ (~failed /\ Fits => ExactSoFar)
  BY NextTypes DEF ContentsExact
<1>2. CASE Shrink
  <2>1. failed' = failed
    BY <1>2 DEF Shrink
  <2>2. QED
    BY <1>1, <1>2, <2>1, ShrinkIsExact DEF ContentsExact
<1>3. ASSUME NEW fails \in BOOLEAN,
             FindHeader(fails) \/ WalkAreas(fails) \/ WalkRecords(fails)
                \/ ReadChunk(fails) \/ ReadTail(fails),
             failed' = (failed \/ fails),
             UNCHANGED <<image, eepromSize, shrunk, storageSize>>
      PROVE  ContentsExact'
  <2>1. SUFFICES ASSUME ~failed', Fits' PROVE ExactSoFar'
    BY <1>1 DEF ContentsExact
  <2>2. ~failed /\ fails = FALSE
    BY <1>3, <2>1
  <2>3. SameEeprom
    BY <1>3 DEF SameEeprom
  <2>4. Fits
    BY <2>1, <2>3, SameFru DEF SameEeprom
  <2>5. ExactSoFar
    BY <1>1, <2>2, <2>4
  <2>6. FindHeader(FALSE) \/ WalkAreas(FALSE) \/ WalkRecords(FALSE)
           \/ ReadChunk(FALSE) \/ ReadTail(FALSE)
    BY <1>3, <2>2
  <2>7. ExactNext
    BY <1>1, <2>3, <2>4, <2>5, <2>6, FindHeaderIsExact, WalkAreasIsExact,
       WalkRecordsIsExact, ReadChunkIsExact, ReadTailIsExact
  <2>8. QED
    BY <2>3, <2>7, ExactIsNext
<1>4. CASE UNCHANGED contentsVars
  <2>1. SameEeprom /\ failed' = failed /\ eepromSize' = eepromSize /\ image' = image
    BY <1>4 DEF contentsVars, SameEeprom
  <2>2. Fits' = Fits
    BY <2>1, SameFru
  <2>3. ExactSoFar => ExactNext
    BY <1>4 DEF contentsVars, walk, ExactSoFar, ExactNext
  <2>4. QED
    BY <1>1, <2>1, <2>2, <2>3, ExactIsNext DEF ContentsExact
<1>5. QED
  BY <1>2, <1>3, <1>4 DEF ContentsNext

\* A FRU the EEPROM holds in full is returned byte for byte unless an access
\* fails, whatever was cached and wherever the blocks break.
THEOREM FittingIsReadExactly == ContentsSpec => []FittingIsExact
<1>1. ContentsInit => ContentsExact
  BY ContentsInitExact
<1>2. ContentsExact /\ [ContentsNext]_contentsVars => ContentsExact'
  BY NextIsExact
<1>3. ContentsExact => FittingIsExact
  BY DEF ContentsExact, ExactSoFar, IsExact, Positions, FittingIsExact
<1>4. QED
  BY <1>1, <1>2, <1>3, PTL DEF ContentsSpec

\* The reader's cache never tells of a byte that the EEPROM did not hold there.
THEOREM CacheHoldsTheEeprom == ContentsSpec => []CacheIsTrue(cache, eof)
<1>1. ContentsInit => ContentsTyped
  BY ContentsInitTypes
<1>2. ContentsTyped /\ [ContentsNext]_contentsVars => ContentsTyped'
  BY NextTypes
<1>3. ContentsTyped => CacheIsTrue(cache, eof)
  BY DEF ContentsTyped
<1>4. QED
  BY <1>1, <1>2, <1>3, PTL DEF ContentsSpec

=============================================================================
