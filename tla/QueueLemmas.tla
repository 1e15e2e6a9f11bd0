---------------------------- MODULE QueueLemmas ----------------------------
(***************************************************************************)
(* What a FIFO of posted handlers holds after its head is taken and after  *)
(* more handlers joined its end, and what listing a finite set gives.      *)
(***************************************************************************)
EXTENDS SequencesExt, SequenceTheorems, FiniteSetTheorems, TLAPS

\* A queue holds its head and what is behind it.
LEMMA HeadAndTail ==
    ASSUME NEW S, NEW s \in Seq(S), s # <<>>
    PROVE  /\ Head(s) \in S
           /\ Tail(s) \in Seq(S)
           /\ Range(s) = {Head(s)} \cup Range(Tail(s))
<1>1. Head(s) \in S /\ Tail(s) \in Seq(S)
  BY HeadTailProperties
<1>2. <<Head(s)>> \in Seq(S) /\ Range(<<Head(s)>>) = {Head(s)}
  <2>1. <<Head(s)>> \in Seq(S)
    BY <1>1
  <2>2. Range(<<Head(s)>>) = {<<Head(s)>>[i] : i \in 1..Len(<<Head(s)>>)}
    BY <2>1, RangeEquality
  <2>3. QED
    BY <2>1, <2>2
<1>3. s = <<Head(s)>> \o Tail(s)
  OBVIOUS
<1>4. Range(<<Head(s)>> \o Tail(s)) = Range(<<Head(s)>>) \cup Range(Tail(s))
  <2>1. \A t, u \in Seq(S) : Range(t \o u) = Range(t) \cup Range(u)
    BY RangeConcatenation
  <2>2. QED
    BY <1>1, <1>2, <2>1
<1>5. QED
  BY <1>1, <1>2, <1>3, <1>4

\* One more handler at the end.
LEMMA RangeAppend ==
    ASSUME NEW S, NEW s \in Seq(S), NEW e \in S
    PROVE  /\ Append(s, e) \in Seq(S)
           /\ Range(Append(s, e)) = Range(s) \cup {e}
<1>1. <<e>> \in Seq(S)
  OBVIOUS
<1>2. Range(<<e>>) = {<<e>>[i] : i \in 1..Len(<<e>>)}
  BY <1>1, RangeEquality
<1>3. Range(<<e>>) = {e}
  BY <1>2
<1>4. Append(s, e) = s \o <<e>>
  BY AppendIsConcat
<1>5. Range(s \o <<e>>) = Range(s) \cup Range(<<e>>)
  BY <1>1, RangeConcatenation
<1>6. Append(s, e) \in Seq(S)
  BY AppendProperties
<1>7. QED
  BY <1>3, <1>4, <1>5, <1>6

\* Taking the head and posting others: the queue holds the rest and these.
LEMMA RangeDispatch ==
    ASSUME NEW S, NEW s \in Seq(S), s # <<>>, NEW p \in Seq(S)
    PROVE  /\ Tail(s) \o p \in Seq(S)
           /\ Range(Tail(s) \o p) = Range(Tail(s)) \cup Range(p)
           /\ Range(s) = {Head(s)} \cup Range(Tail(s))
<1>1. Tail(s) \in Seq(S) /\ Range(s) = {Head(s)} \cup Range(Tail(s))
  BY HeadAndTail
<1>2. Tail(s) \o p \in Seq(S)
  BY <1>1, ConcatProperties
<1>3. Range(Tail(s) \o p) = Range(Tail(s)) \cup Range(p)
  <2>1. \A t \in Seq(S) : Range(t \o p) = Range(t) \cup Range(p)
    BY RangeConcatenation
  <2>2. QED
    BY <1>1, <2>1
<1>4. QED
  BY <1>1, <1>2, <1>3

\* No handler is in an empty queue, and one or two are in one of that length.
LEMMA RangeShort ==
    /\ Range(<<>>) = {}
    /\ \A x : Range(<<x>>) = {x}
    /\ \A x, y : Range(<<x, y>>) = {x, y}
<1>1. Range(<<>>) = {}
  BY DEF Range
<1>2. ASSUME NEW x PROVE Range(<<x>>) = {x}
  BY DOMAIN <<x>> = {1} DEF Range
<1>3. ASSUME NEW x, NEW y PROVE Range(<<x, y>>) = {x, y}
  BY DOMAIN <<x, y>> = {1, 2} DEF Range
<1>4. QED
  BY <1>1, <1>2, <1>3

\* Where the handlers stand after the head is taken.
LEMMA TailAt ==
    ASSUME NEW S, NEW s \in Seq(S), s # <<>>
    PROVE  /\ Len(s) \in Nat /\ 1 \in 1..Len(s) /\ Head(s) = s[1]
           /\ Len(Tail(s)) = Len(s) - 1
           /\ \A i \in 1..Len(Tail(s)) : i + 1 \in 1..Len(s) /\ Tail(s)[i] = s[i + 1]
BY HeadTailProperties

\* Where they stand after one more joined the end.
LEMMA AppendAt ==
    ASSUME NEW S, NEW s \in Seq(S), NEW e \in S
    PROVE  /\ Len(s) \in Nat /\ Len(Append(s, e)) = Len(s) + 1
           /\ \A i \in 1..Len(s) : Append(s, e)[i] = s[i]
           /\ Append(s, e)[Len(s) + 1] = e
           /\ \A i \in 1..Len(Append(s, e)) : i \in 1..Len(s) \/ i = Len(s) + 1
BY AppendProperties

\* A handler is queued when it stands somewhere.
LEMMA RangeAt ==
    ASSUME NEW S, NEW s \in Seq(S)
    PROVE  /\ Range(s) \subseteq S
           /\ \A i \in 1..Len(s) : s[i] \in Range(s)
           /\ \A e \in Range(s) : \E i \in 1..Len(s) : s[i] = e
BY RangeEquality, ElementOfSeq

\* Posting one or two handlers is joining the end once or twice.
LEMMA PostedAre ==
    ASSUME NEW S, NEW s \in Seq(S), NEW a \in S, NEW b \in S
    PROVE  /\ s \o <<>> = s
           /\ s \o <<a>> = Append(s, a)
           /\ s \o <<a, b>> = Append(Append(s, a), b)
OBVIOUS

\* A finite set listed in some order: every element stands somewhere, once.
LEMMA SetToSeqLists ==
    ASSUME NEW S, IsFiniteSet(S)
    PROVE  /\ Cardinality(S) \in Nat
           /\ SetToSeq(S) \in Seq(S)
           /\ Len(SetToSeq(S)) = Cardinality(S)
           /\ \A i \in 1..Cardinality(S) : SetToSeq(S)[i] \in S
           /\ \A e \in S : \E i \in 1..Cardinality(S) : SetToSeq(S)[i] = e
<1> DEFINE D == 1..Cardinality(S)
<1>1. Cardinality(S) \in Nat /\ ExistsBijection(D, S)
  BY FS_CardinalityType
<1>2. \E f \in [D -> S] : IsInjective(f)
  BY <1>1 DEF ExistsBijection, Bijection, Injection
<1>3. SetToSeq(S) \in [D -> S] /\ IsInjective(SetToSeq(S))
  BY <1>2 DEF SetToSeq
<1>4. SetToSeq(S) \in Injection(D, S)
  BY <1>3 DEF Injection
<1>5. Cardinality(D) = Cardinality(S)
  <2>1. Cardinality(1..Cardinality(S)) = IF 1 > Cardinality(S) THEN 0
                                         ELSE Cardinality(S) - 1 + 1
    BY <1>1, FS_Interval
  <2>2. QED
    BY <1>1, <2>1
<1>6. SetToSeq(S) \in Surjection(D, S)
  BY <1>4, <1>5, FS_Injection
<1>7. \A e \in S : \E i \in D : SetToSeq(S)[i] = e
  BY <1>6 DEF Surjection
<1>8. SetToSeq(S) \in Seq(S) /\ Len(SetToSeq(S)) = Cardinality(S)
  BY <1>1, <1>3
<1>9. QED
  BY <1>1, <1>3, <1>7, <1>8


\* A set of naturals that is not empty has a least one.
LEMMA LeastNatural ==
    ASSUME NEW T \in SUBSET Nat, T # {}
    PROVE  \E n \in T : \A m \in T : n <= m
<1> DEFINE R == OpToRel(<, Nat)
<1>1. IsWellFoundedOn(R, Nat)
  BY NatLessThanWellFounded
<1>2. \A m, n \in Nat : <<m, n>> \in R <=> m < n
  BY DEF OpToRel
<1> HIDE DEF R
<1>3. PICK n \in T : \A m \in T : <<m, n>> \notin R
  BY <1>1, WFMin
<1>4. n \in Nat
  OBVIOUS
<1>5. ASSUME NEW m \in T PROVE n <= m
  <2>1. m \in Nat
    OBVIOUS
  <2>2. ~(m < n)
    BY <1>2, <1>3, <1>4, <2>1
  <2>3. QED
    BY <1>4, <2>1, <2>2
<1>6. QED
  BY <1>5

\* A bounded set of numbers has a greatest one.
LEMMA BoundedHasMax ==
    ASSUME NEW T \in SUBSET Nat, T # {}, NEW n \in Nat, \A t \in T : t <= n
    PROVE  Max(T) \in T /\ \A t \in T : t <= Max(T)
<1> DEFINE Above == {m \in Nat : \A t \in T : t <= m}
<1>1. PICK m \in Above : \A k \in Above : m <= k
  <2>1. Above \in SUBSET Nat /\ Above # {}
    OBVIOUS
  <2> HIDE DEF Above
  <2>2. QED
    BY <2>1, LeastNatural
<1>2. m \in T
  <2> SUFFICES ASSUME m \notin T PROVE FALSE
    OBVIOUS
  <2>1. PICK t \in T : TRUE
    OBVIOUS
  <2>2. m \in Nat /\ t \in Nat /\ t <= m /\ t # m
    BY <2>1
  <2>3. m - 1 \in Nat
    BY <2>2
  <2>4. \A u \in T : u <= m - 1
    <3> TAKE u \in T
    <3>1. u \in Nat /\ u <= m /\ u # m
      OBVIOUS
    <3>2. QED
      BY <2>2, <3>1
  <2>5. m <= m - 1
    BY <1>1, <2>3, <2>4
  <2>6. QED
    BY <2>2, <2>5
<1>3. \E x \in T : \A y \in T : x >= y
  BY <1>2
<1>4. Max(T) \in T /\ \A t \in T : Max(T) >= t
  BY <1>3 DEF Max
<1>5. QED
  BY <1>4

\* Induction over the naturals up to one of them, on a set.
LEMMA UpTo ==
    ASSUME NEW n \in Nat, NEW T, 0 \in T, \A m \in 0..n - 1 : m \in T => m + 1 \in T
    PROVE  \A m \in 0..n : m \in T
<1> DEFINE Bad == {m \in 0..n : m \notin T}
<1>1. SUFFICES ASSUME Bad # {} PROVE FALSE
  OBVIOUS
<1>2. PICK k \in Bad : \A m \in Bad : k <= m
  <2>1. Bad \in SUBSET Nat
    OBVIOUS
  <2> HIDE DEF Bad
  <2>2. QED
    BY <1>1, <2>1, LeastNatural
<1>3. k \in 0..n /\ k \notin T /\ k # 0
  OBVIOUS
<1>4. k - 1 \in 0..n - 1 /\ k - 1 \in 0..n /\ ~(k <= k - 1) /\ (k - 1) + 1 = k
  BY <1>3
<1>5. k - 1 \in T
  BY <1>2, <1>4
<1>6. QED
  BY <1>3, <1>4, <1>5

\* The k-th member of a set of places.
LEMMA NthPlace ==
    ASSUME NEW n \in Nat, NEW S \in SUBSET (1..n), NEW k \in 1..Cardinality(S)
    PROVE  \E s \in S : Cardinality({t \in S : t <= s}) = k
<1> DEFINE upTo(m) == {t \in S : t <= m}
           T == {m \in 0..n : Cardinality(upTo(m)) >= k}
<1>0. \A t \in S : t \in Nat /\ 1 <= t /\ t <= n
  OBVIOUS
<1>1. IsFiniteSet(S) /\ Cardinality(S) \in Nat
  <2>1. IsFiniteSet(1..n)
    BY FS_Interval
  <2>2. IsFiniteSet(S)
    BY <2>1, FS_Subset
  <2>3. QED
    BY <2>2, FS_CardinalityType
<1>2. \A m : IsFiniteSet(upTo(m)) /\ Cardinality(upTo(m)) \in Nat
  <2>1. \A m : upTo(m) \in SUBSET S
    OBVIOUS
  <2> HIDE DEF upTo
  <2>2. QED
    BY <1>1, <2>1, FS_Subset, FS_CardinalityType
<1>3. k \in Nat /\ 1 <= k /\ k <= Cardinality(S)
  BY <1>1
<1>4. n \in T
  <2>1. upTo(n) = S
    BY <1>0
  <2>2. QED
    BY <1>1, <1>3, <2>1
<1>5. PICK m \in T : \A o \in T : m <= o
  <2>1. T \in SUBSET Nat /\ T # {}
    BY <1>4
  <2> HIDE DEF T
  <2>2. QED
    BY <2>1, LeastNatural
<1>6. m \in 0..n /\ Cardinality(upTo(m)) >= k
  OBVIOUS
<1>7. m # 0
  <2>1. upTo(0) = {}
    <3>1. \A t \in S : ~(t <= 0)
      BY <1>0
    <3>2. QED
      BY <3>1, Zenon
  <2>2. Cardinality(upTo(0)) = 0
    BY <2>1, FS_EmptySet
  <2>3. QED
    BY <1>3, <1>6, <2>2
<1>8. Cardinality(upTo(m - 1)) < k
  <2> HIDE DEF upTo, T
  <2>1. m - 1 \in 0..n /\ m \in Nat /\ ~(m <= m - 1)
    BY <1>6, <1>7
  <2> USE DEF T
  <2>2. m - 1 \notin T
    BY <1>5, <2>1
  <2> HIDE DEF upTo
  <2>3. QED
    BY <1>2, <1>3, <2>1, <2>2
<1>9. upTo(m) = IF m \in S THEN upTo(m - 1) \cup {m} ELSE upTo(m - 1)
  <2>2. m \in Nat
    BY <1>6
  <2>1. ASSUME NEW t \in S PROVE t <= m <=> (t <= m - 1 \/ t = m)
    <3>1. t \in Nat
      BY <1>0
    <3>2. QED
      BY <2>2, <3>1
  <2>3. QED
    BY <2>1, <2>2
<1>10. m \notin upTo(m - 1)
  BY <1>6
<1> HIDE DEF upTo, T
<1>11. m \in S /\ Cardinality(upTo(m)) = Cardinality(upTo(m - 1)) + 1
  <2>1. m \in S
    BY <1>2, <1>3, <1>6, <1>8, <1>9
  <2>2. Cardinality(upTo(m - 1) \cup {m}) = Cardinality(upTo(m - 1)) + 1
    BY <1>2, <1>10, FS_AddElement
  <2>3. QED
    BY <1>9, <2>1, <2>2
<1>12. Cardinality(upTo(m)) = k
  BY <1>2, <1>3, <1>6, <1>8, <1>11
<1>13. QED
  BY <1>11, <1>12 DEF upTo

===============================================================================
