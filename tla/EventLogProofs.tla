--------------------------- MODULE EventLogProofs ---------------------------
(***************************************************************************)
(* EventLog and EventStream for any operations, limits, failures, crashes, *)
(* cut appends and imports: what the history keeps and what a browser sees *)
(* of it.                                                                  *)
(***************************************************************************)
EXTENDS EventStream, SequenceTheorems, FiniteSetTheorems, FunctionTheorems, WellFoundedInduction, TLAPS

(* Facts about sequences.                                                  *)
NoRepeats(s) == \A i, k \in DOMAIN s : s[i] = s[k] => i = k
Incr(s) == \A i, k \in DOMAIN s : i < k => s[i] < s[k]

LEMMA ElemsOf == ASSUME NEW S, NEW s \in Seq(S)
                 PROVE  /\ Elems(s) \subseteq S
                        /\ \A x : x \in Elems(s) <=> \E i \in 1 .. Len(s) : s[i] = x
<1>1. DOMAIN s = 1 .. Len(s) /\ \A i \in 1 .. Len(s) : s[i] \in S
  BY LenProperties, ElementOfSeq
<1> QED BY <1>1, Zenon DEF Elems

LEMMA ElemsEmpty == Elems(<< >>) = {}
BY DEF Elems

LEMMA ElemsCat == ASSUME NEW S, NEW a \in Seq(S), NEW b \in Seq(S)
                  PROVE  a \o b \in Seq(S) /\ Elems(a \o b) = Elems(a) \cup Elems(b)
<1> DEFINE c == a \o b
<1>1. /\ c \in Seq(S) /\ Len(c) = Len(a) + Len(b)
      /\ \A i \in 1 .. Len(a) + Len(b) : c[i] = IF i <= Len(a) THEN a[i] ELSE b[i - Len(a)]
  BY ConcatProperties
<1>2. Len(a) \in Nat /\ Len(b) \in Nat
  BY LenProperties
<1> HIDE DEF c
<1>3. ASSUME NEW x \in Elems(c) PROVE x \in Elems(a) \cup Elems(b)
  <2>1. PICK i \in 1 .. Len(c) : c[i] = x
    BY <1>1, <1>3, ElemsOf
  <2>2. CASE i <= Len(a)
    <3>1. i \in 1 .. Len(a) /\ a[i] = x
      BY <1>1, <1>2, <2>1, <2>2
    <3> QED BY <3>1, ElemsOf
  <2>3. CASE ~(i <= Len(a))
    <3>1. i - Len(a) \in 1 .. Len(b) /\ b[i - Len(a)] = x
      BY <1>1, <1>2, <2>1, <2>3
    <3> QED BY <3>1, ElemsOf
  <2> QED BY <2>2, <2>3
<1>4. ASSUME NEW x \in Elems(a) PROVE x \in Elems(c)
  <2>1. PICK i \in 1 .. Len(a) : a[i] = x
    BY <1>4, ElemsOf
  <2>2. i \in 1 .. Len(c) /\ c[i] = x
    BY <1>1, <1>2, <2>1
  <2> QED BY <1>1, <2>2, ElemsOf
<1>5. ASSUME NEW x \in Elems(b) PROVE x \in Elems(c)
  <2>1. PICK i \in 1 .. Len(b) : b[i] = x
    BY <1>5, ElemsOf
  <2>2. /\ i + Len(a) \in 1 .. Len(a) + Len(b) /\ ~(i + Len(a) <= Len(a))
        /\ (i + Len(a)) - Len(a) = i
    BY <1>2
  <2>3. i + Len(a) \in 1 .. Len(c) /\ c[i + Len(a)] = x
    BY <1>1, <2>1, <2>2
  <2>4. \E k \in 1 .. Len(c) : c[k] = x
    BY <2>3, Zenon
  <2> QED BY <1>1, <2>4, ElemsOf
<1>6. c \in Seq(S) /\ Elems(c) = Elems(a) \cup Elems(b)
  BY <1>1, <1>3, <1>4, <1>5
<1> QED BY <1>6 DEF c

(* The oldest n and the rest are the whole.                                *)
LEMMA Halves == ASSUME NEW S, NEW s \in Seq(S), NEW n \in 0 .. Len(s)
                PROVE  /\ Oldest(s, n) \in Seq(S) /\ Rest(s, n) \in Seq(S)
                       /\ Len(Oldest(s, n)) = n /\ Len(Rest(s, n)) = Len(s) - n
                       /\ Oldest(s, n) \o Rest(s, n) = s
                       /\ \A i \in 1 .. n : Oldest(s, n)[i] = s[i]
                       /\ \A i \in 1 .. (Len(s) - n) : Rest(s, n)[i] = s[n + i]
<1>1. Len(s) \in Nat /\ \A i \in 1 .. Len(s) : s[i] \in S
  BY LenProperties, ElementOfSeq
<1>2. /\ Oldest(s, n) \in Seq(S) /\ Len(Oldest(s, n)) = n
      /\ \A i \in 1 .. n : Oldest(s, n)[i] = s[i]
  <2>1. \A i \in 1 .. n : s[i] \in S
    BY <1>1
  <2> QED BY <1>1, <2>1, SubSeqProperties DEF Oldest
<1>3. /\ Rest(s, n) \in Seq(S) /\ Len(Rest(s, n)) = Len(s) - n
      /\ \A i \in 1 .. (Len(s) - n) : Rest(s, n)[i] = s[n + i]
  <2>1. \A i \in (n + 1) .. Len(s) : s[i] \in S
    BY <1>1
  <2>2. n + 1 \in Int /\ Len(s) \in Int
    BY <1>1
  <2>3. /\ SubSeq(s, n + 1, Len(s)) \in Seq(S)
        /\ Len(SubSeq(s, n + 1, Len(s))) = IF n + 1 <= Len(s) THEN Len(s) - (n + 1) + 1 ELSE 0
        /\ \A i \in 1 .. (Len(s) - (n + 1) + 1) : SubSeq(s, n + 1, Len(s))[i] = s[n + 1 + i - 1]
    BY <2>1, <2>2, SubSeqProperties
  <2> QED BY <1>1, <2>3 DEF Rest
<1>4. Oldest(s, n) \o Rest(s, n) = s
  <2> DEFINE c == Oldest(s, n) \o Rest(s, n)
  <2>1. /\ c \in Seq(S) /\ Len(c) = n + (Len(s) - n)
        /\ \A i \in 1 .. n + (Len(s) - n) : c[i] = IF i <= n THEN Oldest(s, n)[i] ELSE Rest(s, n)[i - n]
    BY <1>2, <1>3, ConcatProperties
  <2> HIDE DEF c
  <2>2. Len(c) = Len(s) /\ \A i \in 1 .. Len(c) : c[i] = s[i]
    BY <1>1, <1>2, <1>3, <2>1
  <2>3. c = s
    BY <2>1, <2>2, SeqEqual
  <2> QED BY <2>3 DEF c
<1> QED BY <1>2, <1>3, <1>4

(* A concatenation increases when its parts do and the second is later.    *)
LEMMA IncrCat == ASSUME NEW a \in Seq(Event), NEW b \in Seq(Event)
                 PROVE  Incr(a \o b) <=> /\ Incr(a) /\ Incr(b)
                                         /\ \A x \in Elems(a), y \in Elems(b) : x < y
<1> DEFINE c == a \o b
<1>1. /\ c \in Seq(Event) /\ Len(c) = Len(a) + Len(b)
      /\ \A i \in 1 .. Len(a) + Len(b) : c[i] = IF i <= Len(a) THEN a[i] ELSE b[i - Len(a)]
  BY ConcatProperties
<1>2. /\ Len(a) \in Nat /\ DOMAIN a = 1 .. Len(a) /\ Len(b) \in Nat /\ DOMAIN b = 1 .. Len(b)
      /\ DOMAIN c = 1 .. Len(a) + Len(b)
  BY <1>1, LenProperties
<1> HIDE DEF c
<1>3. ASSUME Incr(c) PROVE Incr(a)
  BY <1>1, <1>2, <1>3 DEF Incr
<1>4. ASSUME Incr(c) PROVE Incr(b)
  <2> SUFFICES ASSUME NEW i \in DOMAIN b, NEW k \in DOMAIN b, i < k PROVE b[i] < b[k]
    BY DEF Incr
  <2>1. i + Len(a) \in DOMAIN c /\ k + Len(a) \in DOMAIN c /\ i + Len(a) < k + Len(a)
    BY <1>2
  <2>2. c[i + Len(a)] = b[i] /\ c[k + Len(a)] = b[k]
    BY <1>1, <1>2
  <2> QED BY <1>4, <2>1, <2>2 DEF Incr
<1>5. ASSUME Incr(c), NEW x \in Elems(a), NEW y \in Elems(b) PROVE x < y
  <2>1. PICK i \in 1 .. Len(a) : a[i] = x
    BY ElemsOf
  <2>2. PICK k \in 1 .. Len(b) : b[k] = y
    BY ElemsOf
  <2>3. i \in DOMAIN c /\ k + Len(a) \in DOMAIN c /\ i < k + Len(a)
    BY <1>2
  <2>4. c[i] = x /\ c[k + Len(a)] = y
    BY <1>1, <1>2, <2>1, <2>2
  <2> QED BY <1>5, <2>3, <2>4 DEF Incr
<1>6. ASSUME Incr(a), Incr(b), \A x \in Elems(a), y \in Elems(b) : x < y PROVE Incr(c)
  <2> SUFFICES ASSUME NEW i \in DOMAIN c, NEW k \in DOMAIN c, i < k PROVE c[i] < c[k]
    BY DEF Incr
  <2>1. CASE k <= Len(a)
    BY <1>1, <1>2, <1>6, <2>1 DEF Incr
  <2>2. CASE i <= Len(a) /\ ~(k <= Len(a))
    <3>1. i \in 1 .. Len(a) /\ c[i] = a[i] /\ k - Len(a) \in 1 .. Len(b) /\ c[k] = b[k - Len(a)]
      BY <1>1, <1>2, <2>2
    <3>2. c[i] \in Elems(a) /\ c[k] \in Elems(b)
      BY <3>1, ElemsOf
    <3> QED BY <1>6, <3>2
  <2>3. CASE ~(i <= Len(a))
    <3>1. i - Len(a) \in DOMAIN b /\ k - Len(a) \in DOMAIN b /\ i - Len(a) < k - Len(a)
      BY <1>2, <2>3
    <3>2. c[i] = b[i - Len(a)] /\ c[k] = b[k - Len(a)]
      BY <1>1, <1>2, <2>3
    <3> QED BY <1>6, <3>1, <3>2 DEF Incr
  <2> QED BY <1>2, <2>1, <2>2, <2>3
<1> QED BY <1>3, <1>4, <1>5, <1>6 DEF c

(* Places up to i, counted.                                                *)
LEMMA CountUpto ==
    ASSUME NEW P, IsFiniteSet(P), P \subseteq Nat, NEW i \in P
    PROVE  /\ Cardinality(Upto(P, i)) \in 1 .. Cardinality(P)
           /\ \A k \in P : i < k => Cardinality(Upto(P, i)) < Cardinality(Upto(P, k))
<1>1. ASSUME NEW k \in P
      PROVE  /\ IsFiniteSet(Upto(P, k)) /\ Cardinality(Upto(P, k)) <= Cardinality(P)
             /\ Cardinality(Upto(P, k)) \in Nat /\ Cardinality(P) \in Nat
  <2>1. Upto(P, k) \in SUBSET P
    BY DEF Upto
  <2> QED BY <2>1, FS_Subset, FS_CardinalityType
<1>2. i \in Upto(P, i)
  BY DEF Upto
<1>3. Cardinality(Upto(P, i)) # 0
  BY <1>1, <1>2, FS_EmptySet
<1>4. ASSUME NEW k \in P, i < k PROVE Cardinality(Upto(P, i)) < Cardinality(Upto(P, k))
  <2>1. Upto(P, i) \in SUBSET Upto(P, k) /\ k \in Upto(P, k) /\ k \notin Upto(P, i)
    <3>1. i \in Nat /\ k \in Nat /\ ~(k <= i) /\ k <= k
      BY <1>4
    <3>2. \A j \in P : j <= i => j <= k
      BY <1>4, <3>1
    <3> QED BY <3>1, <3>2 DEF Upto
  <2>2. /\ Cardinality(Upto(P, i)) <= Cardinality(Upto(P, k))
        /\ Cardinality(Upto(P, k)) = Cardinality(Upto(P, i)) => Upto(P, k) = Upto(P, i)
    BY <1>1, <2>1, FS_Subset
  <2> QED BY <1>1, <2>1, <2>2
<1> QED BY <1>1, <1>3, <1>4

(* The n-th of the places is one of them, and there are no others.         *)
Place(P, n) == CHOOSE i \in P : Cardinality(Upto(P, i)) = n
LEMMA Places ==
    ASSUME NEW P, IsFiniteSet(P), P \subseteq Nat
    PROVE  /\ Cardinality(P) \in Nat
           /\ \A n \in 1 .. Cardinality(P) : Place(P, n) \in P /\ Cardinality(Upto(P, Place(P, n))) = n
           /\ \A i \in P : Cardinality(Upto(P, i)) \in 1 .. Cardinality(P) /\ Place(P, Cardinality(Upto(P, i))) = i
           /\ \A n, m \in 1 .. Cardinality(P) : n < m => Place(P, n) < Place(P, m)
<1> DEFINE c == Cardinality(P)
           f == [i \in P |-> Cardinality(Upto(P, i))]
<1>1. c \in Nat
  BY FS_CardinalityType
<1>2. \A i \in P : f[i] = Cardinality(Upto(P, i)) /\ f[i] \in 1 .. c
  BY CountUpto
<1>3. \A i, k \in P : i < k => f[i] < f[k]
  BY CountUpto
<1> HIDE DEF c
<1>4. f \in Injection(P, 1 .. c)
  <2>1. f \in [P -> 1 .. c]
    BY <1>2
  <2>2. \A i, k \in P : f[i] = f[k] => i = k
    <3> SUFFICES ASSUME NEW i \in P, NEW k \in P, f[i] = f[k] PROVE i = k
      OBVIOUS
    <3>1. f[i] \in Nat /\ f[k] \in Nat /\ i \in Nat /\ k \in Nat
      BY <1>2
    <3>2. ~(i < k) /\ ~(k < i)
      BY <1>3, <3>1
    <3> QED BY <3>1, <3>2
  <2> QED BY <2>1, <2>2 DEF Injection, IsInjective
<1>5. f \in Surjection(P, 1 .. c)
  <2>1. IsFiniteSet(1 .. c) /\ Cardinality(1 .. c) = c
    BY <1>1, FS_Interval
  <2> QED BY <1>4, <2>1, FS_Injection DEF c
<1>6. \A n \in 1 .. c : \E i \in P : f[i] = n
  BY <1>5 DEF Surjection
<1>7. \A n \in 1 .. c : Place(P, n) \in P /\ f[Place(P, n)] = n
  BY <1>2, <1>6 DEF Place
<1>8. \A i \in P : Place(P, f[i]) = i
  BY <1>2, <1>4, <1>7 DEF Injection, IsInjective
<1>9. ASSUME NEW n \in 1 .. c, NEW m \in 1 .. c, n < m PROVE Place(P, n) < Place(P, m)
  <2>1. Place(P, n) \in Nat /\ Place(P, m) \in Nat
    BY <1>7
  <2>2. ~(Place(P, m) < Place(P, n)) /\ Place(P, m) # Place(P, n)
    <3>1. Place(P, n) \in P /\ f[Place(P, n)] = n /\ Place(P, m) \in P /\ f[Place(P, m)] = m
      BY <1>7
    <3> HIDE DEF f
    <3>2. Place(P, m) < Place(P, n) => f[Place(P, m)] < f[Place(P, n)]
      BY <1>3, <3>1
    <3>3. ~(m < n) /\ m # n
      BY <1>1, <1>9
    <3> QED BY <3>1, <3>2, <3>3
  <2> QED BY <2>1, <2>2
<1> QED BY <1>1, <1>2, <1>7, <1>8, <1>9 DEF c

(* What is picked: the elements at the places, in order.                   *)
LEMMA PickedIs ==
    ASSUME NEW S, NEW s \in Seq(S), NEW P \in SUBSET DOMAIN s
    PROVE  /\ Picked(s, P) \in Seq(S) /\ Len(Picked(s, P)) = Cardinality(P)
           /\ Elems(Picked(s, P)) = {s[i] : i \in P}
           /\ \A n, m \in DOMAIN Picked(s, P) : n < m =>
                 \E i, k \in P : i < k /\ Picked(s, P)[n] = s[i] /\ Picked(s, P)[m] = s[k]
<1>0. Len(s) \in Nat /\ DOMAIN s = 1 .. Len(s) /\ \A i \in 1 .. Len(s) : s[i] \in S
  BY LenProperties, ElementOfSeq
<1>1. IsFiniteSet(P) /\ P \subseteq Nat
  <2>1. P \in SUBSET (1 .. Len(s)) /\ IsFiniteSet(1 .. Len(s))
    BY <1>0, FS_Interval
  <2>2. IsFiniteSet(P)
    BY <2>1, FS_Subset
  <2> QED BY <2>1, <2>2
<1> DEFINE c == Cardinality(P)
           p == Picked(s, P)
<1>2. /\ c \in Nat
      /\ \A n \in 1 .. c : Place(P, n) \in P
      /\ \A i \in P : Cardinality(Upto(P, i)) \in 1 .. c /\ Place(P, Cardinality(Upto(P, i))) = i
      /\ \A n, m \in 1 .. c : n < m => Place(P, n) < Place(P, m)
  BY <1>1, Places
<1>3. p = [n \in 1 .. c |-> s[Place(P, n)]]
  BY DEF Picked, Place
<1> HIDE DEF c, p
<1>4. DOMAIN p = 1 .. c /\ \A n \in 1 .. c : p[n] = s[Place(P, n)]
  BY <1>3
<1>5. p \in Seq(S) /\ Len(p) = c
  <2>1. p \in [1 .. c -> S]
    BY <1>0, <1>2, <1>3
  <2>2. p \in Seq(S)
    BY <1>2, <2>1, SeqDef
  <2>3. DOMAIN p = 1 .. Len(p) /\ Len(p) \in Nat
    BY <2>2, LenProperties
  <2> QED BY <1>2, <1>4, <2>2, <2>3
<1>6. Elems(p) = {s[i] : i \in P}
  <2>1. ASSUME NEW n \in 1 .. c PROVE p[n] \in {s[i] : i \in P}
    BY <1>2, <1>4
  <2>2. ASSUME NEW i \in P PROVE \E n \in 1 .. c : p[n] = s[i]
    BY <1>2, <1>4
  <2> QED BY <1>4, <2>1, <2>2 DEF Elems
<1>7. ASSUME NEW n \in DOMAIN p, NEW m \in DOMAIN p, n < m
      PROVE  \E i, k \in P : i < k /\ p[n] = s[i] /\ p[m] = s[k]
  BY <1>2, <1>4, <1>7
<1> QED BY <1>5, <1>6, <1>7 DEF c, p

(* A set of numbers that is not empty has a least one.                     *)
LEMMA Least == ASSUME NEW T \in SUBSET Nat, T # {}
               PROVE  \E x \in T : \A y \in T : x <= y
<1>1. PICK x \in T : \A y \in T : ~(<<y, x>> \in OpToRel(<, Nat))
  BY NatLessThanWellFounded, WFMin
<1>2. ASSUME NEW y \in T PROVE ~(y < x)
  BY <1>1, <1>2 DEF OpToRel
<1> QED BY <1>2

(* dedupeEvents keeps every event, and keeps it once and in its order.     *)
LEMMA Deduped ==
    ASSUME NEW S, NEW s \in Seq(S)
    PROVE  /\ dedupeEvents(s) \in Seq(S) /\ Len(dedupeEvents(s)) <= Len(s)
           /\ Elems(dedupeEvents(s)) = Elems(s)
           /\ NoRepeats(dedupeEvents(s))
           /\ \A n, m \in DOMAIN dedupeEvents(s) : n < m =>
                 \E i, k \in Firsts(s) : i < k /\ dedupeEvents(s)[n] = s[i] /\ dedupeEvents(s)[m] = s[k]
<1> DEFINE d == dedupeEvents(s)
<1>0. Len(s) \in Nat /\ DOMAIN s = 1 .. Len(s)
  BY LenProperties
<1>1. Firsts(s) \in SUBSET DOMAIN s
  BY DEF Firsts
<1>2. /\ d \in Seq(S) /\ Len(d) = Cardinality(Firsts(s))
      /\ Elems(d) = {s[i] : i \in Firsts(s)}
      /\ \A n, m \in DOMAIN d : n < m =>
            \E i, k \in Firsts(s) : i < k /\ d[n] = s[i] /\ d[m] = s[k]
  BY <1>1, PickedIs DEF dedupeEvents
<1> HIDE DEF d
<1>3. Len(d) <= Len(s)
  <2>1. IsFiniteSet(1 .. Len(s)) /\ Cardinality(1 .. Len(s)) = Len(s)
    BY <1>0, FS_Interval
  <2> QED BY <1>0, <1>1, <1>2, <2>1, FS_Subset
<1>4. Elems(d) = Elems(s)
  <2>1. ASSUME NEW x \in Elems(s) PROVE x \in Elems(d)
    <3> DEFINE T == {i \in 1 .. Len(s) : s[i] = x}
    <3>1. T \in SUBSET Nat /\ T # {}
      BY <2>1, ElemsOf, <1>0
    <3>2. PICK i \in T : \A k \in T : i <= k
      BY <3>1, Least
    <3>3. i \in Firsts(s)
      <4>1. ASSUME NEW k \in 1 .. (i - 1) PROVE s[k] # s[i]
        BY <1>0, <3>2, <4>1
      <4> QED BY <1>0, <4>1 DEF Firsts
    <3> QED BY <1>2, <3>3
  <2>2. Elems(d) \subseteq Elems(s)
    BY <1>1, <1>2 DEF Elems
  <2> QED BY <2>1, <2>2
<1>5. \A n, m \in DOMAIN d : n < m => d[n] # d[m]
  <2> SUFFICES ASSUME NEW n \in DOMAIN d, NEW m \in DOMAIN d, n < m PROVE d[n] # d[m]
    OBVIOUS
  <2>1. PICK i \in Firsts(s), k \in Firsts(s) : i < k /\ d[n] = s[i] /\ d[m] = s[k]
    BY <1>2
  <2>2. i \in 1 .. (k - 1)
    BY <1>0, <1>1, <2>1
  <2> QED BY <2>1, <2>2 DEF Firsts
<1>6. NoRepeats(d)
  <2>1. Len(d) \in Nat /\ DOMAIN d = 1 .. Len(d)
    BY <1>2, LenProperties
  <2> QED BY <1>5, <2>1 DEF NoRepeats
<1> QED BY <1>2, <1>3, <1>4, <1>6 DEF d

(* Where there is nothing to drop it changes nothing.                      *)
LEMMA NothingDropped ==
    ASSUME NEW S, NEW s \in Seq(S), NoRepeats(s)
    PROVE  dedupeEvents(s) = s /\ Cardinality(Firsts(s)) = Len(s)
<1>0. Len(s) \in Nat /\ DOMAIN s = 1 .. Len(s)
  BY LenProperties
<1>1. Firsts(s) = 1 .. Len(s)
  BY <1>0 DEF Firsts, NoRepeats
<1>2. Cardinality(1 .. Len(s)) = Len(s) /\ IsFiniteSet(1 .. Len(s))
  BY <1>0, FS_Interval
<1> DEFINE P == 1 .. Len(s)
<1>3. ASSUME NEW i \in P PROVE Cardinality(Upto(P, i)) = i
  <2>1. Upto(P, i) = 1 .. i
    BY <1>0 DEF Upto
  <2> QED BY <1>0, <2>1, FS_Interval
<1>4. \A n \in P : Place(P, n) = n
  BY <1>3 DEF Place
<1>5. dedupeEvents(s) = [n \in P |-> s[Place(P, n)]]
  BY <1>1, <1>2 DEF dedupeEvents, Picked, Place
<1>6. s = [n \in P |-> s[n]]
  BY <1>0, LenProperties
<1>7. [n \in P |-> s[Place(P, n)]] = [n \in P |-> s[n]]
  BY <1>4
<1> QED BY <1>1, <1>2, <1>5, <1>6, <1>7
-----------------------------------------------------------------------------
(* The numbers of events, counters, and where the daemon is.               *)
Old(s) == \A e \in Elems(s) : e <= last
Numbered ==
    /\ Old(items) /\ Old(pending) /\ Old(batch) /\ Old(archive) /\ Old(window)
    /\ Old(undo.items) /\ Old(undo.pending) /\ \A e \in acked : e <= last
    /\ tears <= env.tears /\ (pc = "down" => crashes > 0)
LogTyped == TypeOK /\ Numbered

LEMMA TypeMeans ==
    ASSUME TypeOK
    PROVE  /\ items \in Seq(Event) /\ pending \in Seq(Event) /\ batch \in Seq(Event)
           /\ archive \in Seq(Event) /\ window \in Seq(Event)
           /\ undo.items \in Seq(Event) /\ undo.pending \in Seq(Event) /\ undo.count \in Nat
           /\ undo = [items |-> undo.items, pending |-> undo.pending, count |-> undo.count]
           /\ limit \in Nat /\ env \in Environments /\ env.limits \subseteq Nat
           /\ env.batches \subseteq Nat \ {0} /\ env.tears \in Nat
           /\ env.faults \in BOOLEAN /\ env.imports \in BOOLEAN
           /\ count \in Nat /\ last \in Nat /\ tears \in Nat /\ crashes \in Nat
           /\ acked \subseteq Event /\ cut \subseteq Event
BY LogAssumption DEF TypeOK

(* What AppendEvents does: new events come last, the oldest go out.        *)
LEMMA Appended ==
    ASSUME LogTyped, NEW n \in Nat \ {0}, AppendEvents(n)
    PROVE  /\ NewEvents(n) \in Seq(Event) /\ NewEvents(n) # << >> /\ Incr(NewEvents(n))
           /\ Elems(NewEvents(n)) = (last + 1) .. (last + n)
           /\ items' \in Seq(Event) /\ pending' \in Seq(Event)
           /\ Len(pending') + Len(items') = Len(pending) + Len(items) + n
           /\ pending' \o items' = (pending \o items) \o NewEvents(n)
           /\ Elems(pending') \cup Elems(items') = Elems(pending) \cup Elems(items) \cup Elems(NewEvents(n))
           /\ Elems(items') \subseteq Elems(items) \cup Elems(NewEvents(n))
           /\ \E over \in Nat : /\ Len(items') = Len(items) + n - over
                                /\ over = 0 => items' = items \o NewEvents(n)
                                /\ over > 0 => limit > 0 /\ Len(items') = limit
                                /\ limit > 0 => Len(items') <= limit
                                /\ items \o NewEvents(n) = Oldest(items \o NewEvents(n), over) \o items'
<1> DEFINE new == NewEvents(n)
           all == items \o new
           over == Overflow(Len(all), limit)
<1>0. /\ items \in Seq(Event) /\ pending \in Seq(Event) /\ limit \in Nat /\ last \in Nat
      /\ Len(items) \in Nat /\ Len(pending) \in Nat
  BY TypeMeans, LenProperties DEF LogTyped
<1>1. new \in [1 .. n -> Event] /\ \A i \in 1 .. n : new[i] = last + i
  BY <1>0 DEF NewEvents, Event
<1>2. new \in Seq(Event) /\ Len(new) = n /\ DOMAIN new = 1 .. n
  <2>1. new \in Seq(Event)
    BY <1>1, SeqDef
  <2>2. DOMAIN new = 1 .. Len(new) /\ Len(new) \in Nat
    BY <2>1, LenProperties
  <2>3. DOMAIN new = 1 .. n
    BY DEF NewEvents
  <2>4. n \in 1 .. Len(new)
    BY <2>2, <2>3
  <2>5. Len(new) \in 1 .. n
    BY <2>2, <2>3, <2>4
  <2>6. Len(new) = n
    BY <2>4, <2>5
  <2> QED BY <2>1, <2>3, <2>6
<1> HIDE DEF new
<1>3. new # << >>
  BY <1>2, EmptySeq
<1>4. Incr(new)
  BY <1>0, <1>1, <1>2 DEF Incr
<1>5. Elems(new) = (last + 1) .. (last + n)
  <2>1. ASSUME NEW e \in (last + 1) .. (last + n) PROVE e \in Elems(new)
    <3>1. e - last \in 1 .. n /\ new[e - last] = e
      BY <1>0, <1>1
    <3> QED BY <1>2, <3>1 DEF Elems
  <2>2. ASSUME NEW e \in Elems(new) PROVE e \in (last + 1) .. (last + n)
    BY <1>0, <1>1, <1>2 DEF Elems
  <2> QED BY <2>1, <2>2
<1>6. /\ all \in Seq(Event) /\ Len(all) = Len(items) + n
      /\ Elems(all) = Elems(items) \cup Elems(new)
  <2>1. items \in Seq(Event)
    BY <1>0
  <2>2. all \in Seq(Event) /\ Elems(all) = Elems(items) \cup Elems(new)
    BY <1>2, <2>1, ElemsCat
  <2>3. Len(all) = Len(items) + Len(new)
    BY <1>2, <2>1, ConcatProperties
  <2> QED BY <1>2, <2>2, <2>3
<1>7. /\ over \in 0 .. Len(all)
      /\ over > 0 => limit > 0 /\ Len(all) - over = limit
      /\ limit > 0 => Len(all) - over <= limit
  <2> HIDE DEF all
  <2>1. Len(all) \in Nat
    BY <1>6, LenProperties
  <2> QED BY <1>0, <2>1 DEF Overflow, Minus
<1>8. items' = Rest(all, over) /\ pending' = pending \o Oldest(all, over)
  BY DEF AppendEvents, new
<1> HIDE DEF all, over
<1>9. /\ Oldest(all, over) \in Seq(Event) /\ items' \in Seq(Event)
      /\ Len(Oldest(all, over)) = over /\ Len(items') = Len(all) - over
      /\ Oldest(all, over) \o items' = all
  BY <1>6, <1>7, <1>8, Halves
<1>10. /\ pending' \in Seq(Event) /\ Len(pending') = Len(pending) + over
       /\ Elems(pending') = Elems(pending) \cup Elems(Oldest(all, over))
  <2> DEFINE out == Oldest(all, over)
  <2>1. out \in Seq(Event) /\ Len(out) = over
    BY <1>9
  <2> HIDE DEF out
  <2>2. /\ pending \o out \in Seq(Event) /\ Elems(pending \o out) = Elems(pending) \cup Elems(out)
        /\ Len(pending \o out) = Len(pending) + over
    BY <1>0, <2>1, ElemsCat, ConcatProperties
  <2>3. pending' = pending \o out
    BY <1>8 DEF out
  <2>4. /\ pending' \in Seq(Event) /\ Elems(pending') = Elems(pending) \cup Elems(out)
        /\ Len(pending') = Len(pending) + over
    BY <2>2, <2>3
  <2> QED BY <2>4 DEF out
<1>11. Elems(all) = Elems(Oldest(all, over)) \cup Elems(items')
  BY <1>9, ElemsCat
<1>12. pending' \o items' = (pending \o items) \o new
  <2>1. pending' \o items' = pending \o (Oldest(all, over) \o items')
    <3> DEFINE out == Oldest(all, over)
    <3>1. out \in Seq(Event) /\ pending' = pending \o out
      BY <1>8, <1>9
    <3> HIDE DEF out
    <3>2. \A i \in Seq(Event) : (pending \o out) \o i = pending \o (out \o i)
      BY <1>0, <3>1, ConcatAssociative
    <3>3. pending' \o items' = pending \o (out \o items')
      BY <1>9, <3>1, <3>2
    <3> QED BY <3>3 DEF out
  <2>2. (pending \o items) \o new = pending \o (items \o new)
    BY <1>0, <1>2, ConcatAssociative
  <2> QED BY <1>9, <2>1, <2>2 DEF all
<1>13. over = 0 => items' = all
  <2> SUFFICES ASSUME over = 0 PROVE items' = all
    OBVIOUS
  <2>1. Oldest(all, over) = << >>
    BY <1>9, EmptySeq
  <2> QED BY <1>9, <2>1, ConcatEmptySeq
<1>14. over \in Nat /\ Len(all) \in Nat
  BY <1>6, <1>7, LenProperties
<1>15. \E o \in Nat : /\ Len(items') = Len(items) + n - o
                      /\ o = 0 => items' = items \o new
                      /\ o > 0 => limit > 0 /\ Len(items') = limit
                      /\ limit > 0 => Len(items') <= limit
                      /\ items \o new = Oldest(items \o new, o) \o items'
  <2>1. /\ Len(items') = Len(items) + n - over
        /\ over = 0 => items' = items \o new
        /\ over > 0 => limit > 0 /\ Len(items') = limit
        /\ limit > 0 => Len(items') <= limit
        /\ items \o new = Oldest(items \o new, over) \o items'
    BY <1>6, <1>7, <1>9, <1>13 DEF all
  <2> QED BY <1>14, <2>1, Zenon
<1>16. Len(pending') + Len(items') = Len(pending) + Len(items) + n
  BY <1>0, <1>6, <1>9, <1>10, <1>14
<1> QED BY <1>2, <1>3, <1>4, <1>5, <1>6, <1>9, <1>10, <1>11, <1>12, <1>15, <1>16 DEF new

(* What a write to the archive does.                                       *)
LEMMA WrittenIs ==
    ASSUME LogTyped, NEW ls \in Seq(Event)
    PROVE  /\ Written(ls) \in Seq(Event)
           /\ Elems(archive) \subseteq Elems(Written(ls))
           /\ Elems(Written(ls)) \subseteq Elems(archive) \cup Elems(ls)
           /\ ~ torn \/ ls = << >> => Written(ls) = archive \o ls
           /\ ls # << >> => Elems(ls) \subseteq Elems(Written(ls)) \cup {ls[1]}
<1>0. archive \in Seq(Event)
  BY TypeMeans DEF LogTyped
<1>1. CASE torn /\ ls # << >>
  <2>1. Written(ls) = archive \o Tail(ls)
    BY <1>1 DEF Written
  <2>2. /\ Tail(ls) \in Seq(Event) /\ Len(Tail(ls)) = Len(ls) - 1
        /\ \A i \in 1 .. Len(Tail(ls)) : Tail(ls)[i] = ls[i + 1]
    BY <1>1, HeadTailProperties
  <2>3. Written(ls) \in Seq(Event) /\ Elems(Written(ls)) = Elems(archive) \cup Elems(Tail(ls))
    <3>1. archive \o Tail(ls) \in Seq(Event) /\ Elems(archive \o Tail(ls)) = Elems(archive) \cup Elems(Tail(ls))
      BY <1>0, <2>2, ElemsCat
    <3> QED BY <2>1, <3>1
  <2>4. Len(ls) \in Nat
    BY LenProperties
  <2>5. ASSUME NEW x \in Elems(ls) PROVE x = ls[1] \/ x \in Elems(Tail(ls))
    <3>1. PICK i \in 1 .. Len(ls) : ls[i] = x
      BY ElemsOf
    <3>2. CASE i = 1
      BY <3>1, <3>2
    <3>3. CASE i # 1
      <4>1. i - 1 \in 1 .. Len(Tail(ls)) /\ (i - 1) + 1 = i
        BY <2>2, <2>4, <3>3
      <4>2. Tail(ls)[i - 1] = x
        BY <2>2, <3>1, <4>1
      <4> QED BY <2>2, <4>1, <4>2, ElemsOf
    <3> QED BY <3>2, <3>3
  <2>6. ASSUME NEW x \in Elems(Tail(ls)) PROVE x \in Elems(ls)
    <3>1. PICK i \in 1 .. Len(Tail(ls)) : Tail(ls)[i] = x
      BY <2>2, ElemsOf
    <3>2. i + 1 \in 1 .. Len(ls) /\ ls[i + 1] = x
      BY <2>2, <2>4, <3>1
    <3> QED BY <3>2, ElemsOf
  <2> QED BY <1>1, <2>3, <2>5, <2>6
<1>2. CASE ~ (torn /\ ls # << >>)
  <2>1. Written(ls) = archive \o ls
    BY <1>2 DEF Written
  <2>2. archive \o ls \in Seq(Event) /\ Elems(archive \o ls) = Elems(archive) \cup Elems(ls)
    BY <1>0, ElemsCat
  <2> QED BY <1>2, <2>1, <2>2
<1> QED BY <1>1, <1>2

LEMMA HistoryIs ==
    ASSUME LogTyped
    PROVE  /\ archive \o pending \o items \in Seq(Event)
           /\ Elems(archive \o pending \o items) = Elems(archive) \cup Elems(pending) \cup Elems(items)
           /\ archive \o pending \o items = archive \o (pending \o items)
<1>1. archive \in Seq(Event) /\ pending \in Seq(Event) /\ items \in Seq(Event)
  BY TypeMeans DEF LogTyped
<1>2. archive \o pending \in Seq(Event) /\ Elems(archive \o pending) = Elems(archive) \cup Elems(pending)
  BY <1>1, ElemsCat
<1>3. archive \o pending \o items = archive \o (pending \o items)
  BY <1>1, ConcatAssociative
<1>4. archive \o pending \o items \in Seq(Event)
      /\ Elems(archive \o pending \o items) = Elems(archive \o pending) \cup Elems(items)
  <2>1. \A s \in Seq(Event) : s \o items \in Seq(Event) /\ Elems(s \o items) = Elems(s) \cup Elems(items)
    BY <1>1, ElemsCat
  <2> QED BY <1>2, <2>1
<1> QED BY <1>2, <1>3, <1>4

(* What an import does to the store: it holds the whole history, once.     *)
LEMMA Imported ==
    ASSUME LogTyped, Import
    PROVE  /\ items' \in Seq(Event) /\ pending' \in Seq(Event)
           /\ Elems(pending') \cup Elems(items') = Elems(archive) \cup Elems(pending) \cup Elems(items)
           /\ NoRepeats(pending' \o items')
<1> DEFINE all == FullEvidence
           over == Overflow(Len(all), limit)
<1>0. limit \in Nat
  BY TypeMeans DEF LogTyped
<1>1. all \in Seq(Event) /\ NoRepeats(all) /\ Elems(all) = Elems(archive) \cup Elems(pending) \cup Elems(items)
  BY HistoryIs, Deduped DEF FullEvidence
<1>2. items' = Rest(all, over) /\ pending' = Oldest(all, over)
  BY DEF Import
<1> HIDE DEF all
<1>3. over \in 0 .. Len(all)
  <2>1. Len(all) \in Nat
    BY <1>1, LenProperties
  <2> QED BY <1>0, <2>1 DEF Overflow, Minus
<1> HIDE DEF over
<1>4. items' \in Seq(Event) /\ pending' \in Seq(Event) /\ pending' \o items' = all
  BY <1>1, <1>2, <1>3, Halves
<1>5. Elems(pending' \o items') = Elems(pending') \cup Elems(items')
  BY <1>4, ElemsCat
<1> QED BY <1>1, <1>4, <1>5

(* What a start reads: the newest events of the window.                    *)
LEMMA Started ==
    ASSUME LogTyped, NEW l \in env.limits, Start(l)
    PROVE  /\ items' \in Seq(Event) /\ Elems(items') \subseteq Elems(window)
           /\ l > 0 => Len(items') <= l
           /\ l = 0 \/ Len(window) <= l => items' = dedupeEvents(window)
<1> DEFINE all == dedupeEvents(window)
           over == Overflow(Len(all), l)
<1>0. l \in Nat /\ window \in Seq(Event)
  BY TypeMeans DEF LogTyped
<1>1. all \in Seq(Event) /\ Elems(all) = Elems(window) /\ Len(all) <= Len(window)
  BY <1>0, Deduped
<1>2. items' = Rest(all, over)
  BY DEF Start
<1> HIDE DEF all
<1>3. /\ over \in 0 .. Len(all)
      /\ l > 0 => Len(all) - over <= l
      /\ l = 0 \/ Len(window) <= l => over = 0
  <2>1. Len(all) \in Nat /\ Len(window) \in Nat
    BY <1>0, <1>1, LenProperties
  <2> QED BY <1>0, <1>1, <2>1 DEF Overflow, Minus
<1> HIDE DEF over
<1>4. /\ items' \in Seq(Event) /\ Oldest(all, over) \in Seq(Event) /\ Oldest(all, over) \o items' = all
      /\ Len(items') = Len(all) - over /\ Len(Oldest(all, over)) = over
  BY <1>1, <1>2, <1>3, Halves
<1>5. Elems(items') \subseteq Elems(all)
  <2>1. \A i \in Seq(Event) : Elems(Oldest(all, over) \o i) = Elems(Oldest(all, over)) \cup Elems(i)
    BY <1>4, ElemsCat
  <2> QED BY <1>4, <2>1
<1>6. over = 0 => items' = all
  <2> SUFFICES ASSUME over = 0 PROVE items' = all
    OBVIOUS
  <2>1. Oldest(all, over) = << >>
    BY <1>4, EmptySeq
  <2> QED BY <1>4, <2>1, ConcatEmptySeq
<1> QED BY <1>1, <1>3, <1>4, <1>5, <1>6 DEF all
-----------------------------------------------------------------------------
LEMMA LogTypedInit == Init => LogTyped
<1> SUFFICES ASSUME Init PROVE LogTyped
  OBVIOUS
<1>1. << >> \in Seq(Event) /\ Elems(<< >>) = {}
  BY EmptySeq, ElemsEmpty
<1>2. env.limits \subseteq Nat /\ env.tears \in Nat
  BY LogAssumption DEF Init
<1>3. TypeOK
  <2>1. undo \in [items : Seq(Event), pending : Seq(Event), count : Nat]
    BY <1>1 DEF Init
  <2>2. {acked, cut} \subseteq SUBSET Event
    BY DEF Init
  <2>3. {items, pending, batch, archive, window} \subseteq Seq(Event)
    BY <1>1 DEF Init
  <2> QED BY <2>1, <2>2, <2>3 DEF Init, TypeOK
<1>4. Numbered
  <2>1. undo.items = << >> /\ undo.pending = << >>
    BY DEF Init
  <2> QED BY <1>1, <1>2, <2>1 DEF Init, Numbered, Old
<1> QED BY <1>3, <1>4 DEF LogTyped

LEMMA Shorter == ASSUME NEW s \in Seq(Event), NEW k \in 0 .. Minus(Len(s), 1)
                 PROVE  /\ Oldest(s, k) \in Seq(Event) /\ Elems(Oldest(s, k)) \subseteq Elems(s)
                        /\ Oldest(s, k) # << >> => s # << >> /\ Oldest(s, k)[1] = s[1]
<1>1. Len(s) \in Nat
  BY LenProperties
<1>2. k \in 0 .. Len(s)
  BY <1>1 DEF Minus
<1>3. /\ Oldest(s, k) \in Seq(Event) /\ Rest(s, k) \in Seq(Event) /\ Oldest(s, k) \o Rest(s, k) = s
      /\ Len(Oldest(s, k)) = k /\ \A i \in 1 .. k : Oldest(s, k)[i] = s[i]
  BY <1>2, Halves
<1>4. Elems(Oldest(s, k) \o Rest(s, k)) = Elems(Oldest(s, k)) \cup Elems(Rest(s, k))
  BY <1>3, ElemsCat
<1>5. ASSUME Oldest(s, k) # << >> PROVE s # << >> /\ Oldest(s, k)[1] = s[1]
  <2>1. k # 0
    BY <1>3, <1>5, EmptySeq
  <2>2. Len(s) # 0
    BY <1>1, <1>2, <2>1
  <2> QED BY <1>2, <1>3, <2>1, <2>2, EmptySeq
<1> QED BY <1>3, <1>4, <1>5

LEMMA LogTypedStep == LogTyped /\ [Next]_vars => LogTyped'
<1> SUFFICES ASSUME LogTyped, [Next]_vars PROVE LogTyped'
  OBVIOUS
<1> USE DEF LogTyped
<1>0. /\ items \in Seq(Event) /\ pending \in Seq(Event) /\ batch \in Seq(Event) /\ archive \in Seq(Event)
      /\ window \in Seq(Event) /\ undo.items \in Seq(Event) /\ undo.pending \in Seq(Event)
      /\ limit \in Nat /\ env.tears \in Nat /\ env.batches \subseteq Nat \ {0}
      /\ last \in Nat /\ tears \in Nat /\ crashes \in Nat /\ count \in Nat
  BY TypeMeans
<1>e. << >> \in Seq(Event) /\ Elems(<< >>) = {}
  BY EmptySeq, ElemsEmpty
<1>1. CASE UNCHANGED vars
  BY <1>1 DEF vars, memVars, diskVars, TypeOK, Numbered, Old
<1>2. ASSUME NEW n \in env.batches, Operate(n) PROVE LogTyped'
  <2>0. n \in Nat \ {0}
    BY <1>0
  <2>1. AppendEvents(n)
    BY <1>2 DEF Operate
  <2>2. /\ NewEvents(n) \in Seq(Event) /\ Elems(NewEvents(n)) = (last + 1) .. (last + n)
        /\ items' \in Seq(Event) /\ pending' \in Seq(Event)
        /\ Elems(pending') \cup Elems(items') = Elems(pending) \cup Elems(items) \cup Elems(NewEvents(n))
    BY <2>0, <2>1, Appended
  <2>3. /\ batch' = NewEvents(n) /\ last' = last + n /\ pc' = "archive"
        /\ undo' = [items |-> items, pending |-> pending, count |-> count]
        /\ UNCHANGED <<env, limit, count, archive, torn, window, acked, tears, crashes, cut>>
    BY <1>2 DEF Operate, diskVars
  <2>4. TypeOK'
    BY <1>0, <2>0, <2>2, <2>3 DEF TypeOK
  <2>5. undo'.items = items /\ undo'.pending = pending
    BY <2>3
  <2>6. last' \in Nat /\ last <= last' /\ \A e \in Elems(NewEvents(n)) : e <= last'
    BY <1>0, <2>0, <2>2, <2>3
  <2>7. Elems(pending) \subseteq Nat /\ Elems(items) \subseteq Nat /\ Elems(archive) \subseteq Nat
        /\ Elems(window) \subseteq Nat /\ acked \subseteq Nat
    BY <1>0, ElemsOf, TypeMeans DEF Event
  <2>8. /\ \A e \in Elems(pending) \cup Elems(items) : e <= last'
        /\ \A e \in Elems(archive) \cup Elems(window) \cup acked : e <= last'
    <3>1. \A e \in Nat : e <= last => e <= last'
      BY <1>0, <2>6
    <3>2. /\ \A e \in Elems(pending) \cup Elems(items) : e <= last
          /\ \A e \in Elems(archive) \cup Elems(window) \cup acked : e <= last
      BY DEF Numbered, Old
    <3> QED BY <2>7, <3>1, <3>2
  <2>9. Numbered'
    BY <2>2, <2>3, <2>5, <2>6, <2>8 DEF Numbered, Old
  <2> QED BY <2>4, <2>9
<1>3. CASE AppendArchive
  <2>1. archive' \in Seq(Event) /\ Elems(archive') \subseteq Elems(archive) \cup Elems(pending)
    BY <1>0, <1>3, WrittenIs DEF AppendArchive
  <2>2. TypeOK'
    BY <1>3, <2>1 DEF AppendArchive, memVars, TypeOK
  <2>3. Numbered'
    BY <1>3, <2>1 DEF AppendArchive, memVars, Numbered, Old
  <2> QED BY <2>2, <2>3
<1>4. CASE SaveWindow
  <2>1. count + Len(pending) \in Nat
    BY <1>0, LenProperties
  <2>2. TypeOK'
    BY <1>0, <1>4, <1>e, <2>1 DEF SaveWindow, TypeOK
  <2>3. Numbered'
    BY <1>4, <1>e DEF SaveWindow, Numbered, Old
  <2> QED BY <2>2, <2>3
<1>5. CASE Succeed
  <2>1. Elems(batch) \subseteq Event
    BY <1>0, ElemsOf
  <2>2. TypeOK'
    BY <1>5, <2>1 DEF Succeed, memVars, diskVars, TypeOK
  <2>3. Numbered'
    BY <1>5 DEF Succeed, memVars, diskVars, Numbered, Old
  <2> QED BY <2>2, <2>3
<1>6. ASSUME Restored
      PROVE  /\ items' \in Seq(Event) /\ pending' \in Seq(Event) /\ count' \in Nat /\ limit' = limit
             /\ Old(items') /\ Old(pending')
  BY <1>0, <1>6, TypeMeans DEF Restored, Numbered
<1>7. CASE Fail
  <2>1. Restored
    BY <1>7 DEF Fail
  <2>2. TypeOK'
    BY <1>6, <1>7, <2>1 DEF Fail, diskVars, TypeOK
  <2>3. Numbered'
    BY <1>6, <1>7, <2>1 DEF Fail, diskVars, Numbered, Old
  <2> QED BY <2>2, <2>3
<1>8. CASE TornWrite
  <2>1. Restored
    BY <1>8 DEF TornWrite
  <2>2. PICK k \in 0 .. Minus(Len(pending), 1) : archive' = Written(Oldest(pending, k))
    BY <1>8 DEF TornWrite
  <2>3. Oldest(pending, k) \in Seq(Event) /\ Elems(Oldest(pending, k)) \subseteq Elems(pending)
    BY <1>0, Shorter
  <2>4. archive' \in Seq(Event) /\ Elems(archive') \subseteq Elems(archive) \cup Elems(pending)
    BY <2>2, <2>3, WrittenIs
  <2>5. TypeOK'
    BY <1>0, <1>6, <1>8, <2>1, <2>4 DEF TornWrite, TypeOK
  <2>6. tears' <= env.tears
    BY <1>0, <1>8 DEF TornWrite
  <2>7. Numbered'
    BY <1>6, <1>8, <2>1, <2>4, <2>6 DEF TornWrite, Numbered, Old
  <2> QED BY <2>5, <2>7
<1>9. CASE Import
  <2>1. /\ items' \in Seq(Event) /\ pending' \in Seq(Event)
        /\ Elems(pending') \cup Elems(items') = Elems(archive) \cup Elems(pending) \cup Elems(items)
    BY <1>9, Imported
  <2>2. TypeOK'
    BY <1>9, <1>e, <2>1 DEF Import, TypeOK
  <2>3. Numbered'
    BY <1>9, <1>e, <2>1 DEF Import, Numbered, Old
  <2> QED BY <2>2, <2>3
<1>10. CASE Crash
  <2>1. TypeOK'
    BY <1>0, <1>10 DEF Crash, memVars, diskVars, TypeOK
  <2>2. Numbered'
    BY <1>0, <1>10 DEF Crash, memVars, diskVars, Numbered, Old
  <2> QED BY <2>1, <2>2
<1>11. ASSUME NEW l \in env.limits, Start(l) PROVE LogTyped'
  <2>1. items' \in Seq(Event) /\ Elems(items') \subseteq Elems(window)
    BY <1>11, Started
  <2>2. Len(archive) \in Nat /\ Elems(window) \subseteq Event
    BY <1>0, LenProperties, ElemsOf
  <2>3. TypeOK'
    BY <1>11, <1>e, <2>1, <2>2 DEF Start, diskVars, TypeOK
  <2>4. Numbered'
    BY <1>11, <1>e, <2>1 DEF Start, diskVars, Numbered, Old
  <2> QED BY <2>3, <2>4
<1> QED BY <1>1, <1>2, <1>3, <1>4, <1>5, <1>7, <1>8, <1>9, <1>10, <1>11 DEF Next
-----------------------------------------------------------------------------
(* What is lost.  Some events L may be missing, no more than there were    *)
(* appends cut short; a piece of a line that still waits for the line it   *)
(* will spoil counts.  All other events of operations that returned no     *)
(* error are in the archive or in the store, in what the operation in hand *)
(* will put back, and in the archive or the window.                        *)
Busy == pc \in {"archive", "window", "rest"}
Calm == env.imports => crashes = 0
InStore == Elems(pending) \cup Elems(items)
InUndo == Elems(undo.pending) \cup Elems(undo.items)
Missing(L) ==
    /\ Calm /\ pc # "down" => acked \subseteq L \cup cut \cup Elems(archive) \cup InStore
    /\ Calm /\ Busy /\ batch # << >> => acked \subseteq L \cup cut \cup Elems(archive) \cup InUndo
    /\ ~ env.imports => acked \subseteq L \cup cut \cup Elems(archive) \cup Elems(window)
    /\ Busy => Elems(batch) \subseteq L \cup Elems(archive) \cup InStore
    /\ pc = "window" => Elems(pending) \subseteq L \cup Elems(archive)
    /\ pc = "rest" => pending = << >> /\ window = items
Pieces == IF torn THEN 1 ELSE 0
LossBounded == \E L : IsFiniteSet(L) /\ Cardinality(L) + Pieces <= tears /\ Missing(L)

LEMMA LossInit == Init => LossBounded
<1> SUFFICES ASSUME Init PROVE LossBounded
  OBVIOUS
<1>1. IsFiniteSet({}) /\ Cardinality({}) + Pieces <= tears
  BY FS_EmptySet DEF Init, Pieces
<1>2. Missing({})
  BY DEF Init, Missing, Busy
<1> QED BY <1>1, <1>2 DEF LossBounded

LEMMA LossStep == LogTyped /\ LossBounded /\ [Next]_vars => LossBounded'
<1> SUFFICES ASSUME LogTyped, LossBounded, [Next]_vars PROVE LossBounded'
  OBVIOUS
<1>1. PICK L : IsFiniteSet(L) /\ Cardinality(L) + Pieces <= tears /\ Missing(L)
  BY DEF LossBounded
<1>0. /\ items \in Seq(Event) /\ pending \in Seq(Event) /\ batch \in Seq(Event) /\ archive \in Seq(Event)
      /\ tears \in Nat /\ crashes \in Nat /\ torn \in BOOLEAN /\ env.imports \in BOOLEAN
      /\ env.batches \subseteq Nat \ {0}
  BY TypeMeans DEF LogTyped, TypeOK
<1>c. Cardinality(L) \in Nat
  BY <1>1, FS_CardinalityType
<1>e. Elems(<< >>) = {}
  BY ElemsEmpty
<1>s. ASSUME Cardinality(L) + Pieces' <= tears', Missing(L)' PROVE LossBounded'
  BY <1>1, <1>s DEF LossBounded
<1> USE DEF Missing
<1>2. CASE UNCHANGED vars
  BY <1>1, <1>2, <1>s DEF vars, memVars, diskVars, Pieces, Busy, Calm, InStore, InUndo
<1>3. ASSUME NEW n \in env.batches, Operate(n) PROVE LossBounded'
  <2>1. n \in Nat \ {0} /\ AppendEvents(n)
    BY <1>0, <1>3 DEF Operate
  <2>2. Elems(pending') \cup Elems(items') = Elems(pending) \cup Elems(items) \cup Elems(NewEvents(n))
    BY <2>1, Appended
  <2>3. /\ batch' = NewEvents(n) /\ pc = "idle" /\ pc' = "archive"
        /\ undo'.items = items /\ undo'.pending = pending
        /\ UNCHANGED <<env, archive, torn, window, acked, tears, crashes, cut>>
    BY <1>3 DEF Operate, diskVars
  <2>4. Missing(L)'
    BY <1>1, <2>2, <2>3 DEF Busy, Calm, InStore, InUndo
  <2> QED BY <1>1, <1>s, <2>3, <2>4 DEF Pieces
<1>4. CASE AppendArchive
  <2>0. /\ pc = "archive" /\ pc' = "window" /\ archive' = Written(pending)
        /\ torn' = (torn /\ pending = << >>)
        /\ UNCHANGED <<env, items, pending, undo, batch, window, acked, tears, crashes, cut>>
    BY <1>4 DEF AppendArchive, memVars
  <2>1. /\ Elems(archive) \subseteq Elems(archive')
        /\ ~ torn \/ pending = << >> => archive' = archive \o pending
        /\ pending # << >> => Elems(pending) \subseteq Elems(archive') \cup {pending[1]}
    BY <1>0, <2>0, WrittenIs
  <2>2. CASE torn /\ pending # << >>
    <3>0. PICK x : x = pending[1]
      OBVIOUS
    <3> DEFINE M == L \cup {x}
    <3>1. IsFiniteSet(M) /\ Cardinality(M) <= Cardinality(L) + 1
      <4>1. IsFiniteSet(M) /\ Cardinality(M) = IF x \in L THEN Cardinality(L) ELSE Cardinality(L) + 1
        BY <1>1, FS_AddElement
      <4> QED BY <1>c, <4>1
    <3>2. Cardinality(M) \in Nat
      BY <3>1, FS_CardinalityType
    <3>3. L \subseteq M /\ Elems(pending) \subseteq M \cup Elems(archive')
      BY <2>1, <2>2, <3>0
    <3> HIDE DEF M
    <3>4. Missing(M)'
      BY <1>1, <2>0, <2>1, <3>3 DEF Busy, Calm, InStore, InUndo
    <3>5. Cardinality(M) + Pieces' <= tears'
      <4>1. Pieces = 1 /\ torn' = FALSE /\ tears' = tears
        BY <2>0, <2>2 DEF Pieces
      <4>2. Pieces' = 0
        BY <4>1 DEF Pieces
      <4> QED BY <1>0, <1>1, <1>c, <3>1, <3>2, <4>1, <4>2
    <3> QED BY <3>1, <3>4, <3>5 DEF LossBounded
  <2>3. CASE ~(torn /\ pending # << >>)
    <3>1. Elems(archive') = Elems(archive) \cup Elems(pending)
      <4>1. archive' = archive \o pending
        BY <2>1, <2>3
      <4>2. Elems(archive \o pending) = Elems(archive) \cup Elems(pending)
        BY <1>0, ElemsCat
      <4> QED BY <4>1, <4>2
    <3>2. Missing(L)'
      BY <1>1, <2>0, <3>1 DEF Busy, Calm, InStore, InUndo
    <3>3. Pieces' = Pieces
      BY <1>0, <2>0, <2>3 DEF Pieces
    <3> QED BY <1>1, <1>s, <2>0, <3>2, <3>3
  <2> QED BY <2>2, <2>3
<1>5. CASE SaveWindow
  <2>1. /\ pc = "window" /\ pc' = "rest" /\ window' = items /\ pending' = << >>
        /\ UNCHANGED <<env, items, undo, batch, archive, torn, acked, tears, crashes, cut>>
    BY <1>5 DEF SaveWindow
  <2>2. Missing(L)'
    BY <1>1, <1>e, <2>1 DEF Busy, Calm, InStore, InUndo
  <2> QED BY <1>1, <1>s, <2>1, <2>2 DEF Pieces
<1>6. CASE Succeed
  <2>1. /\ pc = "rest" /\ pc' = "idle" /\ acked' = acked \cup Elems(batch)
        /\ UNCHANGED <<env, items, pending, undo, batch, archive, torn, window, tears, crashes, cut>>
    BY <1>6 DEF Succeed, memVars, diskVars
  <2>2. Missing(L)'
    BY <1>1, <1>e, <2>1 DEF Busy, Calm, InStore, InUndo
  <2> QED BY <1>1, <1>s, <2>1, <2>2 DEF Pieces
<1>7. ASSUME Restored, Busy
      PROVE  Calm => acked \subseteq L \cup cut \cup Elems(archive) \cup Elems(pending') \cup Elems(items')
  BY <1>1, <1>7 DEF Restored, Busy, Calm, InStore, InUndo
<1>8. CASE Fail
  <2>1. /\ Restored /\ Busy /\ pc' = "idle"
        /\ UNCHANGED <<env, undo, batch, archive, torn, window, acked, tears, crashes, cut>>
    BY <1>8 DEF Fail, diskVars, Busy
  <2>2. Missing(L)'
    BY <1>1, <1>7, <2>1 DEF Busy, Calm, InStore, InUndo
  <2> QED BY <1>1, <1>s, <2>1, <2>2 DEF Pieces
<1>9. CASE TornWrite
  <2>1. /\ Restored /\ Busy /\ pc' = "idle" /\ torn' = TRUE /\ tears' = tears + 1
        /\ UNCHANGED <<env, undo, batch, window, acked, crashes, cut>>
    BY <1>9 DEF TornWrite, Busy
  <2>2. PICK k \in 0 .. Minus(Len(pending), 1) : archive' = Written(Oldest(pending, k))
    BY <1>9 DEF TornWrite
  <2>3. Elems(archive) \subseteq Elems(archive')
    BY <1>0, <2>2, Shorter, WrittenIs
  <2>4. Missing(L)'
    BY <1>1, <1>7, <2>1, <2>3 DEF Busy, Calm, InStore, InUndo
  <2>5. Cardinality(L) + Pieces' <= tears'
    BY <1>0, <1>1, <1>c, <2>1 DEF Pieces
  <2> QED BY <1>s, <2>4, <2>5
<1>10. CASE Import
  <2>1. /\ env.imports /\ pc = "idle" /\ pc' = "archive" /\ archive' = << >> /\ batch' = << >> /\ torn' = FALSE
        /\ UNCHANGED <<env, undo, window, acked, tears, crashes, cut>>
    BY <1>10 DEF Import
  <2>2. Elems(pending') \cup Elems(items') = Elems(archive) \cup Elems(pending) \cup Elems(items)
    BY <1>10, Imported
  <2>3. Missing(L)'
    BY <1>1, <1>e, <2>1, <2>2 DEF Busy, Calm, InStore, InUndo
  <2>4. Cardinality(L) + Pieces' <= tears'
    BY <1>0, <1>1, <1>c, <2>1 DEF Pieces
  <2> QED BY <1>s, <2>3, <2>4
<1>11. CASE Crash
  <2>1. /\ pc' = "down" /\ crashes' = crashes + 1
        /\ UNCHANGED <<env, items, pending, undo, batch, archive, torn, window, acked, tears, cut>>
    BY <1>11 DEF Crash, memVars, diskVars
  <2>2. Missing(L)'
    BY <1>0, <1>1, <2>1 DEF Busy, Calm, InStore, InUndo
  <2> QED BY <1>1, <1>s, <2>1, <2>2 DEF Pieces
<1>12. ASSUME NEW l \in env.limits, Start(l) PROVE LossBounded'
  <2>1. /\ pc = "down" /\ pc' = "idle" /\ pending' = << >>
        /\ cut' = cut \cup (Elems(window) \ (Elems(items') \cup Elems(archive)))
        /\ UNCHANGED <<env, undo, batch, archive, torn, window, acked, tears, crashes>>
    BY <1>12 DEF Start, diskVars
  <2>2. Calm => ~ env.imports
    BY <1>0, <2>1 DEF LogTyped, Numbered, Calm
  <2>3. Missing(L)'
    BY <1>1, <1>e, <2>1, <2>2 DEF Busy, Calm, InStore, InUndo
  <2> QED BY <1>1, <1>s, <2>1, <2>3 DEF Pieces
<1> QED BY <1>2, <1>3, <1>4, <1>5, <1>6, <1>8, <1>9, <1>10, <1>11, <1>12 DEF Next

(* The environments without cut appends and imports lose nothing.          *)
LEMMA NothingMissing ==
    ASSUME LogTyped, LossBounded, env.tears = 0 PROVE Missing({}) /\ tears = 0 /\ ~ torn
<1>1. PICK L : IsFiniteSet(L) /\ Cardinality(L) + Pieces <= tears /\ Missing(L)
  BY DEF LossBounded
<1>2. tears = 0 /\ torn \in BOOLEAN
  BY TypeMeans DEF LogTyped, Numbered, TypeOK
<1>3. Cardinality(L) \in Nat
  BY <1>1, FS_CardinalityType
<1>4. Cardinality(L) = 0 /\ ~ torn
  BY <1>1, <1>2, <1>3 DEF Pieces
<1>5. L = {}
  BY <1>1, <1>4, FS_EmptySet
<1> QED BY <1>1, <1>2, <1>4, <1>5

LEMMA LossMeans == LogTyped /\ LossBounded => TornLossBounded
<1> SUFFICES ASSUME LogTyped, LossBounded, pc = "idle", env.imports => crashes = 0
             PROVE  Cardinality(acked \ (cut \cup Elems(archive \o pending \o items))) <= tears
  BY DEF TornLossBounded
<1>1. PICK L : IsFiniteSet(L) /\ Cardinality(L) + Pieces <= tears /\ Missing(L)
  BY DEF LossBounded
<1> DEFINE gone == acked \ (cut \cup Elems(archive \o pending \o items))
<1>2. gone \in SUBSET L
  BY <1>1, HistoryIs DEF Missing, Calm, InStore
<1>3. Cardinality(gone) <= Cardinality(L) /\ Cardinality(gone) \in Nat /\ Cardinality(L) \in Nat
  BY <1>1, <1>2, FS_Subset, FS_CardinalityType
<1>4. tears \in Nat
  BY TypeMeans DEF LogTyped
<1> QED BY <1>1, <1>3, <1>4 DEF Pieces
-----------------------------------------------------------------------------
(* The order.  Among the events X, those of B that are not in A come after *)
(* those of A; first occurrences are in order.                             *)
Before(A, B, X) == \A e \in A \cap X, f \in (B \ A) \cap X : e < f
FirstsInOrder(s, X) == \A i, k \in Firsts(s) : i < k /\ {s[i], s[k]} \subseteq X => s[i] < s[k]

LEMMA FirstsCat ==
    ASSUME NEW a \in Seq(Event), NEW b \in Seq(Event), NEW X,
           FirstsInOrder(a, X), Before(Elems(a), Elems(b), X), Incr(b)
    PROVE  FirstsInOrder(a \o b, X)
<1> DEFINE c == a \o b
<1>1. /\ c \in Seq(Event) /\ Len(c) = Len(a) + Len(b)
      /\ \A i \in 1 .. Len(a) + Len(b) : c[i] = IF i <= Len(a) THEN a[i] ELSE b[i - Len(a)]
  BY ConcatProperties
<1>2. /\ Len(a) \in Nat /\ DOMAIN a = 1 .. Len(a) /\ Len(b) \in Nat /\ DOMAIN b = 1 .. Len(b)
      /\ DOMAIN c = 1 .. Len(a) + Len(b)
  BY <1>1, LenProperties
<1> HIDE DEF c
<1> SUFFICES ASSUME NEW i \in Firsts(c), NEW k \in Firsts(c), i < k, c[i] \in X, c[k] \in X
             PROVE  c[i] < c[k]
  BY DEF FirstsInOrder, c
<1>3. i \in 1 .. Len(a) + Len(b) /\ k \in 1 .. Len(a) + Len(b)
  BY <1>2 DEF Firsts
<1>4. ASSUME NEW j \in Firsts(c), j <= Len(a) PROVE j \in Firsts(a) /\ c[j] = a[j]
  <2>1. j \in 1 .. Len(a) /\ c[j] = a[j]
    BY <1>1, <1>2, <1>4 DEF Firsts
  <2>2. ASSUME NEW m \in 1 .. (j - 1) PROVE a[m] # a[j]
    <3>1. m \in 1 .. Len(a) + Len(b) /\ m <= Len(a)
      BY <1>2, <2>1
    <3>2. c[m] = a[m]
      BY <1>1, <3>1
    <3> QED BY <2>1, <3>2 DEF Firsts
  <2> QED BY <1>2, <2>1, <2>2 DEF Firsts
<1>5. ASSUME NEW j \in Firsts(c), ~(j <= Len(a)) PROVE j - Len(a) \in DOMAIN b /\ c[j] = b[j - Len(a)]
  BY <1>1, <1>2, <1>5 DEF Firsts
<1>6. CASE k <= Len(a)
  <2>1. i <= Len(a)
    BY <1>2, <1>3, <1>6
  <2> QED BY <1>4, <1>6, <2>1 DEF FirstsInOrder
<1>7. CASE i <= Len(a) /\ ~(k <= Len(a))
  <2>1. i \in 1 .. Len(a) /\ c[i] = a[i] /\ k - Len(a) \in 1 .. Len(b) /\ c[k] = b[k - Len(a)]
    BY <1>1, <1>2, <1>3, <1>5, <1>7
  <2>2. c[i] \in Elems(a) /\ c[k] \in Elems(b)
    BY <2>1, ElemsOf
  <2>3. c[k] \notin Elems(a)
    <3> SUFFICES ASSUME NEW m \in 1 .. Len(a), a[m] = c[k] PROVE FALSE
      BY ElemsOf
    <3>1. m \in 1 .. (k - 1) /\ m \in 1 .. Len(a) + Len(b) /\ m <= Len(a)
      BY <1>2, <1>3, <1>7
    <3>2. c[m] = a[m]
      BY <1>1, <3>1
    <3> QED BY <3>1, <3>2 DEF Firsts
  <2> QED BY <2>2, <2>3 DEF Before
<1>8. CASE ~(i <= Len(a))
  <2>1. ~(k <= Len(a)) /\ i - Len(a) < k - Len(a)
    BY <1>2, <1>3, <1>8
  <2> QED BY <1>5, <1>8, <2>1 DEF Incr
<1> QED BY <1>2, <1>3, <1>6, <1>7, <1>8

(* What holds where nothing is meant to be lost.  "Good" are the events of *)
(* operations that returned no error, and of the one in hand, which may    *)
(* still; the operation in hand has the store of before and more.          *)
Good == acked \cup (IF Busy THEN Elems(batch) ELSE {})
Sized == limit > 0 => Len(items) <= limit /\ Len(window) <= limit /\ Len(undo.items) <= limit
Increasing ==
    /\ Incr(pending \o items) /\ Incr(window)
    /\ Busy => Incr(undo.pending \o undo.items)
UndoInStore == pc \in {"archive", "window"} => InUndo \subseteq InStore
Follows ==
    /\ FirstsInOrder(archive, Good)
    /\ pc # "down" => Before(Elems(archive), InStore, Good)
    /\ Busy => Before(Elems(archive), InUndo, acked)
    /\ Before(Elems(archive), Elems(window), acked)
InOrder ==
    Lossless => cut = {} /\ (Busy => batch # << >>) /\ Sized /\ Increasing /\ UndoInStore /\ Follows

LEMMA OrderInit == Init => InOrder
<1> SUFFICES ASSUME Init PROVE InOrder
  OBVIOUS
<1>1. Elems(<< >>) = {} /\ << >> \o << >> = << >> /\ Len(<< >>) = 0
  BY ElemsEmpty, EmptySeq, ConcatEmptySeq
<1>2. Incr(<< >>) /\ DOMAIN << >> = {}
  BY DEF Incr
<1>3. FirstsInOrder(<< >>, Good)
  BY <1>2 DEF FirstsInOrder, Firsts
<1>4. undo.items = << >> /\ undo.pending = << >> /\ limit \in Nat
  BY LogAssumption DEF Init
<1> QED BY <1>1, <1>2, <1>3, <1>4 DEF Init, InOrder, Sized, Increasing, UndoInStore, Follows, Before, Busy

LEMMA IncrNoRepeats == ASSUME NEW s \in Seq(Event), Incr(s) PROVE NoRepeats(s)
<1>1. Len(s) \in Nat /\ DOMAIN s = 1 .. Len(s) /\ \A i \in DOMAIN s : s[i] \in Nat
  BY LenProperties, ElementOfSeq DEF Event
<1> SUFFICES ASSUME NEW i \in DOMAIN s, NEW k \in DOMAIN s, s[i] = s[k] PROVE i = k
  BY DEF NoRepeats
<1>2. ~(i < k) /\ ~(k < i)
  BY <1>1 DEF Incr
<1> QED BY <1>1, <1>2

LEMMA EnvKept == [Next]_vars => env' = env
BY DEF Next, vars, Operate, AppendArchive, SaveWindow, Succeed, Fail, TornWrite, Import, Crash, Start

(* Where nothing is lost there are no cut appends and no imports.          *)
LEMMA LosslessSteps ==
    ASSUME LogTyped, Lossless, Next
    PROVE  \/ \E n \in env.batches : Operate(n)
           \/ AppendArchive \/ SaveWindow \/ Succeed \/ Fail \/ Crash
           \/ \E l \in env.limits : Start(l)
<1>1. tears \in Nat /\ env.tears = 0 /\ ~ env.imports
  BY TypeMeans DEF LogTyped, Lossless
<1>2. ~ TornWrite
  BY <1>1 DEF TornWrite
<1>3. ~ Import
  BY <1>1 DEF Import
<1> QED BY <1>2, <1>3 DEF Next

LEMMA Numbers ==
    ASSUME LogTyped
    PROVE  /\ last \in Nat
           /\ \A e \in Elems(archive) \cup InStore \cup InUndo \cup Elems(window) \cup Elems(batch) \cup acked :
                 e \in Nat /\ e <= last
<1>1. /\ Elems(archive) \subseteq Nat /\ Elems(pending) \subseteq Nat /\ Elems(items) \subseteq Nat
      /\ Elems(undo.pending) \subseteq Nat /\ Elems(undo.items) \subseteq Nat
      /\ Elems(window) \subseteq Nat /\ Elems(batch) \subseteq Nat /\ acked \subseteq Nat /\ last \in Nat
  BY TypeMeans, ElemsOf DEF LogTyped, Event
<1> QED BY <1>1 DEF LogTyped, Numbered, Old, InStore, InUndo

LEMMA OrderStep == LogTyped /\ LossBounded /\ InOrder /\ [Next]_vars => InOrder'
<1> SUFFICES ASSUME LogTyped, LossBounded, InOrder, [Next]_vars, Lossless'
             PROVE  (cut = {} /\ (Busy => batch # << >>) /\ Sized /\ Increasing /\ UndoInStore /\ Follows)'
  BY DEF InOrder
<1>0. Lossless
  BY EnvKept DEF Lossless
<1>1. cut = {} /\ (Busy => batch # << >>) /\ Sized /\ Increasing /\ UndoInStore /\ Follows
  BY <1>0 DEF InOrder
<1>2. Missing({}) /\ ~ torn
  BY <1>0, NothingMissing DEF Lossless
<1>3. /\ items \in Seq(Event) /\ pending \in Seq(Event) /\ batch \in Seq(Event) /\ archive \in Seq(Event)
      /\ window \in Seq(Event) /\ undo.items \in Seq(Event) /\ undo.pending \in Seq(Event)
      /\ limit \in Nat /\ env.batches \subseteq Nat \ {0} /\ last \in Nat
  BY TypeMeans DEF LogTyped
<1>4. \A e \in Elems(archive) \cup InStore \cup InUndo \cup Elems(window) \cup Elems(batch) \cup acked :
          e \in Nat /\ e <= last
  BY Numbers
<1>e. Elems(<< >>) = {} /\ << >> \o items = items /\ << >> \o window = window
  BY <1>3, ElemsEmpty, ConcatEmptySeq
<1>i. Incr(pending) /\ Incr(items) /\ \A x \in Elems(pending), y \in Elems(items) : x < y
  BY <1>1, <1>3, IncrCat DEF Increasing
<1>5. CASE UNCHANGED vars
  BY <1>1, <1>5 DEF vars, memVars, diskVars, Sized, Increasing, UndoInStore, Follows, Good, Busy, InStore, InUndo
<1>6. ASSUME NEW n \in env.batches, Operate(n)
      PROVE  (cut = {} /\ (Busy => batch # << >>) /\ Sized /\ Increasing /\ UndoInStore /\ Follows)'
  <2>1. n \in Nat \ {0} /\ AppendEvents(n)
    BY <1>3, <1>6 DEF Operate
  <2> DEFINE new == NewEvents(n)
  <2>2. /\ new \in Seq(Event) /\ new # << >> /\ Incr(new) /\ Elems(new) = (last + 1) .. (last + n)
        /\ pending' \o items' = (pending \o items) \o new
        /\ Elems(pending') \cup Elems(items') = Elems(pending) \cup Elems(items) \cup Elems(new)
        /\ limit > 0 => Len(items') <= limit
    BY <2>1, Appended
  <2>3. /\ batch' = new /\ pc = "idle" /\ pc' = "archive" /\ undo'.items = items /\ undo'.pending = pending
        /\ UNCHANGED <<limit, archive, window, acked, cut>>
    BY <1>6 DEF Operate, diskVars
  <2>4. \A e \in Elems(new) : e \in Nat /\ last < e
    BY <1>3, <2>1, <2>2
  <2> HIDE DEF new
  <2>5. Incr(pending' \o items')
    <3>1. pending \o items \in Seq(Event) /\ Elems(pending \o items) = InStore
      BY <1>3, ElemsCat DEF InStore
    <3>2. \A x \in InStore, y \in Elems(new) : x < y
      BY <1>3, <1>4, <2>4
    <3>3. Incr((pending \o items) \o new)
      BY <1>1, <2>2, <3>1, <3>2, IncrCat DEF Increasing
    <3> QED BY <2>2, <3>3
  <2>6. InStore' = InStore \cup Elems(new) /\ InUndo' = InStore /\ Good = acked /\ Good' = acked \cup Elems(new)
    BY <2>2, <2>3 DEF InStore, InUndo, Good, Busy
  <2>7. \A e \in Elems(archive) \cup InStore : e \notin Elems(new)
    BY <1>3, <1>4, <2>4
  <2>8. FirstsInOrder(archive, Good')
    <3>1. \A i \in Firsts(archive) : archive[i] \in Elems(archive)
      BY DEF Firsts, Elems
    <3> QED BY <1>1, <2>6, <2>7, <3>1 DEF Follows, FirstsInOrder
  <2>9. Before(Elems(archive), InStore', Good')
    <3> SUFFICES ASSUME NEW e \in Elems(archive), NEW f \in InStore', e \in Good', f \in Good', f \notin Elems(archive)
                 PROVE  e < f
      BY DEF Before
    <3>1. e \in acked
      BY <2>6, <2>7
    <3>2. CASE f \in Elems(new)
      BY <1>3, <1>4, <2>4, <3>2
    <3>3. CASE f \notin Elems(new)
      BY <1>1, <2>3, <2>6, <3>1, <3>3 DEF Follows, Before
    <3> QED BY <3>2, <3>3
  <2>10. Follows'
    BY <1>1, <2>3, <2>6, <2>8, <2>9 DEF Follows
  <2>11. Sized' /\ Increasing' /\ UndoInStore'
    BY <1>1, <2>2, <2>3, <2>5, <2>6 DEF Sized, Increasing, UndoInStore
  <2> QED BY <1>1, <2>2, <2>3, <2>10, <2>11
<1>7. CASE AppendArchive
  <2>1. /\ pc = "archive" /\ pc' = "window" /\ archive' = archive \o pending
        /\ UNCHANGED <<limit, items, pending, undo, batch, window, acked, cut>>
    BY <1>2, <1>3, <1>7, WrittenIs DEF AppendArchive, memVars
  <2>2. Elems(archive') = Elems(archive) \cup Elems(pending)
    BY <1>3, <2>1, ElemsCat
  <2>3. /\ InStore' = InStore /\ InUndo' = InUndo /\ Good' = Good /\ acked \subseteq Good
        /\ InUndo \subseteq InStore /\ acked \subseteq Elems(archive) \cup InStore
    <3>1. acked \subseteq Elems(archive) \cup InStore
      BY <1>0, <1>1, <1>2, <2>1 DEF Missing, Calm, Lossless
    <3> QED BY <1>1, <2>1, <3>1 DEF InStore, InUndo, Good, Busy, UndoInStore
  <2>4. FirstsInOrder(archive', Good')
    <3>1. Before(Elems(archive), Elems(pending), Good)
      BY <1>1, <2>1 DEF Follows, Before, InStore
    <3>2. FirstsInOrder(archive \o pending, Good)
      BY <1>1, <1>3, <1>i, <3>1, FirstsCat DEF Follows
    <3> QED BY <2>1, <2>3, <3>2
  <2>5. ASSUME NEW e \in Elems(archive'), NEW f \in InStore, e \in Good, f \in Good, f \notin Elems(archive')
        PROVE  e < f
    <3>1. f \in Elems(items) /\ f \notin Elems(archive)
      BY <2>2, <2>5 DEF InStore
    <3>2. CASE e \in Elems(archive)
      BY <1>1, <2>1, <2>5, <3>1, <3>2 DEF Follows, Before
    <3>3. CASE e \in Elems(pending)
      BY <1>i, <3>1, <3>3
    <3> QED BY <2>2, <2>5, <3>2, <3>3
  <2>6. Before(Elems(archive'), InStore', Good')
    BY <2>3, <2>5 DEF Before
  <2>7. Before(Elems(archive'), InUndo', acked')
    BY <2>1, <2>3, <2>5 DEF Before
  <2>8. Before(Elems(archive'), Elems(window'), acked')
    BY <2>1, <2>2, <2>3, <2>5 DEF Before
  <2>9. Follows'
    BY <2>4, <2>6, <2>7, <2>8 DEF Follows
  <2>10. Sized' /\ Increasing' /\ UndoInStore'
    BY <1>1, <2>1, <2>3 DEF Sized, Increasing, UndoInStore, Busy
  <2> QED BY <1>1, <2>1, <2>9, <2>10 DEF Busy
<1>8. CASE SaveWindow
  <2>1. /\ pc = "window" /\ pc' = "rest" /\ window' = items /\ pending' = << >>
        /\ UNCHANGED <<limit, items, undo, batch, archive, acked, cut>>
    BY <1>8 DEF SaveWindow
  <2>2. InStore' = Elems(items) /\ InUndo' = InUndo /\ Good' = Good /\ acked \subseteq Good
    BY <1>e, <2>1 DEF InStore, InUndo, Good, Busy
  <2>3. Follows'
    BY <1>1, <2>1, <2>2 DEF Follows, Before, Busy, InStore
  <2>4. Sized' /\ Increasing' /\ UndoInStore'
    BY <1>1, <1>e, <1>i, <2>1 DEF Sized, Increasing, UndoInStore, Busy
  <2> QED BY <1>1, <2>1, <2>3, <2>4 DEF Busy
<1>9. CASE Succeed
  <2>1. /\ pc = "rest" /\ pc' = "idle" /\ acked' = acked \cup Elems(batch)
        /\ UNCHANGED <<limit, items, pending, undo, batch, archive, window, cut>>
    BY <1>9 DEF Succeed, memVars, diskVars
  <2>2. /\ Good' = Good /\ acked' = Good /\ InStore' = InStore /\ window = items
        /\ Elems(window) \subseteq InStore
    BY <1>2, <2>1 DEF Good, Busy, InStore, Missing
  <2>3. Follows'
    BY <1>1, <2>1, <2>2 DEF Follows, Before, Busy
  <2>4. Sized' /\ Increasing' /\ UndoInStore'
    BY <1>1, <2>1 DEF Sized, Increasing, UndoInStore, Busy
  <2> QED BY <1>1, <2>1, <2>3, <2>4 DEF Busy
<1>10. CASE Fail
  <2>1. /\ Busy /\ pc' = "idle" /\ items' = undo.items /\ pending' = undo.pending
        /\ UNCHANGED <<limit, undo, batch, archive, window, acked, cut>>
    BY <1>1, <1>10 DEF Fail, Restored, diskVars, Busy
  <2>2. InStore' = InUndo /\ Good' = acked /\ acked \subseteq Good
    BY <2>1 DEF InStore, InUndo, Good, Busy
  <2>3. Follows'
    BY <1>1, <2>1, <2>2 DEF Follows, Before, Busy, FirstsInOrder
  <2>4. Sized' /\ Increasing' /\ UndoInStore'
    BY <1>1, <2>1 DEF Sized, Increasing, UndoInStore, Busy
  <2> QED BY <1>1, <2>1, <2>3, <2>4 DEF Busy
<1>11. CASE Crash
  <2>1. pc' = "down" /\ UNCHANGED <<limit, items, pending, undo, batch, archive, window, acked, cut>>
    BY <1>11 DEF Crash, memVars, diskVars
  <2>2. Good' = acked /\ acked \subseteq Good
    BY <2>1 DEF Good, Busy
  <2>3. Follows'
    BY <1>1, <2>1, <2>2 DEF Follows, Before, Busy, FirstsInOrder
  <2>4. Sized' /\ Increasing' /\ UndoInStore'
    BY <1>1, <2>1 DEF Sized, Increasing, UndoInStore, Busy
  <2> QED BY <1>1, <2>1, <2>3, <2>4 DEF Busy
<1>12. ASSUME NEW l \in env.limits, Start(l)
       PROVE  (cut = {} /\ (Busy => batch # << >>) /\ Sized /\ Increasing /\ UndoInStore /\ Follows)'
  <2>1. /\ pc = "down" /\ pc' = "idle" /\ pending' = << >> /\ limit' = l
        /\ cut' = cut \cup (Elems(window) \ (Elems(items') \cup Elems(archive)))
        /\ UNCHANGED <<undo, batch, archive, window, acked>>
    BY <1>12 DEF Start, diskVars
  <2>2. l = limit
    BY <1>0, <1>12 DEF Lossless, LogTyped, TypeOK
  <2>3. l = 0 \/ Len(window) <= l
    BY <1>1, <1>3, <2>2 DEF Sized
  <2>4. dedupeEvents(window) = window
    BY <1>1, <1>3, IncrNoRepeats, NothingDropped DEF Increasing
  <2>5. items' = window
    BY <1>12, <2>3, <2>4, Started
  <2>6. InStore' = Elems(window) /\ Good' = acked /\ acked \subseteq Good
    BY <1>e, <2>1, <2>5 DEF InStore, Good, Busy
  <2>7. Follows'
    BY <1>1, <2>1, <2>6 DEF Follows, Busy, FirstsInOrder
  <2>8. Sized' /\ Increasing' /\ UndoInStore'
    BY <1>1, <1>e, <2>1, <2>2, <2>5 DEF Sized, Increasing, UndoInStore, Busy
  <2>9. cut' = {}
    BY <1>1, <2>1, <2>5
  <2> QED BY <2>1, <2>7, <2>8, <2>9 DEF Busy
<1>13. CASE Next
  BY <1>0, <1>6, <1>7, <1>8, <1>9, <1>10, <1>11, <1>12, <1>13, LosslessSteps
<1> QED BY <1>5, <1>13

(* The order of the exported history follows.                              *)
LEMMA OrderMeans == LogTyped /\ LossBounded /\ InOrder => AckedIsKept /\ HistoryInOrder
<1> SUFFICES ASSUME LogTyped, LossBounded, InOrder PROVE AckedIsKept /\ HistoryInOrder
  OBVIOUS
<1>0. archive \in Seq(Event) /\ pending \in Seq(Event) /\ items \in Seq(Event) /\ window \in Seq(Event)
  BY TypeMeans DEF LogTyped
<1>1. AckedIsKept
  <2>1. Elems(archive \o window) = Elems(archive) \cup Elems(window)
    BY <1>0, ElemsCat
  <2>2. ASSUME env.tears = 0, ~ env.imports
        PROVE  /\ pc = "idle" => acked \ cut \subseteq Elems(archive \o pending \o items)
               /\ acked \ cut \subseteq Elems(archive \o window)
    BY <2>1, <2>2, NothingMissing, HistoryIs DEF Missing, Calm, InStore
  <2> QED BY <2>2 DEF AckedIsKept, InOrder
<1>2. ASSUME pc = "idle", Lossless
      PROVE  \A i, k \in DOMAIN FullEvidence :
                i < k /\ {FullEvidence[i], FullEvidence[k]} \subseteq acked => FullEvidence[i] < FullEvidence[k]
  <2> DEFINE h == archive \o pending \o items
             d == FullEvidence
  <2>1. h \in Seq(Event) /\ h = archive \o (pending \o items)
    BY HistoryIs
  <2>2. FirstsInOrder(h, acked)
    <3> DEFINE m == pending \o items
    <3>1. m \in Seq(Event) /\ Elems(m) = InStore
      BY <1>0, ElemsCat DEF InStore
    <3>2. FirstsInOrder(archive, acked) /\ Before(Elems(archive), InStore, acked) /\ Incr(m)
      BY <1>2 DEF InOrder, Follows, Increasing, Good, Busy
    <3> HIDE DEF m
    <3>3. FirstsInOrder(archive \o m, acked)
      BY <1>0, <3>1, <3>2, FirstsCat
    <3> QED BY <2>1, <3>3 DEF m
  <2>3. \A i, k \in DOMAIN d : i < k => \E p, q \in Firsts(h) : p < q /\ d[i] = h[p] /\ d[k] = h[q]
    BY <2>1, Deduped DEF FullEvidence
  <2> HIDE DEF h, d
  <2>4. \A i, k \in DOMAIN d : i < k /\ {d[i], d[k]} \subseteq acked => d[i] < d[k]
    BY <2>2, <2>3 DEF FirstsInOrder
  <2> QED BY <2>4 DEF d
<1> QED BY <1>1, <1>2 DEF HistoryInOrder
-----------------------------------------------------------------------------
(* The count.  As long as nothing failed, the archive and the store hold   *)
(* each event once and the count is the length of the archive, but for the *)
(* moment when the archive is written and the window is not.               *)
Clean == ~ env.faults /\ tears = 0 /\ crashes = 0
Counted ==
    Clean => /\ pc # "down"
             /\ pc # "window" => NoRepeats(archive \o pending \o items) /\ count = Len(archive)
             /\ pc = "window" => NoRepeats(archive \o items) /\ Len(archive) = count + Len(pending)

LEMMA NoRepeatsCat ==
    ASSUME NEW a \in Seq(Event), NEW b \in Seq(Event), NoRepeats(a), NoRepeats(b),
           Elems(a) \cap Elems(b) = {}
    PROVE  NoRepeats(a \o b)
<1> DEFINE c == a \o b
<1>1. /\ c \in Seq(Event) /\ Len(c) = Len(a) + Len(b)
      /\ \A i \in 1 .. Len(a) + Len(b) : c[i] = IF i <= Len(a) THEN a[i] ELSE b[i - Len(a)]
  BY ConcatProperties
<1>2. /\ Len(a) \in Nat /\ DOMAIN a = 1 .. Len(a) /\ Len(b) \in Nat /\ DOMAIN b = 1 .. Len(b)
      /\ DOMAIN c = 1 .. Len(a) + Len(b)
  BY <1>1, LenProperties
<1> HIDE DEF c
<1>3. ASSUME NEW i \in DOMAIN c, i <= Len(a) PROVE i \in DOMAIN a /\ c[i] = a[i] /\ c[i] \in Elems(a)
  BY <1>1, <1>2, <1>3 DEF Elems
<1>4. ASSUME NEW i \in DOMAIN c, ~(i <= Len(a))
      PROVE  i - Len(a) \in DOMAIN b /\ c[i] = b[i - Len(a)] /\ c[i] \in Elems(b)
  <2>1. i - Len(a) \in DOMAIN b /\ c[i] = b[i - Len(a)]
    BY <1>1, <1>2, <1>4
  <2> QED BY <2>1 DEF Elems
<1> SUFFICES ASSUME NEW i \in DOMAIN c, NEW k \in DOMAIN c, c[i] = c[k] PROVE i = k
  BY DEF NoRepeats, c
<1>5. CASE i <= Len(a) /\ k <= Len(a)
  BY <1>3, <1>5 DEF NoRepeats
<1>6. CASE ~(i <= Len(a)) /\ ~(k <= Len(a))
  <2>1. i - Len(a) = k - Len(a)
    BY <1>4, <1>6 DEF NoRepeats
  <2> QED BY <1>2, <2>1
<1>7. CASE ~(i <= Len(a) <=> k <= Len(a))
  BY <1>3, <1>4, <1>7
<1> QED BY <1>5, <1>6, <1>7

LEMMA CountInit == Init => Counted
<1> SUFFICES ASSUME Init PROVE Counted
  OBVIOUS
<1>1. << >> \o << >> = << >> /\ Len(<< >>) = 0
  BY EmptySeq, ConcatEmptySeq
<1>2. NoRepeats(<< >>)
  BY DEF NoRepeats
<1> QED BY <1>1, <1>2 DEF Init, Counted

LEMMA CountStep == LogTyped /\ LossBounded /\ Counted /\ [Next]_vars => Counted'
<1> SUFFICES ASSUME LogTyped, LossBounded, Counted, [Next]_vars, Clean'
             PROVE  (/\ pc # "down"
                     /\ pc # "window" => NoRepeats(archive \o pending \o items) /\ count = Len(archive)
                     /\ pc = "window" => NoRepeats(archive \o items) /\ Len(archive) = count + Len(pending))'
  BY DEF Counted
<1>0. /\ items \in Seq(Event) /\ pending \in Seq(Event) /\ archive \in Seq(Event)
      /\ env.batches \subseteq Nat \ {0} /\ last \in Nat /\ tears \in Nat /\ crashes \in Nat
      /\ torn \in BOOLEAN /\ count \in Nat
  BY TypeMeans DEF LogTyped, TypeOK
<1>1. Clean /\ ~ Fail /\ ~ TornWrite /\ ~ Crash
  <2>1. env' = env
    BY EnvKept
  <2>2. ~ Fail /\ ~ TornWrite /\ ~ Crash
    BY <1>0, <2>1 DEF Clean, Fail, TornWrite, Crash
  <2>3. tears' = tears /\ crashes' = crashes
    BY <2>2 DEF Next, vars, Operate, AppendArchive, SaveWindow, Succeed, Import, Start
  <2> QED BY <2>1, <2>2, <2>3 DEF Clean
<1>2. /\ pc # "down"
      /\ pc # "window" => NoRepeats(archive \o pending \o items) /\ count = Len(archive)
      /\ pc = "window" => NoRepeats(archive \o items) /\ Len(archive) = count + Len(pending)
  BY <1>1 DEF Counted
<1>3. ~ torn
  <2>1. PICK L : IsFiniteSet(L) /\ Cardinality(L) + Pieces <= tears
    BY DEF LossBounded
  <2>2. Cardinality(L) \in Nat
    BY <2>1, FS_CardinalityType
  <2> QED BY <1>0, <1>1, <2>1, <2>2 DEF Clean, Pieces
<1>4. CASE UNCHANGED vars
  BY <1>2, <1>4 DEF vars, memVars, diskVars
<1>5. ASSUME NEW n \in env.batches, Operate(n)
      PROVE  pc' = "archive" /\ NoRepeats(archive' \o pending' \o items') /\ count' = Len(archive')
  <2>1. n \in Nat \ {0} /\ AppendEvents(n)
    BY <1>0, <1>5 DEF Operate
  <2> DEFINE new == NewEvents(n)
             h == archive \o pending \o items
             m == pending \o items
  <2>2. /\ new \in Seq(Event) /\ Incr(new) /\ Elems(new) = (last + 1) .. (last + n)
        /\ pending' \in Seq(Event) /\ items' \in Seq(Event) /\ pending' \o items' = m \o new
    BY <2>1, Appended
  <2>3. pc = "idle" /\ pc' = "archive" /\ archive' = archive /\ count' = count
    BY <1>5 DEF Operate, diskVars
  <2>4. h \in Seq(Event) /\ Elems(h) = Elems(archive) \cup InStore /\ h = archive \o m /\ NoRepeats(h)
    BY <1>2, <2>3, HistoryIs DEF InStore
  <2>5. m \in Seq(Event)
    BY <1>0, ElemsCat
  <2> HIDE DEF new, h, m
  <2>6. Elems(h) \cap Elems(new) = {}
    BY <1>0, <2>2, <2>4, Numbers
  <2>7. NoRepeats(h \o new)
    BY <2>2, <2>4, <2>6, IncrNoRepeats, NoRepeatsCat
  <2>8. archive' \o pending' \o items' = h \o new
    <3>1. \A p, i \in Seq(Event) : archive \o p \o i = archive \o (p \o i)
      BY <1>0, ConcatAssociative
    <3>2. archive \o (m \o new) = (archive \o m) \o new
      BY <2>2, <2>5, <3>1
    <3> QED BY <2>2, <2>3, <2>4, <3>1, <3>2
  <2> QED BY <1>2, <2>3, <2>7, <2>8
<1>6. CASE AppendArchive
  <2>1. pc = "archive" /\ pc' = "window" /\ archive' = archive \o pending /\ UNCHANGED <<items, pending, count>>
    BY <1>0, <1>3, <1>6, WrittenIs DEF AppendArchive, memVars
  <2>2. Len(archive \o pending) = Len(archive) + Len(pending)
    BY <1>0, ConcatProperties
  <2>3. Len(archive') = count' + Len(pending')
    BY <1>2, <2>1, <2>2
  <2>4. NoRepeats(archive' \o items')
    BY <1>2, <2>1
  <2> QED BY <2>1, <2>3, <2>4
<1>7. CASE SaveWindow
  <2>1. /\ pc = "window" /\ pc' = "rest" /\ pending' = << >> /\ count' = count + Len(pending)
        /\ UNCHANGED <<items, archive>>
    BY <1>7 DEF SaveWindow
  <2>2. archive \o << >> = archive
    BY <1>0, ConcatEmptySeq
  <2>3. NoRepeats(archive' \o pending' \o items')
    BY <1>2, <2>1, <2>2
  <2> QED BY <1>2, <2>1, <2>3
<1>8. CASE Succeed
  <2>1. pc = "rest" /\ pc' = "idle" /\ UNCHANGED <<items, pending, count, archive>>
    BY <1>8 DEF Succeed, memVars, diskVars
  <2> QED BY <1>2, <2>1
<1>9. CASE Import
  <2>1. pc' = "archive" /\ archive' = << >> /\ count' = 0
    BY <1>9 DEF Import
  <2>2. pending' \in Seq(Event) /\ items' \in Seq(Event) /\ NoRepeats(pending' \o items')
    BY <1>9, Imported
  <2>3. << >> \o pending' = pending' /\ Len(<< >>) = 0
    BY <2>2, ConcatEmptySeq, EmptySeq
  <2>4. NoRepeats(archive' \o pending' \o items')
    BY <2>1, <2>2, <2>3
  <2> QED BY <2>1, <2>3, <2>4
<1>10. ASSUME NEW l \in env.limits PROVE ~ Start(l)
  BY <1>2 DEF Start
<1> QED BY <1>1, <1>4, <1>5, <1>6, <1>7, <1>8, <1>9, <1>10 DEF Next

LEMMA CountMeans == LogTyped /\ Counted => CountIsLength
<1> SUFFICES ASSUME LogTyped, Counted, pc = "idle", Clean
             PROVE  count + Len(pending) + Len(items) = Len(FullEvidence)
  BY DEF CountIsLength, Clean
<1>0. archive \in Seq(Event) /\ pending \in Seq(Event) /\ items \in Seq(Event)
  BY TypeMeans DEF LogTyped
<1> DEFINE h == archive \o pending \o items
<1>1. h \in Seq(Event) /\ NoRepeats(h) /\ count = Len(archive) /\ h = archive \o (pending \o items)
  BY HistoryIs DEF Counted
<1>2. pending \o items \in Seq(Event) /\ Len(pending \o items) = Len(pending) + Len(items)
  BY <1>0, ConcatProperties
<1>3. Len(archive \o (pending \o items)) = Len(archive) + Len(pending \o items)
  BY <1>0, <1>2, ConcatProperties
<1>4. FullEvidence = h
  BY <1>1, NothingDropped DEF FullEvidence
<1>5. Len(archive) \in Nat /\ Len(pending) \in Nat /\ Len(items) \in Nat
  BY <1>0, LenProperties
<1> QED BY <1>1, <1>2, <1>3, <1>4, <1>5

LogInv == LogTyped /\ LossBounded /\ InOrder /\ Counted
LEMMA LogInit == Init => LogInv
BY LogTypedInit, LossInit, OrderInit, CountInit DEF LogInv
LEMMA LogStepKeeps == LogInv /\ [Next]_vars => LogInv'
BY LogTypedStep, LossStep, OrderStep, CountStep DEF LogInv
LEMMA LogMeans == LogInv => HistoryKept
BY LossMeans, OrderMeans, CountMeans DEF LogInv, LogTyped, HistoryKept
-----------------------------------------------------------------------------
(* The window, where nothing is meant to be lost.  W overlaps X: what it   *)
(* has of X it has to the end, and the rest is newer.  An event that X     *)
(* does not have any more has been followed by as many as the limit.       *)
Overlaps(X, W) == \A w \in W : \/ \A x \in X : x < w
                               \/ w \in X /\ \A x \in X : w < x => x \in W
Passed(X, G) == \A e \in G \ X : limit > 0 /\ e + limit <= last
Window ==
    /\ pc = "idle" => Overlaps(Elems(items), Elems(window))
    /\ Busy => Overlaps(Elems(undo.items), Elems(window))
    /\ Busy => \A x \in Elems(undo.items), b \in Elems(batch) : x < b
    /\ pc \in {"archive", "window"} =>
          \A w \in Elems(items) : \/ w \in Elems(batch)
                                  \/ w \in Elems(undo.items) /\ \A x \in Elems(undo.items) : w < x => x \in Elems(items)
    /\ pc # "down" => Passed(Elems(items), Good)
    /\ Busy => Passed(Elems(undo.items), acked)
    /\ Passed(Elems(window), acked)
Windowed == Lossless => Window

LEMMA WindowInit == Init => Windowed
<1> SUFFICES ASSUME Init PROVE Window
  BY DEF Windowed
<1>1. Elems(<< >>) = {}
  BY ElemsEmpty
<1> QED BY <1>1 DEF Init, Window, Overlaps, Passed, Good, Busy

(* An increasing sequence between two numbers is no longer than they are   *)
(* apart.                                                                  *)
LEMMA Crowded ==
    ASSUME NEW s \in Seq(Event), Incr(s), NEW e \in Nat, NEW f \in Nat, e <= f,
           \A x \in Elems(s) : e < x /\ x <= f
    PROVE  e + Len(s) <= f
<1>1. Len(s) \in Nat /\ DOMAIN s = 1 .. Len(s) /\ \A i \in DOMAIN s : s[i] \in Nat /\ s[i] \in Elems(s)
  BY LenProperties, ElementOfSeq DEF Event, Elems
<1>2. s \in Injection(1 .. Len(s), (e + 1) .. f)
  <2>1. s \in [1 .. Len(s) -> (e + 1) .. f]
    <3>1. \A i \in 1 .. Len(s) : s[i] \in (e + 1) .. f
      BY <1>1
    <3>2. s = [i \in 1 .. Len(s) |-> s[i]]
      BY <1>1, LenProperties
    <3> QED BY <3>1, <3>2
  <2>2. IsInjective(s)
    BY <1>1, IncrNoRepeats DEF NoRepeats, IsInjective
  <2> QED BY <2>1, <2>2 DEF Injection
<1>3. /\ IsFiniteSet((e + 1) .. f) /\ Cardinality((e + 1) .. f) = f - e
      /\ Cardinality(1 .. Len(s)) = Len(s)
  <2>1. /\ IsFiniteSet((e + 1) .. f)
        /\ Cardinality((e + 1) .. f) = IF e + 1 > f THEN 0 ELSE f - (e + 1) + 1
    BY FS_Interval
  <2>2. Cardinality(1 .. Len(s)) = IF 1 > Len(s) THEN 0 ELSE Len(s) - 1 + 1
    BY <1>1, FS_Interval
  <2> QED BY <1>1, <2>1, <2>2
<1>4. Cardinality(1 .. Len(s)) <= Cardinality((e + 1) .. f)
  BY <1>2, <1>3, FS_Injection
<1> QED BY <1>1, <1>3, <1>4

LEMMA WindowStep == LogInv /\ Windowed /\ [Next]_vars => Windowed'
<1> SUFFICES ASSUME LogInv, Windowed, [Next]_vars, Lossless' PROVE Window'
  BY DEF Windowed
<1>0. Lossless
  BY EnvKept DEF Lossless
<1>1. Window /\ LogTyped /\ Missing({})
  BY <1>0, NothingMissing DEF Windowed, LogInv, Lossless
<1>2. cut = {} /\ (Busy => batch # << >>) /\ Sized /\ Increasing
  BY <1>0 DEF LogInv, InOrder
<1>3. /\ items \in Seq(Event) /\ pending \in Seq(Event) /\ window \in Seq(Event)
      /\ limit \in Nat /\ env.batches \subseteq Nat \ {0} /\ last \in Nat
  BY <1>1, TypeMeans DEF LogTyped
<1>4. \A e \in Elems(items) \cup Elems(undo.items) \cup Elems(window) \cup Elems(batch) \cup acked :
          e \in Nat /\ e <= last
  BY <1>1, Numbers DEF InStore, InUndo
<1>5. CASE UNCHANGED vars
  BY <1>1, <1>5 DEF vars, memVars, diskVars, Window, Passed, Good, Busy
<1>6. ASSUME NEW n \in env.batches, Operate(n) PROVE Window'
  <2>1. n \in Nat \ {0} /\ AppendEvents(n)
    BY <1>3, <1>6 DEF Operate
  <2> DEFINE new == NewEvents(n)
             all == items \o new
  <2>2. /\ new \in Seq(Event) /\ Incr(new) /\ Elems(new) = (last + 1) .. (last + n)
        /\ items' \in Seq(Event) /\ Elems(items') \subseteq Elems(items) \cup Elems(new)
    BY <1>1, <2>1, Appended
  <2>3. PICK over \in Nat : /\ Len(items') = Len(items) + n - over
                            /\ over > 0 => limit > 0 /\ Len(items') = limit
                            /\ over = 0 => items' = all
                            /\ all = Oldest(all, over) \o items'
    BY <1>1, <2>1, Appended
  <2>4. /\ batch' = new /\ last' = last + n /\ pc = "idle" /\ pc' = "archive" /\ undo'.items = items
        /\ UNCHANGED <<limit, window, acked>>
    BY <1>6 DEF Operate, diskVars
  <2>5. \A e \in Elems(new) : e \in Nat /\ last < e /\ e <= last'
    BY <1>3, <2>1, <2>2, <2>4
  <2>6. \A x \in Elems(items), y \in Elems(new) : x < y
    BY <1>3, <1>4, <2>5
  <2>7. all \in Seq(Event) /\ Elems(all) = Elems(items) \cup Elems(new) /\ Len(all) = Len(items) + n
    <3>1. Len(new) = n
      <4>1. DOMAIN new = 1 .. n /\ DOMAIN new = 1 .. Len(new) /\ Len(new) \in Nat
        BY <2>2, LenProperties DEF NewEvents
      <4>2. n \in 1 .. Len(new)
        BY <2>1, <4>1
      <4>3. Len(new) \in 1 .. n
        BY <4>1, <4>2
      <4> QED BY <2>1, <4>2, <4>3
    <3> HIDE DEF new
    <3>2. items \in Seq(Event) /\ new \in Seq(Event)
      BY <1>3, <2>2
    <3>3. all \in Seq(Event) /\ Elems(all) = Elems(items) \cup Elems(new)
      BY <3>2, ElemsCat
    <3>4. Len(all) = Len(items) + Len(new)
      BY <3>2, ConcatProperties
    <3> QED BY <3>1, <3>3, <3>4
  <2>8. Incr(all)
    <3>1. Incr(items)
      BY <1>2, <1>3, IncrCat DEF Increasing
    <3> HIDE DEF new
    <3> QED BY <1>3, <2>2, <2>6, <3>1, IncrCat
  <2> HIDE DEF new, all
  <2>9. /\ Elems(all) = Elems(Oldest(all, over)) \cup Elems(items')
        /\ Incr(items') /\ \A x \in Elems(Oldest(all, over)), y \in Elems(items') : x < y
    <3>1. over \in 0 .. Len(all)
      <4>1. Len(items') \in Nat /\ Len(all) \in Nat /\ Len(items) \in Nat
        BY <1>3, <2>2, <2>7, LenProperties
      <4>2. Len(items') = Len(all) - over
        BY <2>1, <2>3, <2>7, <4>1
      <4> QED BY <4>1, <4>2
    <3> DEFINE out == Oldest(all, over)
    <3>2. out \in Seq(Event)
      BY <2>7, <3>1, Halves
    <3> HIDE DEF out
    <3>3. all = out \o items'
      BY <2>3 DEF out
    <3>4. /\ Elems(out \o items') = Elems(out) \cup Elems(items')
          /\ Incr(out \o items') <=> Incr(out) /\ Incr(items') /\ \A x \in Elems(out), y \in Elems(items') : x < y
      BY <2>2, <3>2, ElemsCat, IncrCat
    <3>5. /\ Elems(all) = Elems(out) \cup Elems(items') /\ Incr(items')
          /\ \A x \in Elems(out), y \in Elems(items') : x < y
      BY <2>8, <3>3, <3>4
    <3> QED BY <3>5 DEF out
  <2>10. ASSUME NEW w \in Elems(items'), w \notin Elems(new)
         PROVE  w \in Elems(items) /\ \A x \in Elems(items) : w < x => x \in Elems(items')
    <3>1. w \in Elems(items)
      BY <2>2, <2>10
    <3> SUFFICES ASSUME NEW x \in Elems(items), w < x, x \notin Elems(items') PROVE FALSE
      BY <3>1
    <3>2. x < w
      BY <2>7, <2>9, <2>10
    <3> QED BY <1>4, <3>1, <3>2
  <2>11. ASSUME NEW e \in Elems(all) \ Elems(items') PROVE limit > 0 /\ e + limit <= last'
    <3>1. e \in Elems(Oldest(all, over)) /\ \A y \in Elems(items') : e < y
      BY <2>9, <2>11
    <3>2. over # 0
      BY <2>3, <2>11
    <3>3. limit > 0 /\ Len(items') = limit
      BY <2>3, <3>2
    <3>4. e \in Nat /\ e <= last' /\ last' \in Nat /\ \A y \in Elems(items') : y <= last'
      BY <1>3, <1>4, <2>1, <2>2, <2>4, <2>5, <2>7, <2>11
    <3>5. e + Len(items') <= last'
      BY <2>2, <2>9, <3>1, <3>4, Crowded
    <3> QED BY <3>3, <3>5
  <2>12. Good = acked /\ Good' = acked \cup Elems(new)
    BY <2>4 DEF Good, Busy
  <2>13. \A e \in acked : e + limit <= last => e + limit <= last'
    BY <1>3, <1>4, <2>1, <2>4
  <2>14. ASSUME NEW e \in Good' \ Elems(items') PROVE limit > 0 /\ e + limit <= last'
    <3>1. CASE e \in Elems(all)
      BY <2>11, <2>14, <3>1
    <3>2. CASE e \notin Elems(all)
      BY <1>1, <2>4, <2>7, <2>12, <2>13, <2>14, <3>2 DEF Window, Passed
    <3> QED BY <3>1, <3>2
  <2>15. /\ \A e \in acked \ Elems(items) : limit > 0 /\ e + limit <= last'
         /\ \A e \in acked \ Elems(window) : limit > 0 /\ e + limit <= last'
    BY <1>1, <2>4, <2>12, <2>13 DEF Window, Passed
  <2>16. /\ Overlaps(Elems(undo'.items), Elems(window')) /\ \A x \in Elems(undo'.items), b \in Elems(batch') : x < b
    BY <1>1, <2>4, <2>6 DEF Window
  <2> QED BY <2>4, <2>10, <2>14, <2>15, <2>16 DEF Window, Passed, Busy
<1>7. CASE AppendArchive
  <2>1. /\ pc = "archive" /\ pc' = "window"
        /\ UNCHANGED <<limit, items, undo, batch, window, acked, last>>
    BY <1>7 DEF AppendArchive, memVars
  <2> QED BY <1>1, <2>1 DEF Window, Passed, Good, Busy
<1>8. CASE SaveWindow
  <2>1. /\ pc = "window" /\ pc' = "rest" /\ window' = items
        /\ UNCHANGED <<limit, items, undo, batch, acked, last>>
    BY <1>8 DEF SaveWindow
  <2>2. Overlaps(Elems(undo.items), Elems(items))
    BY <1>1, <2>1 DEF Window, Overlaps, Busy
  <2>3. Passed(Elems(items), acked)
    BY <1>1, <2>1 DEF Window, Passed, Good
  <2> QED BY <1>1, <2>1, <2>2, <2>3 DEF Window, Passed, Good, Busy
<1>9. CASE Succeed
  <2>1. /\ pc = "rest" /\ pc' = "idle" /\ acked' = acked \cup Elems(batch)
        /\ UNCHANGED <<limit, items, undo, batch, window, last>>
    BY <1>9 DEF Succeed, memVars, diskVars
  <2>2. window = items /\ Good' = Good /\ acked' = Good
    BY <1>1, <2>1 DEF Missing, Good, Busy
  <2>3. Overlaps(Elems(items), Elems(items))
    BY DEF Overlaps
  <2>4. Passed(Elems(items), Good)
    BY <1>1, <2>1 DEF Window
  <2> QED BY <2>1, <2>2, <2>3, <2>4 DEF Window, Passed, Busy
<1>10. CASE Fail
  <2>1. Busy /\ pc' = "idle" /\ items' = undo.items /\ UNCHANGED <<limit, window, acked, last>>
    BY <1>2, <1>10 DEF Fail, Restored, diskVars, Busy
  <2> QED BY <1>1, <2>1 DEF Window, Passed, Good, Busy
<1>11. CASE Crash
  <2>1. pc' = "down" /\ UNCHANGED <<limit, window, acked, last>>
    BY <1>11 DEF Crash, memVars, diskVars
  <2> QED BY <1>1, <2>1 DEF Window, Passed, Busy
<1>12. ASSUME NEW l \in env.limits, Start(l) PROVE Window'
  <2>1. pc' = "idle" /\ limit' = l /\ UNCHANGED <<window, acked, last>>
    BY <1>12 DEF Start, diskVars
  <2>2. l = limit
    BY <1>0, <1>1, <1>12 DEF Lossless, LogTyped, TypeOK
  <2>3. l = 0 \/ Len(window) <= l
    BY <1>2, <1>3, <2>2 DEF Sized
  <2>4. dedupeEvents(window) = window
    BY <1>2, <1>3, IncrNoRepeats, NothingDropped DEF Increasing
  <2>5. items' = window
    BY <1>1, <1>12, <2>3, <2>4, Started
  <2>6. Overlaps(Elems(window), Elems(window))
    BY DEF Overlaps
  <2> QED BY <1>1, <2>1, <2>2, <2>5, <2>6 DEF Window, Passed, Good, Busy
<1>13. CASE Next
  BY <1>0, <1>1, <1>6, <1>7, <1>8, <1>9, <1>10, <1>11, <1>12, <1>13, LosslessSteps
<1> QED BY <1>5, <1>13
-----------------------------------------------------------------------------
(* The stream.  Its types and numbers; while nothing crashed the window    *)
(* holds only events of operations that returned no error.                 *)
StreamTyped ==
    /\ stream \in {"off", "on"} /\ received \in Seq(Event) /\ sent \subseteq Event
    /\ polled \in Nat /\ polled <= last /\ late \in BOOLEAN
    /\ Old(received) /\ (\A e \in sent : e <= last)
    /\ stream = "on" => pc # "down"
Committed ==
    crashes = 0 /\ ~ env.imports =>
        /\ Elems(received) \subseteq acked
        /\ pc = "idle" => Elems(items) \subseteq acked
        /\ Busy => /\ batch # << >> /\ Elems(undo.items) \subseteq acked
                   /\ Elems(items) \subseteq acked \cup Elems(batch)

(* A window X is in line with what the browser got: an event of it is      *)
(* newer, or was received and so was the last one received, which X holds. *)
Newer(e) == \A r \in Elems(received) : r < e
InLine(X) == \A e \in X : Newer(e) \/ (e \in Elems(received) /\ LastID \in X)
Marked(X) == \A e \in X : e \in sent <=> e \in Elems(received)
Timely ==
    /\ Incr(received)
    /\ \A e \in acked : e <= polled => e \in Elems(received)
    /\ pc # "down" => InLine(Elems(items))
    /\ Busy => InLine(Elems(undo.items)) /\ \A b \in Elems(batch) : polled < b
    /\ InLine(Elems(window))
    /\ stream = "on" => Marked(Elems(items)) /\ (Busy => Marked(Elems(undo.items)))
InTime == Lossless /\ ~ late => Timely

StreamInv == LogInv /\ Windowed /\ StreamTyped /\ Committed /\ InTime

LEMMA StreamStarts == StreamInit => StreamInv
<1> SUFFICES ASSUME StreamInit PROVE StreamInv
  OBVIOUS
<1>1. LogInv /\ Windowed
  BY LogInit, WindowInit DEF StreamInit
<1>2. << >> \in Seq(Event) /\ Elems(<< >>) = {} /\ Incr(<< >>)
  BY EmptySeq, ElemsEmpty DEF Incr
<1>3. StreamTyped
  <2>1. /\ stream = "off" /\ sent = {} /\ received = << >> /\ polled = 0 /\ late = FALSE
        /\ last = 0 /\ pc = "idle"
    BY DEF StreamInit, Init
  <2>2. received \in Seq(Event) /\ Elems(received) = {}
    BY <1>2, <2>1
  <2>3. polled \in Nat /\ polled <= last
    BY <2>1
  <2>4. late \in BOOLEAN
    BY <2>1, Zenon
  <2> QED BY <2>1, <2>2, <2>3, <2>4 DEF StreamTyped, Old
<1>4. Committed /\ InTime
  BY <1>2 DEF StreamInit, Init, Committed, InTime, Timely, InLine, Busy
<1> QED BY <1>1, <1>3, <1>4 DEF StreamInv

LEMMA StreamTypedStep == StreamInv /\ [StreamNext]_<<vars, streamVars>> => StreamTyped'
<1> SUFFICES ASSUME StreamInv, [StreamNext]_<<vars, streamVars>> PROVE StreamTyped'
  OBVIOUS
<1>1. LogTyped /\ StreamTyped
  BY DEF StreamInv, LogInv
<1>2. items \in Seq(Event) /\ last \in Nat /\ Elems(items) \subseteq Event /\ \A e \in Elems(items) : e <= last
  BY <1>1, TypeMeans, ElemsOf DEF LogTyped, Numbered, Old
<1>3. CASE UNCHANGED <<vars, streamVars>>
  BY <1>1, <1>3 DEF vars, streamVars, StreamTyped, Old
<1>4. CASE LogStep
  <2>1. last' \in Nat /\ last <= last'
    <3>1. last' \in Nat
      BY <1>1, <1>4, LogTypedStep, TypeMeans DEF LogStep, LogTyped, TypeOK
    <3>2. \A n \in env.batches : n \in Nat
      BY <1>1, TypeMeans DEF LogTyped
    <3>3. \/ last' = last
          \/ \E n \in Nat : last' = last + n
      BY <1>4, <3>2 DEF LogStep, Next, Operate, AppendArchive, SaveWindow, Succeed, Fail, TornWrite, Import,
                         Crash, Start
    <3> QED BY <1>2, <3>1, <3>3
  <2>2. /\ received' = received /\ polled' = polled /\ late' = late
        /\ sent' \subseteq sent /\ stream' \in {stream, "off"} /\ (pc' = "down" => stream' = "off")
    BY <1>4 DEF LogStep, streamVars
  <2>3. Elems(received) \subseteq Nat /\ sent \subseteq Nat
    BY <1>1, ElemsOf DEF StreamTyped, Event
  <2>4. \A e \in Elems(received) \cup sent : e <= last'
    <3>1. \A e \in Nat : e <= last => e <= last'
      BY <1>2, <2>1
    <3> QED BY <1>1, <2>3, <3>1 DEF StreamTyped, Old
  <2>5. polled <= last'
    BY <1>1, <1>2, <2>1 DEF StreamTyped
  <2> QED BY <1>1, <2>2, <2>4, <2>5 DEF StreamTyped, Old
<1>5. CASE Connect
  <2>1. sent' \subseteq Elems(items) /\ last' = last /\ pc' = pc /\ pc = "idle"
    BY <1>5 DEF Connect, seedSeenEvents, Elems, vars, ListEventsReady
  <2> QED BY <1>1, <1>2, <1>5, <2>1 DEF Connect, StreamTyped, Old
<1>6. CASE Disconnect
  <2>1. last' = last
    BY <1>6 DEF Disconnect, vars
  <2> QED BY <1>1, <1>6, <2>1 DEF Disconnect, StreamTyped, Old
<1>7. CASE Poll
  <2> DEFINE P == {i \in DOMAIN items : items[i] \notin sent}
             new == Picked(items, P)
  <2>1. new \in Seq(Event) /\ Elems(new) = {items[i] : i \in P}
    BY <1>2, PickedIs
  <2>2. Elems(new) \subseteq Elems(items)
    BY <2>1 DEF Elems
  <2>3. /\ received' = received \o new /\ sent' = sent \cup Elems(items) /\ polled' = last /\ last' = last
        /\ stream' = stream /\ pc' = pc /\ late' \in BOOLEAN
    BY <1>7 DEF Poll, vars
  <2> HIDE DEF new, P
  <2>4. received' \in Seq(Event) /\ Elems(received') = Elems(received) \cup Elems(new)
    <3>1. received \o new \in Seq(Event) /\ Elems(received \o new) = Elems(received) \cup Elems(new)
      BY <1>1, <2>1, ElemsCat DEF StreamTyped
    <3> QED BY <2>3, <3>1
  <2> QED BY <1>1, <1>2, <2>2, <2>3, <2>4 DEF StreamTyped, Old
<1> QED BY <1>3, <1>4, <1>5, <1>6, <1>7 DEF StreamNext

(* What a poll sends: the events of the window it has not sent, in order.  *)
LEMMA Polled ==
    ASSUME LogTyped, StreamTyped, Poll
    PROVE  \E new \in Seq(Event) :
              /\ received' = received \o new /\ Elems(new) = Elems(items) \ sent
              /\ Incr(items) => Incr(new)
<1> DEFINE P == {i \in DOMAIN items : items[i] \notin sent}
           new == Picked(items, P)
<1>0. items \in Seq(Event) /\ P \in SUBSET DOMAIN items
  BY TypeMeans DEF LogTyped
<1>1. /\ new \in Seq(Event) /\ Elems(new) = {items[i] : i \in P}
      /\ \A n, m \in DOMAIN new : n < m => \E i, k \in P : i < k /\ new[n] = items[i] /\ new[m] = items[k]
  <2> HIDE DEF P
  <2> QED BY <1>0, PickedIs
<1>2. {items[i] : i \in P} = Elems(items) \ sent
  BY DEF Elems
<1>3. received' = received \o new
  BY DEF Poll
<1> HIDE DEF new
<1>4. ASSUME Incr(items) PROVE Incr(new)
  BY <1>0, <1>1, <1>4 DEF Incr
<1> QED BY <1>1, <1>2, <1>3, <1>4

LEMMA CommittedStep == StreamInv /\ [StreamNext]_<<vars, streamVars>> => Committed'
<1> SUFFICES ASSUME StreamInv, [StreamNext]_<<vars, streamVars>>, crashes' = 0, ~ env'.imports
             PROVE  (/\ Elems(received) \subseteq acked
                     /\ pc = "idle" => Elems(items) \subseteq acked
                     /\ Busy => /\ batch # << >> /\ Elems(undo.items) \subseteq acked
                                /\ Elems(items) \subseteq acked \cup Elems(batch))'
  BY DEF Committed
<1>1. LogTyped /\ StreamTyped
  BY DEF StreamInv, LogInv
<1>2. crashes \in Nat /\ env.batches \subseteq Nat \ {0}
  BY <1>1, TypeMeans DEF LogTyped
<1>3. CASE UNCHANGED vars
  <2>1. /\ Elems(received) \subseteq acked
        /\ pc = "idle" => Elems(items) \subseteq acked
        /\ Busy => /\ batch # << >> /\ Elems(undo.items) \subseteq acked
                   /\ Elems(items) \subseteq acked \cup Elems(batch)
    BY <1>3 DEF StreamInv, Committed, vars
  <2>2. Elems(received') \subseteq acked
    <3>1. CASE Poll
      <4>1. PICK new \in Seq(Event) : received' = received \o new /\ Elems(new) = Elems(items) \ sent
        BY <1>1, <3>1, Polled
      <4>2. Elems(received \o new) = Elems(received) \cup Elems(new)
        BY <1>1, ElemsCat DEF StreamTyped
      <4> QED BY <2>1, <3>1, <4>1, <4>2 DEF Poll, ListEventsReady
    <3>2. CASE ~ Poll
      <4>1. received' = received
        BY <3>2 DEF StreamNext, LogStep, Connect, Disconnect, streamVars
      <4> QED BY <2>1, <4>1
    <3> QED BY <3>1, <3>2
  <2> QED BY <1>3, <2>1, <2>2 DEF vars, memVars, diskVars, Busy
<1>4. CASE LogStep /\ Next
  <2>0. env' = env /\ received' = received
    BY <1>4, EnvKept DEF LogStep, streamVars
  <2>1. ~ Crash /\ ~ Import /\ crashes = 0
    <3>1. ~ Crash /\ ~ Import
      BY <1>2, <2>0 DEF Crash, Import
    <3> QED BY <1>4, <3>1 DEF Next, Operate, AppendArchive, SaveWindow, Succeed, Fail, TornWrite, Start
  <2>2. /\ Elems(received) \subseteq acked
        /\ pc = "idle" => Elems(items) \subseteq acked
        /\ Busy => /\ batch # << >> /\ Elems(undo.items) \subseteq acked
                   /\ Elems(items) \subseteq acked \cup Elems(batch)
    BY <2>0, <2>1 DEF StreamInv, Committed
  <2>3. ASSUME NEW l \in env.limits PROVE ~ Start(l)
    BY <1>1, <1>2, <2>1 DEF Start, LogTyped, Numbered
  <2>4. ASSUME NEW n \in env.batches, Operate(n)
        PROVE  /\ pc' = "archive" /\ batch' # << >> /\ Elems(undo'.items) \subseteq acked' /\ acked' = acked
               /\ Elems(items') \subseteq acked' \cup Elems(batch')
    <3>1. n \in Nat \ {0} /\ AppendEvents(n)
      BY <1>2, <2>4 DEF Operate
    <3>2. NewEvents(n) # << >> /\ Elems(items') \subseteq Elems(items) \cup Elems(NewEvents(n))
      BY <1>1, <3>1, Appended
    <3>3. /\ batch' = NewEvents(n) /\ pc = "idle" /\ pc' = "archive" /\ undo'.items = items /\ acked' = acked
      BY <2>4 DEF Operate
    <3> QED BY <2>2, <3>2, <3>3
  <2>5. CASE AppendArchive \/ SaveWindow
    <3>1. Busy /\ pc' # "idle" /\ UNCHANGED <<items, undo, batch, acked>>
      BY <2>5 DEF AppendArchive, SaveWindow, memVars, Busy
    <3> QED BY <2>0, <2>2, <3>1
  <2>6. CASE Succeed
    <3>1. Busy /\ pc' = "idle" /\ acked' = acked \cup Elems(batch) /\ items' = items
      BY <2>6 DEF Succeed, memVars, Busy
    <3> QED BY <2>0, <2>2, <3>1 DEF Busy
  <2>7. CASE Fail \/ TornWrite
    <3>1. Busy /\ pc' = "idle" /\ Restored /\ acked' = acked
      BY <2>7 DEF Fail, TornWrite, Busy
    <3> QED BY <2>0, <2>2, <3>1 DEF Busy, Restored
  <2> QED BY <1>4, <2>0, <2>1, <2>2, <2>3, <2>4, <2>5, <2>6, <2>7 DEF Next
<1> QED BY <1>3, <1>4 DEF StreamNext, LogStep, Connect, Disconnect, Poll

(* The last event received is the newest.                                  *)
LastOf(s) == IF s = << >> THEN 0 ELSE s[Len(s)]
LEMMA LastIsNewest ==
    ASSUME NEW s \in Seq(Event), Incr(s)
    PROVE  /\ s # << >> => LastOf(s) \in Elems(s)
           /\ \A r \in Elems(s) : s # << >> /\ r <= LastOf(s)
<1>1. Len(s) \in Nat /\ DOMAIN s = 1 .. Len(s) /\ \A i \in DOMAIN s : s[i] \in Nat
  BY LenProperties, ElementOfSeq DEF Event
<1>2. ASSUME s # << >> PROVE Len(s) \in DOMAIN s /\ LastOf(s) = s[Len(s)]
  BY <1>1, <1>2, EmptySeq DEF LastOf
<1>3. s # << >> => LastOf(s) \in Elems(s)
  BY <1>2 DEF Elems
<1>4. ASSUME NEW r \in Elems(s) PROVE s # << >> /\ r <= LastOf(s)
  <2>1. PICK i \in DOMAIN s : r = s[i]
    BY DEF Elems
  <2>2. s # << >>
    BY <1>4, ElemsEmpty
  <2>3. Len(s) \in DOMAIN s /\ LastOf(s) = s[Len(s)]
    BY <1>2, <2>2
  <2>4. CASE i = Len(s)
    BY <1>1, <2>1, <2>2, <2>3, <2>4
  <2>5. CASE i # Len(s)
    <3>1. i < Len(s)
      BY <1>1, <2>1, <2>5
    <3>2. s[i] < s[Len(s)]
      BY <2>1, <2>3, <3>1 DEF Incr
    <3> QED BY <1>1, <2>1, <2>2, <2>3, <3>2
  <2> QED BY <2>4, <2>5
<1> QED BY <1>3, <1>4

LEMMA LastIsReceived ==
    ASSUME StreamTyped, Incr(received)
    PROVE  /\ LastID \in Nat /\ (received # << >> => LastID \in Elems(received))
           /\ \A r \in Elems(received) : r \in Nat /\ received # << >> /\ r <= LastID
           /\ received = << >> => LastID = 0
<1>1. LastID = LastOf(received) /\ received \in Seq(Event)
  BY DEF LastID, LastOf, StreamTyped
<1>2. Elems(received) \subseteq Nat
  BY <1>1, ElemsOf DEF Event
<1>3. received = << >> => LastID = 0
  BY DEF LastID
<1> QED BY <1>1, <1>2, <1>3, LastIsNewest

(* A step of the log while the polls are in time.                          *)
LEMMA TimelyLogStep ==
    ASSUME StreamInv, Lossless, ~ late, Timely, LogStep PROVE Timely'
<1>0. LogInv /\ LogTyped /\ StreamTyped /\ Window /\ Next
  BY DEF StreamInv, LogInv, Windowed, LogStep
<1>1. /\ items \in Seq(Event) /\ pending \in Seq(Event) /\ window \in Seq(Event) /\ received \in Seq(Event)
      /\ env.batches \subseteq Nat \ {0} /\ last \in Nat /\ polled \in Nat /\ polled <= last /\ limit \in Nat
  BY <1>0, TypeMeans DEF LogTyped, StreamTyped
<1>2. received' = received /\ polled' = polled /\ LastID' = LastID
  BY DEF LogStep, streamVars, LastID
<1>3. \/ pc' = "down" /\ stream' = "off"
      \/ pc' # "down" /\ stream' = stream /\ sent' = sent
  BY DEF LogStep, streamVars
<1>4. cut = {} /\ (Busy => batch # << >>) /\ Sized /\ Increasing /\ Missing({})
  BY <1>0, NothingMissing DEF LogInv, InOrder, Lossless
<1>5. ASSUME NEW n \in env.batches, Operate(n) PROVE Timely'
  <2>1. n \in Nat \ {0} /\ AppendEvents(n)
    BY <1>1, <1>5 DEF Operate
  <2> DEFINE new == NewEvents(n)
  <2>2. /\ Elems(new) = (last + 1) .. (last + n) /\ Elems(items') \subseteq Elems(items) \cup Elems(new)
    BY <1>0, <2>1, Appended
  <2>3. /\ batch' = new /\ pc = "idle" /\ pc' = "archive" /\ undo'.items = items
        /\ UNCHANGED <<window, acked>>
    BY <1>5 DEF Operate, diskVars
  <2>4. \A e \in Elems(new) : e \in Nat /\ last < e
    BY <1>1, <2>1, <2>2
  <2>5. Window'
    BY <1>0, EnvKept, WindowStep DEF StreamInv, Windowed, Lossless
  <2> HIDE DEF new
  <2>6. \A b \in Elems(new) : polled < b /\ Newer(b) /\ b \notin sent /\ b \notin Elems(received)
    <3> SUFFICES ASSUME NEW b \in Elems(new) PROVE polled < b /\ Newer(b) /\ b \notin sent /\ b \notin Elems(received)
      OBVIOUS
    <3>1. b \in Nat /\ last < b
      BY <2>4
    <3>2. \A r \in Nat : r <= last => r < b
      BY <1>1, <3>1
    <3>3. Elems(received) \subseteq Nat /\ sent \subseteq Nat
      BY <1>0, <1>1, ElemsOf DEF StreamTyped, Event
    <3>4. \A r \in Elems(received) \cup sent : r < b
      BY <1>0, <3>2, <3>3 DEF StreamTyped, Old
    <3> QED BY <1>1, <3>1, <3>2, <3>3, <3>4 DEF Newer
  <2>7. InLine(Elems(items'))
    <3> SUFFICES ASSUME NEW e \in Elems(items'), ~ Newer(e) PROVE e \in Elems(received) /\ LastID \in Elems(items')
      BY DEF InLine
    <3>1. e \in Elems(items) /\ \A x \in Elems(items) : e < x => x \in Elems(items')
      BY <2>3, <2>5, <2>6 DEF Window
    <3>2. e \in Elems(received) /\ LastID \in Elems(items)
      BY <2>3, <3>1 DEF Timely, InLine
    <3>3. e \in Nat /\ LastID \in Nat /\ e <= LastID
      BY <1>0, <3>2, LastIsReceived DEF Timely
    <3> QED BY <3>1, <3>2, <3>3
  <2>8. stream' = "on" => Marked(Elems(items')) /\ Marked(Elems(items))
    BY <1>3, <2>2, <2>3, <2>6 DEF Timely, Marked
  <2>9. InLine(Elems(items)) /\ InLine(Elems(window))
    BY <2>3 DEF Timely
  <2>10. (stream = "on" => Marked(Elems(items)))'
    BY <1>2, <1>3, <2>3, <2>8 DEF Marked
  <2>11. (stream = "on" => Marked(Elems(undo.items)))'
    BY <1>2, <1>3, <2>3, <2>8 DEF Marked
  <2>12. InLine(Elems(items))' /\ InLine(Elems(undo.items))' /\ InLine(Elems(window))'
    BY <1>2, <2>3, <2>7, <2>9 DEF InLine, Newer
  <2> QED BY <1>2, <2>3, <2>6, <2>10, <2>11, <2>12 DEF Timely
<1>6. CASE AppendArchive
  <2>1. /\ pc = "archive" /\ pc' = "window" /\ UNCHANGED <<items, undo, batch, window, acked>>
    BY <1>6 DEF AppendArchive, memVars
  <2> QED BY <1>2, <1>3, <2>1 DEF Timely, InLine, Newer, Marked, Busy
<1>7. CASE SaveWindow
  <2>1. pc = "window" /\ pc' = "rest" /\ window' = items /\ UNCHANGED <<items, undo, batch, acked>>
    BY <1>7 DEF SaveWindow
  <2> QED BY <1>2, <1>3, <2>1 DEF Timely, InLine, Newer, Marked, Busy
<1>8. CASE Succeed
  <2>1. /\ pc = "rest" /\ pc' = "idle" /\ acked' = acked \cup Elems(batch)
        /\ UNCHANGED <<items, undo, batch, window>>
    BY <1>8 DEF Succeed, memVars, diskVars
  <2>2. Elems(batch) \subseteq Nat
    BY <1>0, TypeMeans, ElemsOf DEF LogTyped, Event
  <2>3. \A e \in acked' : e <= polled => e \in Elems(received)
    BY <1>1, <2>1, <2>2 DEF Timely, Busy
  <2> QED BY <1>2, <1>3, <2>1, <2>3 DEF Timely, InLine, Newer, Marked, Busy
<1>9. CASE Fail
  <2>1. Busy /\ pc' = "idle" /\ items' = undo.items /\ UNCHANGED <<window, acked>>
    BY <1>4, <1>9 DEF Fail, Restored, diskVars, Busy
  <2> QED BY <1>2, <1>3, <2>1 DEF Timely, InLine, Newer, Marked, Busy
<1>10. CASE Crash
  <2>1. pc' = "down" /\ UNCHANGED <<window, acked>>
    BY <1>10 DEF Crash, memVars, diskVars
  <2> QED BY <1>2, <1>3, <2>1 DEF Timely, InLine, Newer, Busy
<1>11. ASSUME NEW l \in env.limits, Start(l) PROVE Timely'
  <2>1. pc = "down" /\ pc' = "idle" /\ UNCHANGED <<window, acked>>
    BY <1>11 DEF Start, diskVars
  <2>2. l = limit
    BY <1>0, <1>11 DEF Lossless, LogTyped, TypeOK
  <2>3. l = 0 \/ Len(window) <= l
    BY <1>1, <1>4, <2>2 DEF Sized
  <2>4. dedupeEvents(window) = window
    BY <1>1, <1>4, IncrNoRepeats, NothingDropped DEF Increasing
  <2>5. items' = window
    BY <1>0, <1>11, <2>3, <2>4, Started
  <2>6. stream' # "on"
    BY <1>0, <1>3, <2>1 DEF StreamTyped
  <2> QED BY <1>2, <2>1, <2>5, <2>6 DEF Timely, InLine, Newer, Busy
<1> QED BY <1>0, <1>5, <1>6, <1>7, <1>8, <1>9, <1>10, <1>11, LosslessSteps

(* A connection marks what the browser has.                                *)
LEMMA TimelyConnect ==
    ASSUME StreamInv, Lossless, ~ late, Timely, Connect PROVE Timely'
<1>0. LogTyped /\ StreamTyped /\ Increasing
  BY DEF StreamInv, LogInv, InOrder
<1>1. /\ pc = "idle" /\ sent' = seedSeenEvents(LastID) /\ received' = received /\ polled' = polled
      /\ UNCHANGED <<pc, items, window, acked, undo, batch>>
  BY DEF Connect, ListEventsReady, vars, memVars, diskVars
<1>2. items \in Seq(Event) /\ pending \in Seq(Event)
  BY <1>0, TypeMeans DEF LogTyped
<1>3. Len(items) \in Nat /\ DOMAIN items = 1 .. Len(items) /\ \A i \in DOMAIN items : items[i] \in Nat \ {0}
  BY <1>2, LenProperties, ElementOfSeq DEF Event
<1>4. Incr(items)
  BY <1>0, <1>2, IncrCat DEF Increasing
<1>5. /\ LastID \in Nat /\ (received # << >> => LastID \in Elems(received))
      /\ \A r \in Elems(received) : r \in Nat /\ received # << >> /\ r <= LastID
      /\ received = << >> => LastID = 0
  BY <1>0, LastIsReceived DEF Timely
<1>6. ASSUME NEW i \in DOMAIN items, NEW k \in i .. Len(items), items[k] = LastID
      PROVE  items[i] \in Elems(received)
  <2>1. k \in DOMAIN items /\ (i = k \/ i < k)
    BY <1>3
  <2>2. items[i] <= LastID
    BY <1>3, <1>4, <1>5, <1>6, <2>1 DEF Incr
  <2>3. received # << >>
    BY <1>3, <1>5, <1>6, <2>1
  <2>4. ~ Newer(items[i])
    BY <1>3, <1>5, <2>2, <2>3 DEF Newer
  <2> QED BY <1>1, <2>4 DEF Timely, InLine, Elems
<1>7. ASSUME NEW i \in DOMAIN items, items[i] \in Elems(received)
      PROVE  \E k \in i .. Len(items) : items[k] = LastID
  <2>1. ~ Newer(items[i])
    BY <1>3, <1>7 DEF Newer
  <2>2. items[i] \in Elems(items)
    BY DEF Elems
  <2>3. LastID \in Elems(items)
    BY <1>1, <2>1, <2>2 DEF Timely, InLine
  <2>4. PICK k \in DOMAIN items : items[k] = LastID
    BY <2>3 DEF Elems
  <2>5. ~(k < i)
    BY <1>3, <1>4, <1>5, <1>7, <2>4 DEF Incr
  <2>6. k \in i .. Len(items)
    BY <1>3, <2>5
  <2> QED BY <2>4, <2>6
<1>8. ASSUME NEW e \in Elems(items) PROVE e \in sent' <=> e \in Elems(received)
  <2>1. ASSUME e \in sent' PROVE e \in Elems(received)
    BY <1>1, <1>6, <2>1 DEF seedSeenEvents
  <2>2. ASSUME e \in Elems(received) PROVE e \in sent'
    <3>1. PICK i \in DOMAIN items : e = items[i]
      BY DEF Elems
    <3> QED BY <1>1, <1>7, <2>2, <3>1 DEF seedSeenEvents
  <2> QED BY <2>1, <2>2
<1> QED BY <1>1, <1>8 DEF Timely, InLine, Newer, Marked, Busy, LastID

(* A poll that is in time brings what came since the last one.             *)
LEMMA TimelyPoll ==
    ASSUME StreamInv, Lossless, ~ late', Timely, Poll PROVE Timely'
<1>0. LogTyped /\ StreamTyped /\ Increasing /\ Window /\ Missing({})
  BY NothingMissing DEF StreamInv, LogInv, InOrder, Windowed, Lossless
<1>1. /\ pc = "idle" /\ stream = "on" /\ sent' = sent \cup Elems(items) /\ polled' = last
      /\ ~ (limit > 0 /\ last - polled > limit)
      /\ UNCHANGED <<stream, pc, items, window, acked>>
  BY DEF Poll, ListEventsReady, vars, memVars, diskVars
<1>2. /\ items \in Seq(Event) /\ pending \in Seq(Event) /\ received \in Seq(Event)
      /\ limit \in Nat /\ last \in Nat /\ polled \in Nat
  BY <1>0, TypeMeans DEF LogTyped, StreamTyped
<1>3. /\ Elems(items) \subseteq Nat /\ Elems(received) \subseteq Nat /\ Elems(window) \subseteq Nat
      /\ \A e \in acked : e \in Nat
  BY <1>0, <1>2, Numbers, ElemsOf DEF Event, InStore
<1>4. Incr(items)
  BY <1>0, <1>2, IncrCat DEF Increasing
<1>5. PICK new \in Seq(Event) : /\ received' = received \o new /\ Elems(new) = Elems(items) \ sent
                                /\ Incr(new)
  BY <1>0, <1>4, Polled
<1>6. Elems(new) = Elems(items) \ Elems(received)
  BY <1>1, <1>5 DEF Timely, Marked
<1>7. received' \in Seq(Event) /\ Elems(received') = Elems(received) \cup Elems(items)
  <2>1. received \o new \in Seq(Event) /\ Elems(received \o new) = Elems(received) \cup Elems(new)
    BY <1>2, ElemsCat
  <2> QED BY <1>5, <1>6, <2>1
<1>8. \A y \in Elems(new) : Newer(y)
  BY <1>1, <1>6 DEF Timely, InLine
<1>9. Incr(received')
  <2>1. \A x \in Elems(received), y \in Elems(new) : x < y
    BY <1>8 DEF Newer
  <2>2. Incr(received \o new)
    BY <1>2, <1>5, <2>1, IncrCat DEF Timely
  <2> QED BY <1>5, <2>2
<1>10. ASSUME NEW e \in acked' PROVE e \in Elems(received')
  <2>1. CASE e <= polled
    BY <1>1, <1>7, <1>10, <2>1 DEF Timely
  <2>2. CASE ~(e <= polled)
    <3>1. ASSUME e \notin Elems(items) PROVE FALSE
      <4>1. e \in Good /\ e \in Nat
        BY <1>1, <1>3, <1>10 DEF Good
      <4>2. limit > 0 /\ e + limit <= last
        BY <1>0, <1>1, <3>1, <4>1 DEF Window, Passed
      <4> QED BY <1>1, <1>2, <2>2, <4>1, <4>2
    <3> QED BY <1>7, <3>1
  <2> QED BY <2>1, <2>2
<1>11. LastID' = LastOf(received')
  BY DEF LastID, LastOf
<1>12. LastID' \in Nat /\ \A r \in Elems(received') : received' # << >> /\ r <= LastID' /\ r \in Nat
  <2>1. \A r \in Elems(received') : received' # << >> /\ r <= LastOf(received')
    BY <1>7, <1>9, LastIsNewest
  <2>2. received' # << >> => LastOf(received') \in Elems(received')
    BY <1>7, <1>9, LastIsNewest
  <2>3. LastOf(received') \in Nat
    BY <1>3, <1>7, <2>2 DEF LastOf
  <2> QED BY <1>3, <1>7, <1>11, <2>1, <2>3
<1>13. ASSUME NEW e \in Elems(items) PROVE LastID' \in Elems(items)
  <2>1. CASE new = << >>
    <3>1. received' = received
      BY <1>2, <1>5, <2>1, ConcatEmptySeq
    <3>2. e \in Elems(received)
      BY <1>7, <1>13, <3>1
    <3>3. ~ Newer(e)
      BY <1>3, <3>2 DEF Newer
    <3>4. LastID \in Elems(items)
      BY <1>1, <1>13, <3>3 DEF Timely, InLine
    <3> QED BY <3>1, <3>4 DEF LastID
  <2>2. CASE new # << >>
    <3>1. Len(new) \in Nat \ {0} /\ Len(received) \in Nat
      BY <1>2, <2>2, EmptySeq, LenProperties
    <3>2. /\ Len(received \o new) = Len(received) + Len(new)
          /\ \A i \in 1 .. Len(received) + Len(new) :
                (received \o new)[i] = IF i <= Len(received) THEN received[i] ELSE new[i - Len(received)]
      BY <1>2, ConcatProperties
    <3>3. (received \o new)[Len(received) + Len(new)] = new[Len(new)]
      <4>1. /\ Len(received) + Len(new) \in 1 .. Len(received) + Len(new)
            /\ ~(Len(received) + Len(new) <= Len(received))
            /\ (Len(received) + Len(new)) - Len(received) = Len(new)
        BY <3>1
      <4> QED BY <3>2, <4>1
    <3>4. received' # << >>
      <4>1. Len(received \o new) # 0
        BY <3>1, <3>2
      <4> QED BY <1>5, <4>1, EmptySeq
    <3>5. LastID' = new[Len(new)]
      BY <1>5, <1>11, <3>2, <3>3, <3>4 DEF LastOf
    <3>6. new[Len(new)] \in Elems(new)
      <4>1. Len(new) \in DOMAIN new
        BY <3>1, LenProperties
      <4> QED BY <4>1 DEF Elems
    <3> QED BY <1>6, <3>5, <3>6
  <2> QED BY <2>1, <2>2
<1>14. InLine(Elems(items))'
  BY <1>1, <1>7, <1>13 DEF InLine
<1>15. InLine(Elems(window))'
  <2> SUFFICES ASSUME NEW w \in Elems(window)
               PROVE  \/ \A r \in Elems(received') : r < w
                      \/ w \in Elems(received') /\ LastID' \in Elems(window)
    BY <1>1 DEF InLine, Newer
  <2>1. \/ \A x \in Elems(items) : x < w
        \/ w \in Elems(items) /\ \A x \in Elems(items) : w < x => x \in Elems(window)
    BY <1>0, <1>1 DEF Window, Overlaps
  <2>2. Newer(w) \/ (w \in Elems(received) /\ LastID \in Elems(window))
    BY DEF Timely, InLine
  <2>3. CASE \A x \in Elems(items) : x < w
    <3>1. CASE Newer(w)
      BY <1>7, <2>3, <3>1 DEF Newer
    <3>2. CASE ~ Newer(w)
      <4>1. Elems(new) = {}
        <5> SUFFICES ASSUME NEW y \in Elems(new) PROVE FALSE
          OBVIOUS
        <5>1. y < w /\ w < y /\ y \in Nat /\ w \in Nat
          BY <1>3, <1>6, <1>8, <2>2, <2>3, <3>2 DEF Newer
        <5> QED BY <5>1
      <4>2. new = << >>
        <5>1. Len(new) \in Nat /\ \A i \in 1 .. Len(new) : new[i] \in Elems(new)
          BY LenProperties DEF Elems
        <5>2. Len(new) = 0
          BY <4>1, <5>1
        <5> QED BY <5>2, EmptySeq
      <4>3. received' = received
        BY <1>2, <1>5, <4>2, ConcatEmptySeq
      <4> QED BY <2>2, <3>2, <4>3 DEF LastID
    <3> QED BY <3>1, <3>2
  <2>4. CASE w \in Elems(items) /\ \A x \in Elems(items) : w < x => x \in Elems(window)
    <3>1. w \in Elems(received') /\ LastID' \in Elems(items)
      BY <1>7, <1>13, <2>4
    <3>2. w \in Nat /\ LastID' \in Nat /\ w <= LastID'
      BY <1>12, <3>1
    <3> QED BY <2>4, <3>1, <3>2
  <2> QED BY <2>1, <2>3, <2>4
<1>16. Marked(Elems(items))'
  BY <1>1, <1>7 DEF Marked
<1> QED BY <1>1, <1>9, <1>10, <1>14, <1>15, <1>16 DEF Timely, Busy

LEMMA InTimeStep == StreamInv /\ [StreamNext]_<<vars, streamVars>> => InTime'
<1> SUFFICES ASSUME StreamInv, [StreamNext]_<<vars, streamVars>>, Lossless', ~ late' PROVE Timely'
  BY DEF InTime
<1>1. [Next]_vars
  BY DEF StreamNext, LogStep, Connect, Disconnect, Poll
<1>2. Lossless
  BY <1>1, EnvKept DEF Lossless
<1>3. ~ late
  BY DEF StreamNext, LogStep, Connect, Disconnect, Poll, streamVars
<1>4. Timely
  BY <1>2, <1>3 DEF StreamInv, InTime
<1>5. CASE UNCHANGED <<vars, streamVars>>
  BY <1>4, <1>5 DEF vars, streamVars, memVars, diskVars, Timely, InLine, Newer, Marked, LastID, Busy
<1>6. CASE Disconnect
  BY <1>4, <1>6 DEF Disconnect, vars, memVars, diskVars, Timely, InLine, Newer, LastID, Busy
<1> QED BY <1>2, <1>3, <1>4, <1>5, <1>6, TimelyLogStep, TimelyConnect, TimelyPoll DEF StreamNext

LEMMA StreamStep == StreamInv /\ [StreamNext]_<<vars, streamVars>> => StreamInv'
<1> SUFFICES ASSUME StreamInv, [StreamNext]_<<vars, streamVars>> PROVE StreamInv'
  OBVIOUS
<1>1. [Next]_vars
  BY DEF StreamNext, LogStep, Connect, Disconnect, Poll
<1>2. LogInv' /\ Windowed'
  BY <1>1, LogStepKeeps, WindowStep DEF StreamInv
<1> QED BY <1>2, StreamTypedStep, CommittedStep, InTimeStep DEF StreamInv

LEMMA StreamMeans == StreamInv => StreamIsFaithful
<1> SUFFICES ASSUME StreamInv PROVE StreamIsFaithful
  OBVIOUS
<1>1. TimelyStreamIsComplete
  BY DEF StreamInv, InTime, Timely, TimelyStreamIsComplete, Incr
<1>2. StreamedIsCommitted
  BY DEF StreamInv, Committed, StreamedIsCommitted
<1> QED BY <1>1, <1>2 DEF StreamIsFaithful
-----------------------------------------------------------------------------
(* The inductive invariant of the store, its files and the stream.         *)
THEOREM LogInvariant == StreamSpec => []StreamInv
BY StreamStarts, StreamStep, PTL DEF StreamSpec

(* The history that Snapshot exports, for any operations, limits, faults,  *)
(* cut appends, crashes and imports: what an operation that returned no    *)
(* error recorded is there but for what a fault may cost, in its order,    *)
(* and eventStore.count is its length.                                     *)
THEOREM HistoryStays == StreamSpec => []HistoryKept
<1>1. StreamInv => HistoryKept
  BY LogMeans DEF StreamInv
<1> QED BY <1>1, LogInvariant, PTL

(* What handleEventStream sends, over any number of connections, failures  *)
(* and restarts: complete and in order when the polls were in time, and    *)
(* nothing of an operation that failed.                                    *)
THEOREM StreamStaysFaithful == StreamSpec => []StreamIsFaithful
BY LogInvariant, StreamMeans, PTL
-----------------------------------------------------------------------------
(* The refinement.  What is picked depends on the order of the places and  *)
(* on what is there, not on where they are.                                *)
Matches(f, t, Q, s, P) ==
    /\ IsFiniteSet(P) /\ P \subseteq Nat /\ IsFiniteSet(Q) /\ Q \subseteq Nat
    /\ f \in Bijection(Q, P)
    /\ \A i, k \in Q : i <= k <=> f[i] <= f[k]
    /\ \A i \in Q : t[i] = s[f[i]]
LEMMA PickedSame ==
    ASSUME NEW s, NEW P, NEW t, NEW Q, NEW f, Matches(f, t, Q, s, P)
    PROVE  Picked(s, P) = Picked(t, Q)
<1>0. IsFiniteSet(P) /\ P \subseteq Nat /\ IsFiniteSet(Q) /\ Q \subseteq Nat
  BY DEF Matches
<1>1. /\ f \in Bijection(Q, P) /\ \A i, k \in Q : i <= k <=> f[i] <= f[k]
      /\ \A i \in Q : t[i] = s[f[i]]
  BY DEF Matches
<1>2. /\ f \in [Q -> P] /\ \A i, k \in Q : f[i] = f[k] => i = k
      /\ \A p \in P : \E i \in Q : f[i] = p
  BY <1>1 DEF Bijection, Injection, IsInjective, Surjection
<1>3. Cardinality(P) = Cardinality(Q)
  <2>1. ExistsBijection(Q, P)
    BY <1>1 DEF ExistsBijection
  <2> QED BY <1>0, <2>1, FS_Bijection
<1>4. ASSUME NEW i \in Q PROVE Cardinality(Upto(P, f[i])) = Cardinality(Upto(Q, i))
  <2> DEFINE U == Upto(Q, i)
             V == Upto(P, f[i])
             g == [k \in U |-> f[k]]
  <2>1. U \in SUBSET Q /\ \A k \in Q : k \in U <=> k <= i
    BY DEF Upto
  <2>2. V \in SUBSET P /\ \A p \in P : p \in V <=> p <= f[i]
    BY DEF Upto
  <2> HIDE DEF U, V
  <2>3. g \in [U -> V] /\ \A k \in U : g[k] = f[k]
    BY <1>1, <1>2, <2>1, <2>2
  <2>4. \A p \in V : \E k \in U : g[k] = p
    <3> SUFFICES ASSUME NEW p \in V PROVE \E k \in U : g[k] = p
      OBVIOUS
    <3>1. PICK k \in Q : f[k] = p
      BY <1>2, <2>2
    <3>2. k \in U
      BY <1>1, <2>1, <2>2, <3>1
    <3> QED BY <2>3, <3>1, <3>2
  <2>5. \A k, m \in U : g[k] = g[m] => k = m
    BY <1>2, <2>1, <2>3
  <2> HIDE DEF g
  <2>6. g \in Bijection(U, V)
    BY <2>3, <2>4, <2>5 DEF Bijection, Injection, IsInjective, Surjection
  <2>7. ExistsBijection(U, V)
    BY <2>6 DEF ExistsBijection
  <2>8. IsFiniteSet(U)
    BY <1>0, <2>1, FS_Subset
  <2>9. Cardinality(V) = Cardinality(U)
    BY <2>7, <2>8, FS_Bijection
  <2> QED BY <2>9 DEF U, V
<1>5. ASSUME NEW n \in 1 .. Cardinality(Q) PROVE s[Place(P, n)] = t[Place(Q, n)]
  <2>1. Place(Q, n) \in Q /\ Cardinality(Upto(Q, Place(Q, n))) = n
    BY <1>0, Places
  <2>2. f[Place(Q, n)] \in P /\ Cardinality(Upto(P, f[Place(Q, n)])) = n
    BY <1>2, <1>4, <2>1
  <2>3. Place(P, Cardinality(Upto(P, f[Place(Q, n)]))) = f[Place(Q, n)]
    BY <1>0, <2>2, Places
  <2> QED BY <1>1, <2>1, <2>2, <2>3
<1>6. /\ Picked(s, P) = [n \in 1 .. Cardinality(Q) |-> s[Place(P, n)]]
      /\ Picked(t, Q) = [n \in 1 .. Cardinality(Q) |-> t[Place(Q, n)]]
  BY <1>3 DEF Picked, Place
<1> QED BY <1>5, <1>6

LEMMA FirstsFinite == ASSUME NEW S, NEW s \in Seq(S)
                      PROVE  Firsts(s) \in SUBSET DOMAIN s /\ IsFiniteSet(Firsts(s)) /\ Firsts(s) \subseteq Nat
<1>1. Len(s) \in Nat /\ DOMAIN s = 1 .. Len(s)
  BY LenProperties
<1>2. Firsts(s) \in SUBSET (1 .. Len(s)) /\ Firsts(s) \in SUBSET DOMAIN s
  BY <1>1 DEF Firsts
<1>3. IsFiniteSet(1 .. Len(s))
  BY <1>1, FS_Interval
<1>4. IsFiniteSet(Firsts(s))
  BY <1>2, <1>3, FS_Subset
<1> QED BY <1>1, <1>2, <1>4

(* Where a concatenation has its elements.                                 *)
LEMMA CatAt == ASSUME NEW S, NEW a \in Seq(S), NEW b \in Seq(S)
               PROVE  /\ a \o b \in Seq(S) /\ Len(a) \in Nat /\ Len(b) \in Nat
                      /\ Len(a \o b) = Len(a) + Len(b) /\ DOMAIN (a \o b) = 1 .. Len(a) + Len(b)
                      /\ \A i \in 1 .. Len(a) : (a \o b)[i] = a[i]
                      /\ \A i \in 1 .. Len(b) : (a \o b)[Len(a) + i] = b[i]
<1>1. /\ a \o b \in Seq(S) /\ Len(a \o b) = Len(a) + Len(b)
      /\ \A i \in 1 .. Len(a) + Len(b) : (a \o b)[i] = IF i <= Len(a) THEN a[i] ELSE b[i - Len(a)]
  BY ConcatProperties
<1>2. Len(a) \in Nat /\ Len(b) \in Nat
  BY LenProperties
<1>3. DOMAIN (a \o b) = 1 .. Len(a) + Len(b)
  BY <1>1, LenProperties
<1>4. \A i \in 1 .. Len(a) : (a \o b)[i] = a[i]
  BY <1>1, <1>2
<1>5. ASSUME NEW i \in 1 .. Len(b) PROVE (a \o b)[Len(a) + i] = b[i]
  <2>1. Len(a) + i \in 1 .. Len(a) + Len(b) /\ ~(Len(a) + i <= Len(a)) /\ (Len(a) + i) - Len(a) = i
    BY <1>2
  <2> QED BY <1>1, <2>1
<1> QED BY <1>1, <1>2, <1>3, <1>4, <1>5

(* dedupeEvents does not see a repetition of what came before.             *)
LEMMA RepeatsGo ==
    ASSUME NEW S, NEW a \in Seq(S), NEW z \in Seq(S), NEW q \in Seq(S), Elems(z) \subseteq Elems(a)
    PROVE  dedupeEvents((a \o z) \o q) = dedupeEvents(a \o q)
<1> DEFINE az == a \o z
           s == az \o q
           t == a \o q
           la == Len(a)
           lz == Len(z)
           lq == Len(q)
           P == Firsts(s)
           Q == Firsts(t)
           f == [i \in Q |-> IF i <= la THEN i ELSE i + lz]
<1>1. /\ az \in Seq(S) /\ la \in Nat /\ lz \in Nat /\ Len(az) = la + lz
      /\ \A i \in 1 .. la : az[i] = a[i]
      /\ \A i \in 1 .. lz : az[la + i] = z[i]
  BY CatAt
<1>2. /\ t \in Seq(S) /\ lq \in Nat /\ DOMAIN t = 1 .. (la + lq)
      /\ \A i \in 1 .. la : t[i] = a[i]
      /\ \A i \in 1 .. lq : t[la + i] = q[i]
  BY CatAt
<1>3. \A i \in 1 .. lz : \E k \in 1 .. la : a[k] = z[i]
  BY ElemsOf
<1> HIDE DEF az
<1>4. /\ s \in Seq(S) /\ DOMAIN s = 1 .. (la + lz + lq)
      /\ \A i \in 1 .. (la + lz) : s[i] = az[i]
      /\ \A i \in 1 .. lq : s[la + lz + i] = q[i]
  <2>1. /\ s \in Seq(S) /\ DOMAIN s = 1 .. (Len(az) + lq)
        /\ \A i \in 1 .. Len(az) : s[i] = az[i]
        /\ \A i \in 1 .. lq : s[Len(az) + i] = q[i]
    <3>1. az \in Seq(S)
      BY <1>1
    <3> QED BY <3>1, CatAt
  <2> HIDE DEF s
  <2> QED BY <1>1, <2>1
<1> HIDE DEF s, t, la, lz, lq
<1>5. /\ \A i \in 1 .. la : s[i] = t[i]
      /\ \A i \in (la + 1) .. (la + lz) : \E k \in 1 .. la : s[i] = t[k]
      /\ \A i \in (la + 1) .. (la + lq) : t[i] = s[i + lz]
  <2>1. ASSUME NEW i \in 1 .. la PROVE s[i] = t[i]
    <3>1. i \in 1 .. (la + lz)
      BY <1>1
    <3> QED BY <1>1, <1>2, <1>4, <3>1
  <2>2. ASSUME NEW i \in (la + 1) .. (la + lz) PROVE \E k \in 1 .. la : s[i] = t[k]
    <3>1. i \in 1 .. (la + lz) /\ i - la \in 1 .. lz /\ la + (i - la) = i
      BY <1>1
    <3>2. s[i] = z[i - la]
      BY <1>1, <1>4, <3>1
    <3>3. PICK k \in 1 .. la : a[k] = z[i - la]
      BY <1>3, <3>1
    <3> QED BY <1>2, <3>2, <3>3
  <2>3. ASSUME NEW i \in (la + 1) .. (la + lq) PROVE t[i] = s[i + lz]
    <3>1. i - la \in 1 .. lq /\ la + (i - la) = i /\ la + lz + (i - la) = i + lz
      BY <1>1, <1>2
    <3>2. t[i] = q[i - la]
      BY <1>2, <3>1
    <3>3. s[i + lz] = q[i - la]
      BY <1>4, <3>1
    <3> QED BY <3>2, <3>3
  <2> QED BY <2>1, <2>2, <2>3
<1>6. ASSUME NEW i \in Q PROVE f[i] \in P /\ t[i] = s[f[i]]
  <2>1. i \in 1 .. (la + lq) /\ \A k \in 1 .. (i - 1) : t[k] # t[i]
    BY <1>2 DEF Firsts
  <2>2. CASE i <= la
    <3>1. f[i] = i /\ i \in 1 .. la /\ i \in 1 .. (la + lz + lq)
      BY <1>1, <1>2, <2>1, <2>2
    <3>2. ASSUME NEW k \in 1 .. (i - 1) PROVE s[k] # s[i]
      <4>1. k \in 1 .. la
        BY <1>1, <3>1
      <4> QED BY <1>5, <2>1, <3>1, <4>1
    <3> QED BY <1>4, <1>5, <3>1, <3>2 DEF Firsts
  <2>3. CASE ~(i <= la)
    <3>1. f[i] = i + lz /\ i \in (la + 1) .. (la + lq) /\ i + lz \in 1 .. (la + lz + lq)
      BY <1>1, <1>2, <2>1, <2>3
    <3>2. t[i] = s[i + lz]
      BY <1>5, <3>1
    <3>3. ASSUME NEW k \in 1 .. ((i + lz) - 1) PROVE s[k] # s[i + lz]
      <4>1. CASE k \in 1 .. la
        <5>1. k \in 1 .. (i - 1)
          BY <1>1, <3>1, <4>1
        <5> QED BY <1>5, <2>1, <3>2, <4>1, <5>1
      <4>2. CASE k \in (la + 1) .. (la + lz)
        <5>1. PICK m \in 1 .. la : s[k] = t[m]
          BY <1>5, <4>2
        <5>2. m \in 1 .. (i - 1)
          BY <1>1, <3>1
        <5> QED BY <2>1, <3>2, <5>1, <5>2
      <4>3. CASE k \notin 1 .. la /\ k \notin (la + 1) .. (la + lz)
        <5>1. k - lz \in (la + 1) .. (la + lq) /\ (k - lz) + lz = k /\ k - lz \in 1 .. (i - 1)
          BY <1>1, <1>2, <3>1, <4>3
        <5>2. t[k - lz] = s[k]
          BY <1>5, <5>1
        <5> QED BY <2>1, <3>2, <5>1, <5>2
      <4> QED BY <4>1, <4>2, <4>3
    <3>4. i + lz \in P
      <4> DEFINE j == i + lz
      <4>1. j \in DOMAIN s /\ \A k \in 1 .. (j - 1) : s[k] # s[j]
        BY <1>4, <3>1, <3>3
      <4> HIDE DEF j
      <4>2. j \in P
        BY <4>1 DEF Firsts
      <4> QED BY <4>2 DEF j
    <3> QED BY <3>1, <3>2, <3>4
  <2> QED BY <2>2, <2>3
<1>7. ASSUME NEW p \in P PROVE \E i \in Q : f[i] = p
  <2>1. p \in 1 .. (la + lz + lq) /\ \A k \in 1 .. (p - 1) : s[k] # s[p]
    BY <1>4 DEF Firsts
  <2>2. CASE p <= la
    <3>1. p \in 1 .. la /\ p \in 1 .. (la + lq)
      BY <1>1, <1>2, <2>1, <2>2
    <3>2. ASSUME NEW k \in 1 .. (p - 1) PROVE t[k] # t[p]
      <4>1. k \in 1 .. la
        BY <1>1, <3>1
      <4> QED BY <1>5, <2>1, <3>1, <4>1
    <3>3. p \in Q
      BY <1>2, <3>1, <3>2 DEF Firsts
    <3> QED BY <2>2, <3>3
  <2>3. CASE p \in (la + 1) .. (la + lz)
    <3>1. PICK m \in 1 .. la : s[p] = t[m]
      BY <1>5, <2>3
    <3>2. m \in 1 .. (p - 1) /\ s[m] = t[m]
      BY <1>1, <1>5, <2>3
    <3> QED BY <2>1, <3>1, <3>2
  <2>4. CASE ~(p <= la) /\ p \notin (la + 1) .. (la + lz)
    <3>1. /\ p - lz \in (la + 1) .. (la + lq) /\ (p - lz) + lz = p /\ ~(p - lz <= la)
          /\ p - lz \in 1 .. (la + lq)
      BY <1>1, <1>2, <2>1, <2>4
    <3>2. t[p - lz] = s[p]
      BY <1>5, <3>1
    <3>3. ASSUME NEW k \in 1 .. ((p - lz) - 1) PROVE t[k] # t[p - lz]
      <4>1. CASE k <= la
        <5>1. k \in 1 .. la /\ k \in 1 .. (p - 1)
          BY <1>1, <3>1, <4>1
        <5> QED BY <1>5, <2>1, <3>2, <5>1
      <4>2. CASE ~(k <= la)
        <5>1. k \in (la + 1) .. (la + lq) /\ k + lz \in 1 .. (p - 1)
          BY <1>1, <1>2, <3>1, <4>2
        <5> QED BY <1>5, <2>1, <3>2, <5>1
      <4> QED BY <4>1, <4>2
    <3>4. p - lz \in Q
      BY <1>2, <3>1, <3>3 DEF Firsts
    <3>5. f[p - lz] = p
      BY <3>1, <3>4
    <3> QED BY <3>4, <3>5
  <2> QED BY <2>2, <2>3, <2>4
<1>8. \A i, k \in Q : i <= k <=> f[i] <= f[k]
  <2>1. Q \subseteq Nat
    BY <1>1, <1>2 DEF Firsts
  <2> QED BY <1>1, <2>1
<1>9. IsFiniteSet(P) /\ P \subseteq Nat /\ IsFiniteSet(Q) /\ Q \subseteq Nat
  BY <1>2, <1>4, FirstsFinite
<1>10. \A i, k \in Q : f[i] = f[k] => i = k
  <2>1. \A i \in Q : i \in Nat /\ f[i] \in Nat
    BY <1>1, <1>2 DEF Firsts
  <2> QED BY <1>8, <2>1
<1>11. f \in Bijection(Q, P)
  <2>1. f \in [Q -> P]
    BY <1>6
  <2> QED BY <1>7, <1>10, <2>1, Fun_IsBij
<1> HIDE DEF f, P, Q
<1>12. Picked(s, P) = Picked(t, Q)
  <2>1. Matches(f, t, Q, s, P)
    BY <1>6, <1>8, <1>9, <1>11 DEF Matches
  <2> QED BY <2>1, PickedSame
<1> QED BY <1>12 DEF dedupeEvents, P, Q, s, t, az

(* A longer sequence keeps the history of the shorter one at its start.    *)
Extends(g, h) == \E c \in Seq(Event) : h = g \o c
LEMMA ExtendsFurther ==
    ASSUME NEW a \in Seq(Event), NEW b \in Seq(Event)
    PROVE  Extends(dedupeEvents(a), dedupeEvents(a \o b))
<1> DEFINE s == a \o b
           P == Firsts(a)
           R == Firsts(s)
           g == dedupeEvents(a)
           h == dedupeEvents(s)
<1>1. /\ s \in Seq(Event) /\ Len(a) \in Nat /\ Len(b) \in Nat /\ DOMAIN s = 1 .. Len(a) + Len(b)
      /\ \A i \in 1 .. Len(a) : s[i] = a[i]
  BY CatAt
<1>2. DOMAIN a = 1 .. Len(a)
  BY LenProperties
<1> HIDE DEF s
<1>3. /\ P \in SUBSET DOMAIN a /\ R \in SUBSET DOMAIN s
      /\ g \in Seq(Event) /\ Len(g) = Cardinality(P) /\ h \in Seq(Event) /\ Len(h) = Cardinality(R)
  <2>1. P \in SUBSET DOMAIN a /\ R \in SUBSET DOMAIN s
    BY DEF Firsts
  <2>2. g \in Seq(Event) /\ Len(g) = Cardinality(P)
    BY <2>1, PickedIs DEF dedupeEvents
  <2>3. h \in Seq(Event) /\ Len(h) = Cardinality(R)
    BY <1>1, <2>1, PickedIs DEF dedupeEvents
  <2> QED BY <2>1, <2>2, <2>3
<1>4. \A i \in 1 .. Len(a) : i \in P <=> i \in R
  <2> SUFFICES ASSUME NEW i \in 1 .. Len(a) PROVE i \in P <=> i \in R
    OBVIOUS
  <2>1. \A k \in 1 .. (i - 1) : k \in 1 .. Len(a)
    BY <1>1
  <2>2. (\A k \in 1 .. (i - 1) : a[k] # a[i]) <=> (\A k \in 1 .. (i - 1) : s[k] # s[i])
    BY <1>1, <2>1
  <2>3. i \in DOMAIN a /\ i \in DOMAIN s
    BY <1>1, <1>2
  <2> QED BY <2>2, <2>3 DEF Firsts
<1>5. IsFiniteSet(P) /\ P \subseteq Nat /\ IsFiniteSet(R) /\ R \subseteq Nat
  BY <1>1, FirstsFinite
<1> HIDE DEF P, R
<1>6. P \in SUBSET R
  BY <1>2, <1>3, <1>4
<1>7. Cardinality(P) <= Cardinality(R) /\ Cardinality(P) \in Nat /\ Cardinality(R) \in Nat
  BY <1>5, <1>6, FS_Subset, FS_CardinalityType
<1>8. ASSUME NEW i \in P PROVE Upto(R, i) = Upto(P, i)
  <2>1. \A k \in R : k <= i => k \in P
    <3> SUFFICES ASSUME NEW k \in R, k <= i PROVE k \in P
      OBVIOUS
    <3>1. i \in 1 .. Len(a) /\ k \in 1 .. Len(a) + Len(b)
      BY <1>1, <1>2, <1>3
    <3>2. k \in 1 .. Len(a)
      BY <1>1, <3>1
    <3> QED BY <1>4, <3>2
  <2> QED BY <1>6, <2>1 DEF Upto
<1>9. ASSUME NEW n \in 1 .. Cardinality(P) PROVE h[n] = g[n]
  <2>1. Place(P, n) \in P /\ Cardinality(Upto(P, Place(P, n))) = n
    BY <1>5, Places
  <2>2. Place(P, n) \in R /\ Cardinality(Upto(R, Place(P, n))) = n
    BY <1>6, <1>8, <2>1
  <2>3. Place(R, n) = Place(P, n)
    BY <1>5, <2>2, Places
  <2>4. s[Place(P, n)] = a[Place(P, n)]
    BY <1>1, <1>2, <1>3, <2>1
  <2>5. g = [m \in 1 .. Cardinality(P) |-> a[Place(P, m)]] /\ h = [m \in 1 .. Cardinality(R) |-> s[Place(R, m)]]
    BY DEF dedupeEvents, Picked, Place, P, R
  <2>6. n \in 1 .. Cardinality(R)
    BY <1>7
  <2>7. g[n] = a[Place(P, n)]
    BY <2>5
  <2>8. h[n] = s[Place(R, n)]
    BY <2>5, <2>6
  <2> QED BY <2>3, <2>4, <2>7, <2>8
<1> HIDE DEF g, h
<1> DEFINE n == Len(g)
<1>10. n \in 0 .. Len(h)
  BY <1>3, <1>7
<1>11. /\ Oldest(h, n) \in Seq(Event) /\ Rest(h, n) \in Seq(Event) /\ Len(Oldest(h, n)) = n
       /\ Oldest(h, n) \o Rest(h, n) = h /\ \A i \in 1 .. n : Oldest(h, n)[i] = h[i]
  BY <1>3, <1>10, Halves
<1>12. Oldest(h, n) = g
  <2>1. Len(Oldest(h, n)) = Len(g) /\ \A i \in 1 .. Len(Oldest(h, n)) : Oldest(h, n)[i] = g[i]
    BY <1>3, <1>9, <1>11
  <2> QED BY <1>3, <1>11, <2>1, SeqEqual
<1>13. h = g \o Rest(h, n)
  BY <1>11, <1>12
<1> QED BY <1>11, <1>13 DEF Extends, g, h, s

LEMMA ExtendsSelf == ASSUME NEW g \in Seq(Event) PROVE Extends(g, g)
BY EmptySeq, ConcatEmptySeq DEF Extends

(* Two ways to cut a sequence in two: the first part of one is the start   *)
(* of the first part of the other.                                         *)
Overlap(a, b, c, d) == \E q \in Seq(Event) : a = c \o q /\ d = q \o b
LEMMA Cut == ASSUME NEW a \in Seq(Event), NEW b \in Seq(Event), NEW c \in Seq(Event), NEW d \in Seq(Event),
                    a \o b = c \o d, Len(c) <= Len(a)
             PROVE  Overlap(a, b, c, d)
<1>0. Len(a) \in Nat /\ Len(b) \in Nat /\ Len(c) \in Nat /\ Len(d) \in Nat
  BY LenProperties
<1> DEFINE n == Len(c)
           q == Rest(a, n)
<1>1. /\ Oldest(a, n) \in Seq(Event) /\ q \in Seq(Event) /\ Len(Oldest(a, n)) = n /\ Len(q) = Len(a) - n
      /\ Oldest(a, n) \o q = a
      /\ \A i \in 1 .. n : Oldest(a, n)[i] = a[i]
      /\ \A i \in 1 .. (Len(a) - n) : q[i] = a[n + i]
  <2>1. n \in 0 .. Len(a)
    BY <1>0
  <2> QED BY <2>1, Halves
<1> HIDE DEF q
<1>2. /\ Len(a \o b) = Len(a) + Len(b) /\ \A i \in 1 .. Len(a) : (a \o b)[i] = a[i]
  BY CatAt
<1>3. /\ Len(c \o d) = Len(c) + Len(d) /\ \A i \in 1 .. Len(c) : (c \o d)[i] = c[i]
  BY CatAt
<1>4. Oldest(a, n) = c
  <2>1. \A i \in 1 .. n : i \in 1 .. Len(a)
    BY <1>0
  <2>2. \A i \in 1 .. n : Oldest(a, n)[i] = c[i]
    BY <1>1, <1>2, <1>3, <2>1
  <2> QED BY <1>1, <2>2, SeqEqual
<1>5. a = c \o q
  BY <1>1, <1>4
<1>6. c \o d = c \o (q \o b)
  <2>1. q \in Seq(Event)
    BY <1>1
  <2>2. (c \o q) \o b = c \o (q \o b)
    BY <2>1, ConcatAssociative
  <2> QED BY <1>5, <2>2
<1>7. q \o b \in Seq(Event)
  BY <1>1, CatAt
<1>8. d = q \o b
  BY <1>6, <1>7, ConcatSimplifications
<1> QED BY <1>1, <1>5, <1>8 DEF Overlap

(* Of s, a has the first part and w begins with the second: the window on  *)
(* disk has what the archive has not.                                      *)
Covers(a, s, w) == \E z, q, r \in Seq(Event) : s = z \o q /\ Elems(z) \subseteq Elems(a) /\ w = q \o r

LEMMA Grouped == \A x, y, z \in Seq(Event) : (x \o y) \o z = x \o (y \o z)
BY ConcatAssociative

LEMMA CoverExtends ==
    ASSUME NEW a \in Seq(Event), NEW s, NEW w, Covers(a, s, w)
    PROVE  Extends(dedupeEvents(a \o s), dedupeEvents(a \o w))
<1>1. PICK z \in Seq(Event), q \in Seq(Event), r \in Seq(Event) :
            s = z \o q /\ Elems(z) \subseteq Elems(a) /\ w = q \o r
  BY DEF Covers
<1>2. a \o s = (a \o z) \o q
  BY <1>1, Grouped
<1>3. a \o w = (a \o q) \o r
  BY <1>1, Grouped
<1>4. dedupeEvents((a \o z) \o q) = dedupeEvents(a \o q)
  BY <1>1, RepeatsGo
<1>5. a \o q \in Seq(Event)
  BY CatAt
<1>6. Extends(dedupeEvents(a \o q), dedupeEvents((a \o q) \o r))
  BY <1>5, ExtendsFurther
<1> QED BY <1>2, <1>3, <1>4, <1>6

LEMMA CoverMore ==
    ASSUME NEW a, NEW b, NEW s, NEW w, Covers(a, s, w), Elems(a) \subseteq Elems(b)
    PROVE  Covers(b, s, w)
BY DEF Covers

LEMMA CoverSelf == ASSUME NEW a, NEW s \in Seq(Event) PROVE Covers(a, s, s)
<1>1. << >> \in Seq(Event) /\ << >> \o s = s /\ s \o << >> = s /\ Elems(<< >>) = {}
  BY EmptySeq, ConcatEmptySeq, ElemsEmpty
<1> QED BY <1>1 DEF Covers

(* What an operation moves from the window it found to the archive.        *)
LEMMA Moved ==
    ASSUME NEW a \in Seq(Event), NEW s \in Seq(Event), NEW b \in Seq(Event),
           NEW p \in Seq(Event), NEW i \in Seq(Event), s \o b = p \o i
    PROVE  /\ Extends(dedupeEvents(a \o s), dedupeEvents((a \o p) \o s))
           /\ Elems(p) \subseteq Elems(a) => Covers(a, s, i)
<1>0. /\ << >> \in Seq(Event) /\ Len(s) \in Nat /\ Len(p) \in Nat
      /\ a \o p \in Seq(Event) /\ a \o s \in Seq(Event) /\ (a \o p) \o s \in Seq(Event)
  <2>1. a \o p \in Seq(Event) /\ a \o s \in Seq(Event)
    BY CatAt
  <2> QED BY <2>1, CatAt, EmptySeq, LenProperties
<1>1. Elems(a \o p) = Elems(a) \cup Elems(p)
  BY ElemsCat
<1>2. CASE Len(p) <= Len(s)
  <2>1. PICK q \in Seq(Event) : s = p \o q /\ i = q \o b
    <3>1. Overlap(s, b, p, i)
      BY <1>2, Cut, Zenon
    <3> QED BY <3>1 DEF Overlap
  <2>2. (a \o p) \o s = ((a \o p) \o p) \o q
    <3>1. ASSUME NEW x \in Seq(Event) PROVE (x \o p) \o q = x \o (p \o q)
      BY Grouped
    <3> QED BY <1>0, <2>1, <3>1
  <2>3. dedupeEvents(((a \o p) \o p) \o q) = dedupeEvents((a \o p) \o q)
    BY <1>0, <1>1, RepeatsGo
  <2>4. (a \o p) \o q = a \o s
    BY <2>1, Grouped
  <2>5. dedupeEvents(a \o s) \in Seq(Event)
    BY <1>0, Deduped
  <2>6. Extends(dedupeEvents(a \o s), dedupeEvents(a \o s))
    BY <2>5, ExtendsSelf
  <2>7. Elems(p) \subseteq Elems(a) => Covers(a, s, i)
    BY <2>1 DEF Covers
  <2> QED BY <2>2, <2>3, <2>4, <2>6, <2>7
<1>3. CASE ~(Len(p) <= Len(s))
  <2>1. PICK m \in Seq(Event) : p = s \o m
    <3>1. Len(s) <= Len(p) /\ p \o i = s \o b
      BY <1>0, <1>3
    <3>2. Overlap(p, i, s, b)
      BY <3>1, Cut, Zenon
    <3> QED BY <3>2 DEF Overlap
  <2>2. Elems(p) = Elems(s) \cup Elems(m)
    BY <2>1, ElemsCat
  <2>3. dedupeEvents(((a \o p) \o s) \o << >>) = dedupeEvents((a \o p) \o << >>)
    BY <1>0, <1>1, <2>2, RepeatsGo
  <2>4. ((a \o p) \o s) \o << >> = (a \o p) \o s /\ (a \o p) \o << >> = a \o p
    BY <1>0, ConcatEmptySeq
  <2>5. a \o p = (a \o s) \o m
    <3>1. (a \o s) \o m = a \o (s \o m)
      BY Grouped
    <3> QED BY <2>1, <3>1
  <2>6. Extends(dedupeEvents(a \o s), dedupeEvents((a \o s) \o m))
    BY <1>0, ExtendsFurther
  <2>7. Elems(p) \subseteq Elems(a) => Covers(a, s, i)
    <3>1. s = s \o << >> /\ i = << >> \o i
      BY ConcatEmptySeq
    <3> QED BY <1>0, <2>2, <3>1 DEF Covers
  <2> QED BY <2>3, <2>4, <2>5, <2>6, <2>7
<1> QED BY <1>2, <1>3

(* Where nothing is meant to be lost: what the operation in hand found and *)
(* what it made of it, and how archive and window cover what others see.   *)
Linked ==
    /\ ~ torn
    /\ pc = "idle" => pending = << >> /\ Covers(archive, items, window)
    /\ Busy => undo.pending = << >> /\ Covers(archive, undo.items, window)
    /\ pc \in {"archive", "window"} => undo.items \o batch = pending \o items
    /\ pc = "window" => Elems(pending) \subseteq Elems(archive)
    /\ pc = "rest" => pending = << >> /\ window = items
Joined == Lossless => Linked

LEMMA JoinedInit == Init => Joined
<1> SUFFICES ASSUME Init PROVE Linked
  BY DEF Joined
<1>1. << >> \in Seq(Event)
  BY EmptySeq
<1>2. Covers(<< >>, << >>, << >>)
  BY <1>1, CoverSelf
<1> QED BY <1>2 DEF Init, Linked, Busy

LEMMA VisibleIs ==
    ASSUME LogTyped, Linked
    PROVE  /\ pc = "idle" => VisibleHistory = dedupeEvents(archive \o items)
           /\ pc = "down" => VisibleHistory = dedupeEvents(archive \o window)
           /\ Busy => VisibleHistory = dedupeEvents(archive \o undo.items)
           /\ VisibleHistory \in Seq(Event)
<1>0. /\ archive \in Seq(Event) /\ items \in Seq(Event) /\ window \in Seq(Event) /\ undo.items \in Seq(Event)
      /\ pc \in {"idle", "archive", "window", "rest", "down"}
  BY TypeMeans DEF LogTyped, TypeOK
<1>1. archive \o << >> = archive
  BY <1>0, ConcatEmptySeq
<1>2. CASE pc = "idle"
  <2>1. VisibleHistory = dedupeEvents(archive \o items)
    BY <1>1, <1>2 DEF VisibleHistory, Linked
  <2>2. archive \o items \in Seq(Event)
    BY <1>0, CatAt
  <2> QED BY <1>2, <2>1, <2>2, Deduped DEF Busy
<1>3. CASE pc = "down"
  <2>1. VisibleHistory = dedupeEvents(archive \o window)
    BY <1>3 DEF VisibleHistory
  <2>2. archive \o window \in Seq(Event)
    BY <1>0, CatAt
  <2> QED BY <1>3, <2>1, <2>2, Deduped DEF Busy
<1>4. CASE Busy
  <2>1. VisibleHistory = dedupeEvents(archive \o undo.items)
    BY <1>1, <1>4 DEF VisibleHistory, Linked, Busy
  <2>2. archive \o undo.items \in Seq(Event)
    BY <1>0, CatAt
  <2> QED BY <1>4, <2>1, <2>2, Deduped DEF Busy
<1> QED BY <1>0, <1>2, <1>3, <1>4 DEF Busy

LEMMA JoinedStep ==
    ASSUME LogTyped, InOrder, Lossless, Linked, [Next]_vars
    PROVE  Linked' /\ Extends(VisibleHistory, VisibleHistory')
<1>0. /\ archive \in Seq(Event) /\ items \in Seq(Event) /\ window \in Seq(Event) /\ undo.items \in Seq(Event)
      /\ pending \in Seq(Event) /\ batch \in Seq(Event)
      /\ limit \in Nat /\ env.limits \subseteq Nat /\ env.batches \subseteq Nat \ {0}
      /\ pc \in {"idle", "archive", "window", "rest", "down"}
  BY TypeMeans DEF LogTyped, TypeOK
<1>1. (Busy => batch # << >>) /\ Sized /\ Increasing
  BY DEF InOrder
<1>2. archive \o << >> = archive
  BY <1>0, ConcatEmptySeq
<1>3. Extends(VisibleHistory, VisibleHistory)
  BY VisibleIs, ExtendsSelf
<1>4. CASE UNCHANGED vars
  <2>1. VisibleHistory' = VisibleHistory /\ Linked'
    BY <1>4 DEF vars, memVars, diskVars, VisibleHistory, Linked, Busy
  <2> QED BY <1>3, <2>1
<1>5. ASSUME NEW n \in env.batches, Operate(n) PROVE Linked' /\ Extends(VisibleHistory, VisibleHistory')
  <2>1. /\ pc = "idle" /\ pc' = "archive" /\ undo' = [items |-> items, pending |-> pending, count |-> count]
        /\ batch' = NewEvents(n) /\ UNCHANGED <<archive, torn, window>> /\ AppendEvents(n)
    BY <1>5 DEF Operate, diskVars
  <2>2. undo'.items = items /\ undo'.pending = << >> /\ pending = << >>
    BY <2>1 DEF Linked
  <2>3. pending' \o items' = (pending \o items) \o NewEvents(n)
    BY <1>0, <2>1, Appended
  <2>4. pending \o items = items
    BY <1>0, <2>2, ConcatEmptySeq
  <2>5. Linked'
    BY <2>1, <2>2, <2>3, <2>4 DEF Linked, Busy
  <2>6. VisibleHistory' = dedupeEvents(archive \o items)
    BY <1>2, <2>1, <2>2 DEF VisibleHistory
  <2>7. VisibleHistory' = VisibleHistory
    BY <2>1, <2>6, VisibleIs
  <2> QED BY <1>3, <2>5, <2>7
<1>6. CASE AppendArchive
  <2>1. /\ pc = "archive" /\ pc' = "window" /\ archive' = Written(pending) /\ torn' = (torn /\ pending = << >>)
        /\ UNCHANGED <<items, pending, undo, batch, window>>
    BY <1>6 DEF AppendArchive, memVars
  <2>2. /\ ~ torn /\ Busy /\ undo.pending = << >> /\ Covers(archive, undo.items, window)
        /\ undo.items \o batch = pending \o items
    BY <2>1 DEF Linked, Busy
  <2>3. archive' = archive \o pending
    BY <1>0, <2>1, <2>2, WrittenIs
  <2>4. archive' \in Seq(Event) /\ Elems(archive') = Elems(archive) \cup Elems(pending)
    BY <1>0, <2>3, ElemsCat
  <2>5. Covers(archive', undo.items, window)
    BY <2>2, <2>4, CoverMore
  <2>6. Linked'
    BY <2>1, <2>2, <2>4, <2>5 DEF Linked, Busy
  <2>7. VisibleHistory' = dedupeEvents((archive \o pending) \o undo.items)
    <3>1. archive' \o << >> = archive'
      BY <2>4, ConcatEmptySeq
    <3> QED BY <2>1, <2>2, <2>3, <3>1 DEF VisibleHistory
  <2>8. Extends(dedupeEvents(archive \o undo.items), dedupeEvents((archive \o pending) \o undo.items))
    BY <1>0, <2>2, Moved
  <2>9. VisibleHistory = dedupeEvents(archive \o undo.items)
    BY <2>2, VisibleIs
  <2> QED BY <2>6, <2>7, <2>8, <2>9
<1>7. CASE SaveWindow
  <2>1. /\ pc = "window" /\ pc' = "rest" /\ window' = items /\ pending' = << >>
        /\ UNCHANGED <<items, undo, batch, archive, torn>>
    BY <1>7 DEF SaveWindow
  <2>2. /\ ~ torn /\ undo.pending = << >> /\ undo.items \o batch = pending \o items
        /\ Elems(pending) \subseteq Elems(archive)
    BY <2>1 DEF Linked, Busy
  <2>3. Covers(archive, undo.items, items)
    BY <1>0, <2>2, Moved
  <2>4. Linked'
    BY <2>1, <2>2, <2>3 DEF Linked, Busy
  <2>5. VisibleHistory' = VisibleHistory
    BY <2>1 DEF VisibleHistory
  <2> QED BY <1>3, <2>4, <2>5
<1>8. CASE Succeed
  <2>1. /\ pc = "rest" /\ pc' = "idle" /\ UNCHANGED <<items, pending, undo, archive, torn, window>>
    BY <1>8 DEF Succeed, memVars, diskVars
  <2>2. Busy /\ ~ torn /\ pending = << >> /\ window = items /\ Covers(archive, undo.items, window)
    BY <2>1 DEF Linked, Busy
  <2>3. Covers(archive, items, items)
    BY <1>0, CoverSelf
  <2>4. Linked'
    BY <2>1, <2>2, <2>3 DEF Linked, Busy
  <2>5. VisibleHistory' = dedupeEvents(archive \o items)
    BY <1>2, <2>1, <2>2 DEF VisibleHistory
  <2>6. Extends(dedupeEvents(archive \o undo.items), dedupeEvents(archive \o window))
    BY <1>0, <2>2, CoverExtends
  <2> QED BY <2>2, <2>4, <2>5, <2>6, VisibleIs
<1>9. CASE Fail
  <2>1. Busy
    BY <1>9 DEF Fail, Busy
  <2>2. /\ pc' = "idle" /\ items' = undo.items /\ pending' = undo.pending
        /\ UNCHANGED <<archive, torn, window>>
    BY <1>1, <1>9, <2>1 DEF Fail, Restored, diskVars
  <2>3. ~ torn /\ undo.pending = << >> /\ Covers(archive, undo.items, window)
    BY <2>1 DEF Linked
  <2>4. Linked'
    BY <2>2, <2>3 DEF Linked, Busy
  <2>5. VisibleHistory' = dedupeEvents(archive \o undo.items)
    BY <1>2, <2>2, <2>3 DEF VisibleHistory
  <2> QED BY <1>3, <2>1, <2>4, <2>5, VisibleIs
<1>10. CASE Crash
  <2>1. pc # "down" /\ pc' = "down" /\ UNCHANGED <<archive, torn, window>>
    BY <1>10 DEF Crash, diskVars
  <2>2. Linked'
    BY <2>1 DEF Linked, Busy
  <2>3. VisibleHistory' = dedupeEvents(archive \o window)
    BY <2>1 DEF VisibleHistory
  <2>4. CASE pc = "idle"
    <3>1. Extends(dedupeEvents(archive \o items), dedupeEvents(archive \o window))
      BY <1>0, <2>4, CoverExtends DEF Linked
    <3> QED BY <2>2, <2>3, <2>4, <3>1, VisibleIs
  <2>5. CASE Busy
    <3>1. Extends(dedupeEvents(archive \o undo.items), dedupeEvents(archive \o window))
      BY <1>0, <2>5, CoverExtends DEF Linked
    <3> QED BY <2>2, <2>3, <2>5, <3>1, VisibleIs
  <2> QED BY <1>0, <2>1, <2>4, <2>5 DEF Busy
<1>11. ASSUME NEW l \in env.limits, Start(l) PROVE Linked' /\ Extends(VisibleHistory, VisibleHistory')
  <2>1. /\ pc = "down" /\ pc' = "idle" /\ pending' = << >> /\ UNCHANGED <<archive, torn, window>>
    BY <1>11 DEF Start, diskVars
  <2>2. l = limit
    BY <1>11 DEF Lossless, LogTyped, TypeOK
  <2>3. l = 0 \/ Len(window) <= l
    BY <1>0, <1>1, <2>2 DEF Sized
  <2>4. dedupeEvents(window) = window
    BY <1>0, <1>1, IncrNoRepeats, NothingDropped DEF Increasing
  <2>5. items' = window
    BY <1>11, <2>3, <2>4, Started
  <2>6. Covers(archive, window, window)
    BY <1>0, CoverSelf
  <2>7. Linked'
    BY <2>1, <2>5, <2>6 DEF Linked, Busy
  <2>8. VisibleHistory' = dedupeEvents(archive \o window)
    BY <1>2, <2>1, <2>5 DEF VisibleHistory
  <2> QED BY <1>3, <2>1, <2>7, <2>8, VisibleIs
<1>12. CASE Next
  BY <1>5, <1>6, <1>7, <1>8, <1>9, <1>10, <1>11, <1>12, LosslessSteps
<1> QED BY <1>4, <1>12

(* A history that extends another without repetitions is one that Evidence *)
(* allows next.                                                            *)
LEMMA EvidenceStep ==
    ASSUME Exported \in Seq(Event), Exported' \in Seq(Event), Extends(Exported, Exported'), NoRepeats(Exported')
    PROVE  [E!Next]_Exported
<1> DEFINE g == Exported
           h == Exported'
<1>1. PICK c \in Seq(Event) : h = g \o c
  BY DEF Extends
<1>2. /\ Len(g) \in Nat /\ Len(c) \in Nat /\ Len(h) = Len(g) + Len(c)
      /\ \A i \in 1 .. Len(c) : h[Len(g) + i] = c[i]
  BY <1>1, CatAt
<1>3. CASE c = << >>
  <2>1. h = g
    BY <1>1, <1>3, ConcatEmptySeq
  <2> QED BY <2>1
<1>4. CASE c # << >>
  <2>1. Len(g) \in 0 .. Len(h)
    BY <1>2
  <2>2. SubSeq(h, Len(g) + 1, Len(h)) = c
    <3>1. /\ Rest(h, Len(g)) \in Seq(Event) /\ Len(Rest(h, Len(g))) = Len(h) - Len(g)
          /\ \A i \in 1 .. (Len(h) - Len(g)) : Rest(h, Len(g))[i] = h[Len(g) + i]
      BY <2>1, Halves
    <3>2. Len(Rest(h, Len(g))) = Len(c) /\ \A i \in 1 .. Len(c) : Rest(h, Len(g))[i] = c[i]
      BY <1>2, <3>1
    <3>3. Rest(h, Len(g)) = c
      BY <3>1, <3>2, SeqEqual
    <3> QED BY <3>3 DEF Rest
  <2>3. E!NoRepeats(h)
    BY DEF NoRepeats, E!NoRepeats
  <2>4. E!Record(c)
    BY <1>1, <1>4, <2>3 DEF E!Record
  <2>5. E!Next
    BY <2>1, <2>2, <2>4 DEF E!Next
  <2> QED BY <2>5
<1> QED BY <1>3, <1>4

LEMMA ExportedStep ==
    ASSUME LogInv, Joined, [Next]_vars
    PROVE  Joined' /\ [E!Next]_Exported
<1>1. Lossless' <=> Lossless
  BY EnvKept DEF Lossless
<1>2. CASE ~ Lossless
  <2>1. Exported = << >> /\ Exported' = << >>
    BY <1>1, <1>2 DEF Exported
  <2> QED BY <1>1, <1>2, <2>1 DEF Joined
<1>3. CASE Lossless
  <2>1. LogTyped /\ InOrder /\ Linked
    BY <1>3 DEF LogInv, Joined
  <2>2. Linked' /\ Extends(VisibleHistory, VisibleHistory')
    BY <1>3, <2>1, JoinedStep
  <2>3. LogTyped'
    BY <2>1, LogTypedStep
  <2>4. Exported = VisibleHistory /\ Exported' = VisibleHistory'
    BY <1>1, <1>3 DEF Exported
  <2>5. VisibleHistory \in Seq(Event)
    BY <2>1, VisibleIs
  <2>6. VisibleHistory' \in Seq(Event) /\ NoRepeats(VisibleHistory')
    <3>1. /\ archive' \in Seq(Event) /\ items' \in Seq(Event) /\ pending' \in Seq(Event) /\ window' \in Seq(Event)
          /\ undo'.items \in Seq(Event) /\ undo'.pending \in Seq(Event)
      BY <2>3 DEF LogTyped, TypeOK
    <3>2. /\ archive' \o pending' \in Seq(Event) /\ archive' \o undo'.pending \in Seq(Event)
          /\ archive' \o window' \in Seq(Event)
      BY <3>1, CatAt
    <3>3. archive' \o pending' \o items' \in Seq(Event) /\ archive' \o undo'.pending \o undo'.items \in Seq(Event)
      BY <3>1, <3>2, CatAt
    <3>4. PICK s \in Seq(Event) : VisibleHistory' = dedupeEvents(s)
      BY <3>2, <3>3 DEF VisibleHistory
    <3> QED BY <3>4, Deduped
  <2>7. [E!Next]_Exported
    BY <2>2, <2>4, <2>5, <2>6, EvidenceStep
  <2> QED BY <2>2, <2>7 DEF Joined
<1> QED BY <1>2, <1>3

(* The store, its two files, failures and crashes implement the append-    *)
(* only history, in the environments that are meant to keep it: what other *)
(* requests see of the events (Snapshot, under Service.mu) only grows, at  *)
(* its end, through failed saves, crashes between any two writes and the   *)
(* restarts after them.                                                    *)
THEOREM EventsAreAppended == StreamSpec => AppendOnly
<1>1. StreamInit => Joined /\ E!Init
  <2> SUFFICES ASSUME StreamInit PROVE Joined /\ E!Init
    OBVIOUS
  <2>1. Joined
    BY JoinedInit DEF StreamInit
  <2>2. VisibleHistory = dedupeEvents(<< >>)
    BY ConcatEmptySeq, EmptySeq DEF StreamInit, Init, VisibleHistory
  <2>3. NoRepeats(<< >>) /\ << >> \in Seq(Event)
    BY EmptySeq DEF NoRepeats
  <2>4. dedupeEvents(<< >>) = << >>
    BY <2>3, NothingDropped
  <2> QED BY <2>1, <2>2, <2>4 DEF Exported, E!Init
<1>2. StreamInv /\ Joined /\ [StreamNext]_<<vars, streamVars>> => Joined' /\ [E!Next]_Exported
  <2> SUFFICES ASSUME StreamInv, Joined, [StreamNext]_<<vars, streamVars>> PROVE Joined' /\ [E!Next]_Exported
    OBVIOUS
  <2>1. [Next]_vars
    BY DEF StreamNext, LogStep, Connect, Disconnect, Poll
  <2> QED BY <2>1, ExportedStep DEF StreamInv
<1> QED BY <1>1, <1>2, LogInvariant, PTL DEF StreamSpec, AppendOnly, E!Spec
=============================================================================
