--------------------------- MODULE HashTable_proofs ---------------------------
(***************************************************************************)
(* Proofs about HashTable, for any size of a new table, any set of keys    *)
(* (the ids need not be bounded) and any number of stray readers.          *)
(***************************************************************************)
EXTENDS HashTable, FiniteSetTheorems, SequenceTheorems, TLAPS

-----------------------------------------------------------------------------
(* Numbers                                                                 *)

LEMMA SlotRange == ASSUME NEW k \in Nat, NEW n \in Nat \ {0} PROVE Slot(k, n) \in 0..n-1
BY DEF Slot

(* a set of numbers that is not empty has a least one                      *)
LEMMA Least ==
  ASSUME NEW S \in SUBSET Nat, S # {}
  PROVE  Min(S) \in S /\ \A j \in S : Min(S) <= j
<1>1. PICK m \in S : \A j \in S : ~(<<j, m>> \in OpToRel(<, Nat))
  BY NatLessThanWellFounded, WFMin, Zenon
<1>2. \A j \in S : <<j, m>> \in OpToRel(<, Nat) <=> j < m
  BY DEF OpToRel
<1>3. \A j \in S : ~(j < m)
  BY <1>1, <1>2
<1>4. \A j \in S : m <= j
  BY <1>3
<1> QED
  BY <1>4 DEF Min

Below(S, R, x) == {y \in S : <<y, x>> \in R}
Rank(S, R, x) == Cardinality(Below(S, R, x))

(* The members of a finite set are numbered by how many are before them.   *)
LEMMA Numbering ==
  ASSUME NEW S, IsFiniteSet(S), NEW R,
         \A x \in S : <<x, x>> \notin R,
         \A x, y, z \in S : <<x, y>> \in R /\ <<y, z>> \in R => <<x, z>> \in R,
         \A x, y \in S : x # y => <<x, y>> \in R \/ <<y, x>> \in R
  PROVE  /\ Cardinality(S) \in Nat
         /\ \A x \in S : Rank(S, R, x) \in 0..Cardinality(S)-1
         /\ \A x, y \in S : Rank(S, R, x) = Rank(S, R, y) => x = y
         /\ \A n \in 1..Cardinality(S) : \E x \in S : Rank(S, R, x) = n - 1
<1>0. Cardinality(S) \in Nat
  BY FS_CardinalityType
<1>1. \A x \in S : IsFiniteSet(Below(S, R, x)) /\ Rank(S, R, x) \in Nat /\ Rank(S, R, x) < Cardinality(S)
  <2> SUFFICES ASSUME NEW x \in S
               PROVE  IsFiniteSet(Below(S, R, x)) /\ Rank(S, R, x) \in Nat /\ Rank(S, R, x) < Cardinality(S)
    OBVIOUS
  <2>1. Below(S, R, x) \in SUBSET S /\ Below(S, R, x) # S
    BY DEF Below
  <2>2. IsFiniteSet(Below(S, R, x)) /\ Cardinality(Below(S, R, x)) <= Cardinality(S) /\ Cardinality(Below(S, R, x)) # Cardinality(S)
    BY <2>1, FS_Subset
  <2>3. Cardinality(Below(S, R, x)) \in Nat
    BY <2>2, FS_CardinalityType
  <2> QED
    BY <1>0, <2>2, <2>3 DEF Rank
<1>2. \A x, y \in S : <<x, y>> \in R => Rank(S, R, x) < Rank(S, R, y)
  <2> SUFFICES ASSUME NEW x \in S, NEW y \in S, <<x, y>> \in R
               PROVE  Rank(S, R, x) < Rank(S, R, y)
    OBVIOUS
  <2>1. Below(S, R, x) \in SUBSET Below(S, R, y) /\ Below(S, R, x) # Below(S, R, y)
    BY DEF Below
  <2>2. Cardinality(Below(S, R, x)) <= Cardinality(Below(S, R, y)) /\ Cardinality(Below(S, R, x)) # Cardinality(Below(S, R, y))
    BY <1>1, <2>1, FS_Subset
  <2> QED
    BY <1>1, <2>2 DEF Rank
<1>3. \A x, y \in S : Rank(S, R, x) = Rank(S, R, y) => x = y
  <2> SUFFICES ASSUME NEW x \in S, NEW y \in S, x # y
               PROVE  Rank(S, R, x) # Rank(S, R, y)
    OBVIOUS
  <2>1. Rank(S, R, x) < Rank(S, R, y) \/ Rank(S, R, y) < Rank(S, R, x)
    BY <1>2
  <2> QED
    BY <1>1, <2>1
<1>4. \A n \in 1..Cardinality(S) : \E x \in S : Rank(S, R, x) = n - 1
  <2> DEFINE T == 0..Cardinality(S)-1
             f == [x \in S |-> Rank(S, R, x)]
  <2>1. f \in [S -> T]
    BY <1>0, <1>1
  <2>0. \A x \in S : f[x] = Rank(S, R, x)
    OBVIOUS
  <2> HIDE DEF f, T
  <2>2. f \in Injection(S, T)
    BY <2>0, <2>1, <1>3 DEF Injection, IsInjective
  <2>3. IsFiniteSet(T) /\ Cardinality(T) = Cardinality(S)
    <3> DEFINE c == Cardinality(S)
    <3> HIDE DEF c
    <3>1. c \in Nat
      BY <1>0 DEF c
    <3>2. 0 \in Int /\ c - 1 \in Int
      BY <3>1
    <3>3. IsFiniteSet(0..c-1) /\ Cardinality(0..c-1) = IF 0 > c - 1 THEN 0 ELSE c - 1 - 0 + 1
      BY <3>2, FS_Interval
    <3>4. Cardinality(0..c-1) = c
      BY <3>1, <3>3
    <3> QED
      BY <3>3, <3>4 DEF c, T
  <2>4. f \in Surjection(S, T)
    BY <2>2, <2>3, FS_Injection
  <2>5. \A m \in T : \E x \in S : f[x] = m
    BY <2>4 DEF Surjection
  <2>6. \A n \in 1..Cardinality(S) : n - 1 \in T
    BY <1>0 DEF T
  <2> QED
    BY <2>0, <2>5, <2>6
<1> QED
  BY <1>0, <1>1, <1>3, <1>4

-----------------------------------------------------------------------------
(* Chains                                                                  *)

Distinct(chain) == \A i, j \in DOMAIN chain : chain[i].key = chain[j].key => i = j

LEMMA Lookup ==
  ASSUME NEW c \in Seq(Entry), Distinct(c), NEW i \in DOMAIN c
  PROVE  /\ c[i].key \in KeysIn(c)
         /\ IndexOf(c, c[i].key) = i
         /\ Find(c, c[i].key) = c[i].value
<1>1. c[i].key \in KeysIn(c)
  BY DEF KeysIn
<1>2. IndexOf(c, c[i].key) \in DOMAIN c /\ c[IndexOf(c, c[i].key)].key = c[i].key
  BY DEF IndexOf
<1>3. IndexOf(c, c[i].key) = i
  BY <1>2 DEF Distinct
<1> QED
  BY <1>1, <1>3 DEF Find

LEMMA Indexed ==
  ASSUME NEW c \in Seq(Entry), Distinct(c), NEW k \in KeysIn(c)
  PROVE  /\ IndexOf(c, k) \in DOMAIN c /\ c[IndexOf(c, k)].key = k
         /\ Find(c, k) = c[IndexOf(c, k)].value
<1>1. PICK i \in DOMAIN c : c[i].key = k
  BY DEF KeysIn
<1> QED
  BY <1>1, Lookup

Within(c, d, k) == \A i \in DOMAIN c : c[i].key # k => \E l \in DOMAIN d : d[l] = c[i]

(* Two chains with the same entries but for the key k give the same        *)
(* answer for other keys.                                                  *)
LEMMA SameAnswers ==
  ASSUME NEW c \in Seq(Entry), NEW d \in Seq(Entry), Distinct(c), Distinct(d), NEW k,
         Within(c, d, k), Within(d, c, k)
  PROVE  /\ KeysIn(d) \ {k} = KeysIn(c) \ {k}
         /\ \A j : j # k => Find(d, j) = Find(c, j)
<1>1. KeysIn(d) \ {k} = KeysIn(c) \ {k}
  BY DEF KeysIn, Within
<1>2. ASSUME NEW j, j # k
      PROVE  Find(d, j) = Find(c, j)
  <2>1. CASE j \in KeysIn(c)
    <3>1. PICK i \in DOMAIN c : c[i].key = j
      BY <2>1 DEF KeysIn
    <3>2. PICK l \in DOMAIN d : d[l] = c[i]
      BY <1>2, <3>1 DEF Within
    <3>3. Find(c, c[i].key) = c[i].value /\ Find(d, d[l].key) = d[l].value
      BY Lookup
    <3> QED
      BY <3>1, <3>2, <3>3
  <2>2. CASE j \notin KeysIn(c)
    BY <1>1, <1>2, <2>2 DEF Find
  <2> QED
    BY <2>1, <2>2
<1> QED
  BY <1>1, <1>2

LEMMA AppendEntry ==
  ASSUME NEW c \in Seq(Entry), Distinct(c), NEW e \in Entry, e.key \notin KeysIn(c)
  PROVE  LET d == Append(c, e) IN
         /\ d \in Seq(Entry) /\ Distinct(d)
         /\ KeysIn(d) = KeysIn(c) \cup {e.key}
         /\ \A k \in KeysIn(c) : IndexOf(d, k) = IndexOf(c, k)
         /\ Find(d, e.key) = e.value
         /\ \A j : j # e.key => Find(d, j) = Find(c, j)
<1> DEFINE d == Append(c, e)
<1>1. /\ d \in Seq(Entry) /\ Len(d) = Len(c) + 1 /\ Len(c) \in Nat
      /\ DOMAIN c = 1..Len(c) /\ DOMAIN d = 1..Len(c) + 1
      /\ \A i \in 1..Len(c) : d[i] = c[i]
      /\ d[Len(c) + 1] = e
  BY AppendProperties, LenProperties
<1> HIDE DEF d
<1>2. \A i \in DOMAIN c : c[i].key # e.key
  BY DEF KeysIn
<1>3. Distinct(d)
  BY <1>1, <1>2 DEF Distinct
<1>4. e.key \in KeysIn(d) /\ Find(d, e.key) = e.value
  <2>1. Len(c) + 1 \in DOMAIN d
    BY <1>1
  <2> QED
    BY <1>1, <1>3, <2>1, Lookup
<1>5. \A i \in DOMAIN c : i \in DOMAIN d /\ d[i] = c[i]
  BY <1>1
<1>6. \A i \in DOMAIN d : d[i].key # e.key => i \in DOMAIN c
  BY <1>1
<1>7. /\ KeysIn(d) \ {e.key} = KeysIn(c) \ {e.key}
      /\ \A j : j # e.key => Find(d, j) = Find(c, j)
  <2>1. Within(c, d, e.key)
    BY <1>5 DEF Within
  <2>2. Within(d, c, e.key)
    BY <1>5, <1>6 DEF Within
  <2> QED
    BY <1>1, <1>3, <2>1, <2>2, SameAnswers
<1>8. ASSUME NEW k \in KeysIn(c)
      PROVE  IndexOf(d, k) = IndexOf(c, k)
  <2>1. IndexOf(c, k) \in DOMAIN c /\ c[IndexOf(c, k)].key = k
    BY Indexed
  <2>2. IndexOf(c, k) \in DOMAIN d /\ d[IndexOf(c, k)].key = k
    BY <1>5, <2>1
  <2> QED
    BY <1>1, <1>3, <2>2, Lookup
<1> QED
  BY <1>1, <1>3, <1>4, <1>7, <1>8 DEF d

LEMMA ReplaceEntry ==
  ASSUME NEW c \in Seq(Entry), Distinct(c), NEW e \in Entry, e.key \in KeysIn(c)
  PROVE  LET d == [c EXCEPT ![IndexOf(c, e.key)] = e] IN
         /\ d \in Seq(Entry) /\ Distinct(d)
         /\ KeysIn(d) = KeysIn(c)
         /\ \A k \in KeysIn(c) : IndexOf(d, k) = IndexOf(c, k)
         /\ Find(d, e.key) = e.value
         /\ \A j : j # e.key => Find(d, j) = Find(c, j)
<1> DEFINE n == IndexOf(c, e.key)
           d == [c EXCEPT ![n] = e]
<1>1. n \in DOMAIN c /\ c[n].key = e.key
  BY Indexed
<1>2. d \in Seq(Entry) /\ DOMAIN d = DOMAIN c /\ d[n] = e
  <2>1. n \in 1..Len(c) /\ c \in [1..Len(c) -> Entry] /\ Len(c) \in Nat
    BY <1>1, LenProperties
  <2> HIDE DEF n
  <2> QED
    BY <2>1, ExceptSeq
<1>3. \A i \in DOMAIN c : i # n => d[i] = c[i]
  OBVIOUS
<1> HIDE DEF d, n
<1>4. \A i \in DOMAIN c : d[i].key = c[i].key
  BY <1>1, <1>2, <1>3
<1>5. Distinct(d)
  BY <1>2, <1>4 DEF Distinct
<1>6. KeysIn(d) = KeysIn(c)
  BY <1>2, <1>4 DEF KeysIn
<1>7. \A k \in KeysIn(c) : IndexOf(d, k) = IndexOf(c, k)
  <2> SUFFICES ASSUME NEW k \in KeysIn(c) PROVE IndexOf(d, k) = IndexOf(c, k)
    OBVIOUS
  <2>1. IndexOf(c, k) \in DOMAIN c /\ c[IndexOf(c, k)].key = k
    BY Indexed
  <2>2. IndexOf(c, k) \in DOMAIN d /\ d[IndexOf(c, k)].key = k
    BY <1>2, <1>4, <2>1
  <2> QED
    BY <1>2, <1>5, <2>2, Lookup
<1>8. Find(d, e.key) = e.value
  BY <1>1, <1>2, <1>5, Lookup
<1>9. \A j : j # e.key => Find(d, j) = Find(c, j)
  <2>1. Within(c, d, e.key)
    BY <1>1, <1>2, <1>3 DEF Within
  <2>2. Within(d, c, e.key)
    BY <1>1, <1>2, <1>3 DEF Within
  <2> QED
    BY <1>2, <1>5, <2>1, <2>2, SameAnswers
<1> QED
  BY <1>2, <1>5, <1>6, <1>7, <1>8, <1>9 DEF d, n

LEMMA RemoveEntry ==
  ASSUME NEW c \in Seq(Entry), Distinct(c), NEW k \in KeysIn(c)
  PROVE  LET d == RemoveAt(c, IndexOf(c, k)) IN
         /\ d \in Seq(Entry) /\ Distinct(d)
         /\ KeysIn(d) = KeysIn(c) \ {k}
         /\ Find(d, k) = None
         /\ \A j : j # k => Find(d, j) = Find(c, j)
<1> DEFINE n == IndexOf(c, k)
           a == SubSeq(c, 1, n-1)
           b == SubSeq(c, n+1, Len(c))
           d == RemoveAt(c, n)
<1>1. n \in 1..Len(c) /\ c[n].key = k /\ Len(c) \in Nat /\ DOMAIN c = 1..Len(c)
      /\ \A i \in 1..Len(c) : c[i] \in Entry
  BY Indexed, LenProperties
<1> HIDE DEF n
<1>2. a \in Seq(Entry) /\ Len(a) = n - 1 /\ \A i \in 1..n-1 : a[i] = c[i]
  <2>1. \A i \in 1..n-1 : c[i] \in Entry
    BY <1>1
  <2>2. 1 \in Int /\ n - 1 \in Int
    BY <1>1
  <2>3. /\ a \in Seq(Entry) /\ Len(a) = IF 1 <= n - 1 THEN n - 1 - 1 + 1 ELSE 0
        /\ \A i \in 1..n-1-1+1 : a[i] = c[1+i-1]
    BY <2>1, <2>2, SubSeqProperties
  <2>4. Len(a) = n - 1
    BY <1>1, <2>3
  <2>5. \A i \in 1..n-1 : a[i] = c[i]
    <3> SUFFICES ASSUME NEW i \in 1..n-1 PROVE a[i] = c[i]
      OBVIOUS
    <3>1. i \in 1..n-1-1+1 /\ 1+i-1 = i
      BY <1>1
    <3> QED
      BY <2>3, <3>1
  <2> QED
    BY <2>3, <2>4, <2>5
<1>3. b \in Seq(Entry) /\ Len(b) = Len(c) - n /\ \A i \in 1..Len(c)-n : b[i] = c[n+i]
  <2>1. \A i \in n+1..Len(c) : c[i] \in Entry
    BY <1>1
  <2>2. n + 1 \in Int /\ Len(c) \in Int
    BY <1>1
  <2>3. /\ b \in Seq(Entry) /\ Len(b) = IF n + 1 <= Len(c) THEN Len(c) - (n + 1) + 1 ELSE 0
        /\ \A i \in 1..Len(c)-(n+1)+1 : b[i] = c[n+1+i-1]
    BY <2>1, <2>2, SubSeqProperties
  <2>4. Len(b) = Len(c) - n
    <3> DEFINE l == Len(b)
               m == Len(c)
    <3>1. l = IF n + 1 <= m THEN m - (n + 1) + 1 ELSE 0
      BY <2>3
    <3>2. m \in Nat /\ n \in Nat /\ n <= m
      BY <1>1
    <3> HIDE DEF l, m
    <3>3. l = m - n
      BY <3>1, <3>2
    <3> QED
      BY <3>3 DEF l, m
  <2> HIDE DEF b
  <2>5. \A i \in 1..Len(c)-n : b[i] = c[n+i]
    <3> SUFFICES ASSUME NEW i \in 1..Len(c)-n PROVE b[i] = c[n+i]
      OBVIOUS
    <3>1. i \in 1..Len(c)-(n+1)+1 /\ n+1+i-1 = n+i
      BY <1>1
    <3> QED
      BY <2>3, <3>1
  <2> QED
    BY <2>3, <2>4, <2>5
<1> HIDE DEF a, b
<1>4. d \in Seq(Entry) /\ DOMAIN d = 1..Len(c)-1
      /\ \A i \in 1..Len(c)-1 : d[i] = IF i < n THEN c[i] ELSE c[i+1]
  <2>1. d = a \o b
    BY DEF RemoveAt, a, b
  <2>0. /\ a \o b \in Seq(Entry) /\ Len(a \o b) = Len(a) + Len(b)
        /\ \A i \in 1..Len(a) + Len(b) : (a \o b)[i] = IF i <= Len(a) THEN a[i] ELSE b[i - Len(a)]
    <3>1. a \in Seq(Entry) /\ b \in Seq(Entry)
      BY <1>2, <1>3
    <3> QED
      BY <3>1, ConcatProperties
  <2>2. d \in Seq(Entry) /\ Len(d) = Len(a) + Len(b)
        /\ \A i \in 1..Len(a) + Len(b) : d[i] = IF i <= Len(a) THEN a[i] ELSE b[i - Len(a)]
    BY <2>0, <2>1
  <2>3. Len(d) = Len(c) - 1
    BY <1>1, <1>2, <1>3, <2>2
  <2> SUFFICES ASSUME NEW i \in 1..Len(c)-1
               PROVE  d[i] = IF i < n THEN c[i] ELSE c[i+1]
    BY <2>2, <2>3, LenProperties
  <2>4. d[i] = IF i <= Len(a) THEN a[i] ELSE b[i - Len(a)]
    BY <1>1, <2>2, <2>3
  <2>5. CASE i < n
    BY <1>1, <1>2, <2>4, <2>5
  <2>6. CASE ~(i < n)
    <3>1. i - Len(a) \in 1..Len(c) - n /\ n + (i - Len(a)) = i + 1 /\ ~(i <= Len(a))
      BY <1>1, <1>2, <2>6
    <3>2. b[i - Len(a)] = c[n + (i - Len(a))]
      BY <1>3, <3>1
    <3> QED
      BY <2>4, <2>6, <3>1, <3>2
  <2> QED
    BY <2>5, <2>6
<1> HIDE DEF d
<1>5. Distinct(d)
  <2> SUFFICES ASSUME NEW i \in DOMAIN d, NEW j \in DOMAIN d, d[i].key = d[j].key
               PROVE  i = j
    BY DEF Distinct
  <2> DEFINE old_(x) == IF x < n THEN x ELSE x + 1
  <2>1. old_(i) \in DOMAIN c /\ old_(j) \in DOMAIN c /\ d[i] = c[old_(i)] /\ d[j] = c[old_(j)]
    BY <1>1, <1>4
  <2>2. old_(i) = old_(j)
    BY <2>1 DEF Distinct
  <2> QED
    BY <1>1, <1>4, <2>2
<1>6. k \notin KeysIn(d)
  <2> SUFFICES ASSUME NEW i \in DOMAIN d PROVE d[i].key # k
    BY DEF KeysIn
  <2> DEFINE o == IF i < n THEN i ELSE i + 1
  <2>1. o \in DOMAIN c /\ o # n /\ d[i] = c[o]
    BY <1>1, <1>4
  <2> QED
    BY <1>1, <2>1 DEF Distinct
<1>7. Within(c, d, k)
  <2> SUFFICES ASSUME NEW i \in DOMAIN c, c[i].key # k
               PROVE  \E l \in DOMAIN d : d[l] = c[i]
    BY DEF Within
  <2> DEFINE l == IF i < n THEN i ELSE i - 1
  <2>1. i # n
    BY <1>1
  <2>2. l \in DOMAIN d /\ d[l] = c[i]
    BY <1>1, <1>4, <2>1
  <2> QED
    BY <2>2
<1>8. Within(d, c, k)
  BY <1>1, <1>4 DEF Within
<1>9. KeysIn(d) \ {k} = KeysIn(c) \ {k} /\ \A j : j # k => Find(d, j) = Find(c, j)
  BY <1>4, <1>5, <1>7, <1>8, SameAnswers
<1>10. KeysIn(d) = KeysIn(c) \ {k} /\ Find(d, k) = None
  BY <1>6, <1>9 DEF Find
<1> QED
  BY <1>4, <1>5, <1>9, <1>10 DEF d, n

LEMMA RemoveFirstEntry ==
  ASSUME NEW c \in Seq(Entry), Distinct(c), c # <<>>
  PROVE  /\ Head(c) \in Entry /\ Head(c).key \in KeysIn(c) /\ Find(c, Head(c).key) = Head(c).value
         /\ Tail(c) \in Seq(Entry) /\ Distinct(Tail(c)) /\ Len(Tail(c)) = Len(c) - 1
         /\ KeysIn(Tail(c)) = KeysIn(c) \ {Head(c).key}
         /\ \A j : j # Head(c).key => Find(Tail(c), j) = Find(c, j)
<1> DEFINE d == Tail(c)
           k == Head(c).key
<1>1. /\ d \in Seq(Entry) /\ Len(d) = Len(c) - 1 /\ Len(c) \in Nat \ {0}
      /\ DOMAIN d = 1..Len(c)-1 /\ DOMAIN c = 1..Len(c)
      /\ \A i \in 1..Len(c)-1 : d[i] = c[i+1]
      /\ Head(c) = c[1] /\ Head(c) \in Entry
  BY HeadTailProperties, LenProperties, EmptySeq
<1> HIDE DEF d
<1>2. 1 \in DOMAIN c /\ c[1].key = k
  BY <1>1
<1>3. k \in KeysIn(c) /\ Find(c, k) = Head(c).value
  BY <1>1, <1>2, Lookup
<1> HIDE DEF k
<1>4. \A i \in DOMAIN d : i + 1 \in DOMAIN c /\ d[i] = c[i+1]
  BY <1>1
<1>5. Distinct(d)
  <2> SUFFICES ASSUME NEW i \in DOMAIN d, NEW j \in DOMAIN d, d[i].key = d[j].key
               PROVE  i = j
    BY DEF Distinct
  <2>1. i + 1 = j + 1
    BY <1>4 DEF Distinct
  <2> QED
    BY <1>1, <2>1
<1>6. k \notin KeysIn(d)
  <2> SUFFICES ASSUME NEW i \in DOMAIN d PROVE d[i].key # k
    BY DEF KeysIn
  <2>1. i + 1 # 1
    BY <1>1
  <2> QED
    BY <1>2, <1>4, <2>1 DEF Distinct
<1>7. \A i \in DOMAIN c : c[i].key # k => i - 1 \in DOMAIN d /\ d[i - 1] = c[i]
  <2> SUFFICES ASSUME NEW i \in DOMAIN c, c[i].key # k
               PROVE  i - 1 \in DOMAIN d /\ d[i - 1] = c[i]
    OBVIOUS
  <2>1. i # 1
    BY <1>2
  <2> QED
    BY <1>1, <2>1
<1>8. KeysIn(d) \ {k} = KeysIn(c) \ {k} /\ \A j : j # k => Find(d, j) = Find(c, j)
  <2>1. Within(c, d, k)
    BY <1>7 DEF Within
  <2>2. Within(d, c, k)
    BY <1>4 DEF Within
  <2> QED
    BY <1>1, <1>5, <2>1, <2>2, SameAnswers
<1> QED
  BY <1>1, <1>3, <1>5, <1>6, <1>8 DEF d, k

-----------------------------------------------------------------------------
(* Tables: S is an array of n chains                                       *)

Table(S, n) ==
  /\ S \in [0..n-1 -> Seq(Entry)]
  /\ \A s \in 0..n-1 : Distinct(S[s]) /\ \A k \in KeysIn(S[s]) : Slot(k, n) = s

AllKeys(S, n) == UNION {KeysIn(S[s]) : s \in 0..n-1}

Has(S, n, k) == k \in KeysIn(S[Slot(k, n)])
Answer(S, n, k) == Find(S[Slot(k, n)], k)

LEMMA KeysAreKeys == ASSUME NEW c \in Seq(Entry) PROVE KeysIn(c) \subseteq Keys
<1>1. \A i \in DOMAIN c : c[i] \in Entry
  BY LenProperties
<1> QED
  BY <1>1 DEF KeysIn, Entry

LEMMA AllKeysThere ==
  ASSUME NEW n \in Nat \ {0}, NEW S, Table(S, n)
  PROVE  AllKeys(S, n) \subseteq Keys /\ \A k \in Keys : k \in AllKeys(S, n) <=> Has(S, n, k)
<1>1. \A s \in 0..n-1 : KeysIn(S[s]) \subseteq Keys
  BY KeysAreKeys DEF Table
<1>2. \A k \in Keys : Slot(k, n) \in 0..n-1
  BY SlotRange, TableAssumption
<1> QED
  BY <1>1, <1>2 DEF AllKeys, Has, Table

LEMMA EmptyTables ==
  ASSUME NEW n \in Nat \ {0}
  PROVE  /\ Table(EmptyTable(n), n)
         /\ IsFiniteSet(AllKeys(EmptyTable(n), n)) /\ Cardinality(AllKeys(EmptyTable(n), n)) = 0
         /\ \A k \in Keys : ~Has(EmptyTable(n), n, k) /\ Answer(EmptyTable(n), n, k) = None
<1> DEFINE S == EmptyTable(n)
<1>1. S \in [0..n-1 -> Seq(Entry)] /\ \A s \in 0..n-1 : S[s] = <<>>
  BY DEF EmptyTable
<1> HIDE DEF S
<1>2. KeysIn(<<>>) = {} /\ Distinct(<<>>)
  BY DEF KeysIn, Distinct
<1>3. Table(S, n) /\ AllKeys(S, n) = {}
  BY <1>1, <1>2 DEF Table, AllKeys
<1>4. \A k \in Keys : ~Has(S, n, k) /\ Answer(S, n, k) = None
  BY <1>1, <1>2, SlotRange, TableAssumption DEF Has, Answer, Find
<1> QED
  BY <1>3, <1>4, FS_EmptySet DEF S

(* the chains c and d differ for k at most *)
Alike(c, d, k) == KeysIn(c) \ {k} = KeysIn(d) \ {k} /\ \A j : j # k => Find(c, j) = Find(d, j)

Exchange(S, n, k, c) == [S EXCEPT ![Slot(k, n)] = c]

(* a chain of the table is exchanged for one that differs for k            *)
LEMMA ExchangeChain ==
  ASSUME NEW n \in Nat \ {0}, NEW S, Table(S, n), NEW k \in Keys, NEW c \in Seq(Entry), Distinct(c),
         Alike(c, S[Slot(k, n)], k), NEW T, T = Exchange(S, n, k, c)
  PROVE  /\ Table(T, n)
         /\ AllKeys(T, n) \ {k} = AllKeys(S, n) \ {k}
         /\ Has(T, n, k) <=> k \in KeysIn(c)
         /\ Answer(T, n, k) = Find(c, k)
         /\ \A j \in Keys \ {k} : Answer(T, n, j) = Answer(S, n, j)
         /\ \A s \in 0..n-1 : T[s] = IF s = Slot(k, n) THEN c ELSE S[s]
<1> DEFINE m == Slot(k, n)
<1>1. m \in 0..n-1 /\ \A j \in Keys : Slot(j, n) \in 0..n-1
  BY SlotRange, TableAssumption
<1>2. T \in [0..n-1 -> Seq(Entry)] /\ \A s \in 0..n-1 : T[s] = IF s = m THEN c ELSE S[s]
  BY <1>1 DEF Table, Exchange
<1>0. Slot(k, n) = m
  OBVIOUS
<1> HIDE DEF m
<1>b. KeysIn(c) \ {k} = KeysIn(S[m]) \ {k} /\ \A j : j # k => Find(c, j) = Find(S[m], j)
  BY <1>0 DEF Alike
<1>3. \A s \in 0..n-1 : Distinct(T[s]) /\ \A j \in KeysIn(T[s]) : Slot(j, n) = s
  BY <1>0, <1>b, <1>1, <1>2 DEF Table
<1>4. \A s \in 0..n-1 : KeysIn(T[s]) \ {k} = KeysIn(S[s]) \ {k}
  BY <1>b, <1>1, <1>2
<1>5. AllKeys(T, n) \ {k} = AllKeys(S, n) \ {k}
  <2>1. \A s \in 0..n-1 : \A j : j # k => (j \in KeysIn(T[s]) <=> j \in KeysIn(S[s]))
    BY <1>4
  <2>2. \A j : j # k => (j \in AllKeys(T, n) <=> j \in AllKeys(S, n))
    BY <2>1 DEF AllKeys
  <2> QED
    BY <2>2
<1>6. (Has(T, n, k) <=> k \in KeysIn(c)) /\ Answer(T, n, k) = Find(c, k)
  BY <1>0, <1>1, <1>2 DEF Has, Answer
<1>7. \A j \in Keys \ {k} : Answer(T, n, j) = Answer(S, n, j)
  BY <1>0, <1>b, <1>1, <1>2 DEF Answer
<1> QED
  BY <1>0, <1>2, <1>3, <1>5, <1>6, <1>7 DEF Table

LEMMA StoreEntry ==
  ASSUME NEW n \in Nat \ {0}, NEW S, Table(S, n), IsFiniteSet(AllKeys(S, n)), NEW k \in Keys, NEW v \in Values
  PROVE  LET T == Store(S, n, k, v) IN
         /\ Table(T, n)
         /\ AllKeys(T, n) = AllKeys(S, n) \cup {k} /\ IsFiniteSet(AllKeys(T, n))
         /\ Cardinality(AllKeys(T, n)) =
               IF Has(S, n, k) THEN Cardinality(AllKeys(S, n)) ELSE Cardinality(AllKeys(S, n)) + 1
         /\ Answer(T, n, k) = v
         /\ \A j \in Keys \ {k} : Answer(T, n, j) = Answer(S, n, j)
         /\ \A j \in Keys : Has(S, n, j) => Has(T, n, j)
         /\ \A s \in 0..n-1 : \A j \in KeysIn(S[s]) : IndexOf(T[s], j) = IndexOf(S[s], j)
<1> DEFINE m == Slot(k, n)
           T == Store(S, n, k, v)
           c == S[m]
           e == [key |-> k, value |-> v]
           d == IF k \in KeysIn(c) THEN [c EXCEPT ![IndexOf(c, k)] = e] ELSE Append(c, e)
<1>1. m \in 0..n-1 /\ c \in Seq(Entry) /\ Distinct(c)
  BY SlotRange, TableAssumption DEF Table
<1>2. T = [S EXCEPT ![m] = d]
  BY <1>1 DEF Store, Table
<1>3. /\ d \in Seq(Entry) /\ Distinct(d) /\ KeysIn(d) = KeysIn(c) \cup {k}
      /\ \A j \in KeysIn(c) : IndexOf(d, j) = IndexOf(c, j)
      /\ Find(d, k) = v
      /\ \A j : j # k => Find(d, j) = Find(c, j)
  <2>0. e \in Entry /\ e.key = k /\ e.value = v
    BY DEF Entry
  <2> HIDE DEF c, e
  <2>1. CASE k \in KeysIn(c)
    <3> DEFINE x == [c EXCEPT ![IndexOf(c, e.key)] = e]
    <3>1. d = x
      BY <2>0, <2>1
    <3>2. /\ x \in Seq(Entry) /\ Distinct(x) /\ KeysIn(x) = KeysIn(c)
          /\ \A j \in KeysIn(c) : IndexOf(x, j) = IndexOf(c, j)
          /\ Find(x, e.key) = e.value
          /\ \A j : j # e.key => Find(x, j) = Find(c, j)
      BY <1>1, <2>0, <2>1, ReplaceEntry
    <3> HIDE DEF x, d
    <3> QED
      BY <2>0, <2>1, <3>1, <3>2
  <2>2. CASE k \notin KeysIn(c)
    <3> DEFINE x == Append(c, e)
    <3>1. d = x
      BY <2>2
    <3>2. /\ x \in Seq(Entry) /\ Distinct(x) /\ KeysIn(x) = KeysIn(c) \cup {e.key}
          /\ \A j \in KeysIn(c) : IndexOf(x, j) = IndexOf(c, j)
          /\ Find(x, e.key) = e.value
          /\ \A j : j # e.key => Find(x, j) = Find(c, j)
      BY <1>1, <2>0, <2>2, AppendEntry
    <3> HIDE DEF x, d
    <3> QED
      BY <2>0, <3>1, <3>2
  <2> QED
    BY <2>1, <2>2
<1>0. Slot(k, n) = m /\ S[Slot(k, n)] = c
  OBVIOUS
<1> HIDE DEF T, d, c, m
<1>a. T = Exchange(S, n, k, d)
  BY <1>0, <1>2 DEF Exchange
<1>4. /\ Table(T, n)
      /\ AllKeys(T, n) \ {k} = AllKeys(S, n) \ {k}
      /\ Has(T, n, k) <=> k \in KeysIn(d)
      /\ Answer(T, n, k) = Find(d, k)
      /\ \A j \in Keys \ {k} : Answer(T, n, j) = Answer(S, n, j)
      /\ \A s \in 0..n-1 : T[s] = IF s = Slot(k, n) THEN d ELSE S[s]
  <2>1. Alike(d, S[Slot(k, n)], k)
    BY <1>0, <1>3 DEF Alike
  <2> QED
    BY <1>a, <1>3, <2>1, ExchangeChain
<1>5. k \in AllKeys(T, n) /\ (k \in AllKeys(S, n) <=> Has(S, n, k))
  BY <1>3, <1>4, AllKeysThere
<1>6. AllKeys(T, n) = AllKeys(S, n) \cup {k}
  BY <1>4, <1>5
<1>7. /\ IsFiniteSet(AllKeys(T, n))
      /\ Cardinality(AllKeys(T, n)) =
            IF k \in AllKeys(S, n) THEN Cardinality(AllKeys(S, n)) ELSE Cardinality(AllKeys(S, n)) + 1
  BY <1>6, FS_AddElement
<1>8. \A s \in 0..n-1 : \A j \in KeysIn(S[s]) : IndexOf(T[s], j) = IndexOf(S[s], j)
  BY <1>0, <1>3, <1>4
<1>9. \A j \in Keys : Has(S, n, j) => Has(T, n, j)
  BY <1>4, <1>6, AllKeysThere
<1> QED
  BY <1>3, <1>4, <1>5, <1>6, <1>7, <1>8, <1>9 DEF T

LEMMA DeleteEntry ==
  ASSUME NEW n \in Nat \ {0}, NEW S, Table(S, n), IsFiniteSet(AllKeys(S, n)), NEW k \in Keys, Has(S, n, k)
  PROVE  LET m == Slot(k, n)
             T == [S EXCEPT ![m] = RemoveAt(S[m], IndexOf(S[m], k))] IN
         /\ Table(T, n)
         /\ AllKeys(T, n) = AllKeys(S, n) \ {k} /\ IsFiniteSet(AllKeys(T, n))
         /\ Cardinality(AllKeys(T, n)) = Cardinality(AllKeys(S, n)) - 1
         /\ Answer(T, n, k) = None
         /\ \A j \in Keys \ {k} : Answer(T, n, j) = Answer(S, n, j)
         /\ \A j \in Keys \ {k} : Has(S, n, j) => Has(T, n, j)
<1> DEFINE m == Slot(k, n)
           c == S[m]
           d == RemoveAt(c, IndexOf(c, k))
           T == [S EXCEPT ![m] = d]
<1>1. m \in 0..n-1 /\ c \in Seq(Entry) /\ Distinct(c) /\ k \in KeysIn(c)
  BY SlotRange, TableAssumption DEF Table, Has
<1>0. Slot(k, n) = m /\ S[Slot(k, n)] = c /\ T = Exchange(S, n, k, d)
  BY DEF Exchange
<1> HIDE DEF c, m
<1>2. /\ d \in Seq(Entry) /\ Distinct(d) /\ KeysIn(d) = KeysIn(c) \ {k}
      /\ Find(d, k) = None
      /\ \A j : j # k => Find(d, j) = Find(c, j)
  BY <1>1, RemoveEntry
<1> HIDE DEF d, T
<1>3. /\ Table(T, n)
      /\ AllKeys(T, n) \ {k} = AllKeys(S, n) \ {k}
      /\ Has(T, n, k) <=> k \in KeysIn(d)
      /\ Answer(T, n, k) = Find(d, k)
      /\ \A j \in Keys \ {k} : Answer(T, n, j) = Answer(S, n, j)
  <2>1. Alike(d, S[Slot(k, n)], k)
    BY <1>0, <1>2 DEF Alike
  <2> QED
    BY <1>0, <1>2, <2>1, ExchangeChain
<1>4. k \notin AllKeys(T, n) /\ k \in AllKeys(S, n)
  BY <1>2, <1>3, AllKeysThere
<1>5. AllKeys(T, n) = AllKeys(S, n) \ {k}
  BY <1>3, <1>4
<1>6. IsFiniteSet(AllKeys(T, n)) /\ Cardinality(AllKeys(T, n)) = Cardinality(AllKeys(S, n)) - 1
  BY <1>4, <1>5, FS_RemoveElement
<1>7. \A j \in Keys \ {k} : Has(S, n, j) => Has(T, n, j)
  BY <1>3, <1>5, AllKeysThere
<1> QED
  BY <1>2, <1>3, <1>5, <1>6, <1>7 DEF T, d, c, m

(* ht_dump: what it collects is a chain of all entries                     *)
LEMMA DumpIsChain ==
  ASSUME size \in Nat \ {0}, Table(slots, size), IsFiniteSet(AllKeys(slots, size))
  PROVE  /\ Dump \in Seq(Entry) /\ Distinct(Dump)
         /\ Len(Dump) = Cardinality(AllKeys(slots, size))
         /\ KeysIn(Dump) = AllKeys(slots, size)
         /\ \A k \in Keys : Find(Dump, k) = Answer(slots, size, k)
<1> DEFINE P == Places
           E(p) == slots[p[1]][p[2]]
           R == {r \in P \X P : Before(r[1], r[2])}
<1>1. \A p \in P : /\ p = <<p[1], p[2]>> /\ p[1] \in 0..size-1 /\ p[2] \in DOMAIN slots[p[1]]
                   /\ p[2] \in Nat
                   /\ E(p) \in Entry /\ E(p).key \in KeysIn(slots[p[1]])
  <2> SUFFICES ASSUME NEW s \in 0..size-1, NEW i \in DOMAIN slots[s]
               PROVE  i \in Nat /\ slots[s][i] \in Entry /\ slots[s][i].key \in KeysIn(slots[s])
    BY DEF Places
  <2>1. slots[s] \in Seq(Entry)
    BY DEF Table
  <2>2. DOMAIN slots[s] = 1..Len(slots[s]) /\ Len(slots[s]) \in Nat /\ slots[s][i] \in Entry
    BY <2>1, LenProperties
  <2> QED
    BY <2>2 DEF KeysIn
<1>2. \A s \in 0..size-1 : \A i \in DOMAIN slots[s] : <<s, i>> \in P
  BY DEF Places
<1> HIDE DEF P
<1>3. \A p, q \in P : E(p).key = E(q).key => p = q
  <2> SUFFICES ASSUME NEW p \in P, NEW q \in P, E(p).key = E(q).key
               PROVE  p = q
    OBVIOUS
  <2>1. p[1] = q[1]
    BY <1>1 DEF Table
  <2>2. p[2] = q[2]
    BY <1>1, <2>1 DEF Table, Distinct
  <2> QED
    BY <1>1, <2>1, <2>2
<1>4. \A k \in AllKeys(slots, size) : \E p \in P : E(p).key = k
  <2> SUFFICES ASSUME NEW s \in 0..size-1, NEW i \in DOMAIN slots[s]
               PROVE  \E p \in P : E(p).key = slots[s][i].key
    BY DEF AllKeys, KeysIn
  <2>1. <<s, i>> \in P /\ E(<<s, i>>) = slots[s][i]
    BY <1>2
  <2> QED
    BY <2>1
<1>5. \A p \in P : E(p).key \in AllKeys(slots, size)
  BY <1>1 DEF AllKeys
<1>6. IsFiniteSet(P) /\ Cardinality(P) = Cardinality(AllKeys(slots, size))
  <2> DEFINE K == AllKeys(slots, size)
             f == [p \in P |-> E(p).key]
  <2>1. f \in [P -> K] /\ \A p \in P : f[p] = E(p).key
    BY <1>5
  <2> HIDE DEF f, K
  <2>2. f \in Injection(P, K)
    BY <1>3, <2>1 DEF Injection, IsInjective
  <2>3. f \in Surjection(P, K)
    BY <1>4, <2>1 DEF Surjection, K
  <2>4. IsFiniteSet(K)
    BY DEF K
  <2>5. IsFiniteSet(P) /\ Cardinality(P) = Cardinality(K)
    BY <2>2, <2>3, <2>4, FS_Injection
  <2> QED
    BY <2>5 DEF K
<1>7. \A p, q \in P : <<p, q>> \in R <=> Before(p, q)
  OBVIOUS
<1> HIDE DEF R
<1>8. /\ \A p \in P : <<p, p>> \notin R
      /\ \A p, q, r \in P : <<p, q>> \in R /\ <<q, r>> \in R => <<p, r>> \in R
      /\ \A p, q \in P : p # q => <<p, q>> \in R \/ <<q, p>> \in R
  <2>1. \A p \in P : p[1] \in Int /\ p[2] \in Int
    BY <1>1
  <2>2. \A p \in P : ~Before(p, p)
    BY <2>1 DEF Before
  <2>3. \A p, q, r \in P : Before(p, q) /\ Before(q, r) => Before(p, r)
    BY <2>1 DEF Before
  <2>4. \A p, q \in P : p # q => Before(p, q) \/ Before(q, p)
    BY <1>1, <2>1 DEF Before
  <2> QED
    BY <1>7, <2>2, <2>3, <2>4
<1> DEFINE N == Cardinality(P)
           At(n) == CHOOSE p \in P : Cardinality({q \in P : Before(q, p)}) = n - 1
<1>9. /\ N \in Nat
      /\ \A p \in P : Rank(P, R, p) \in 0..N-1
      /\ \A p, q \in P : Rank(P, R, p) = Rank(P, R, q) => p = q
      /\ \A n \in 1..N : \E p \in P : Rank(P, R, p) = n - 1
  BY <1>6, <1>8, Numbering
<1>10. \A p \in P : Cardinality({q \in P : Before(q, p)}) = Rank(P, R, p)
  <2> SUFFICES ASSUME NEW p \in P
               PROVE  {q \in P : Before(q, p)} = Below(P, R, p)
    BY DEF Rank
  <2> QED
    BY <1>7 DEF Below
<1>11. \A n \in 1..N : At(n) \in P /\ Rank(P, R, At(n)) = n - 1
  <2> SUFFICES ASSUME NEW n \in 1..N
               PROVE  At(n) \in P /\ Rank(P, R, At(n)) = n - 1
    OBVIOUS
  <2>1. \E p \in P : Cardinality({q \in P : Before(q, p)}) = n - 1
    BY <1>9, <1>10
  <2>2. At(n) \in P /\ Cardinality({q \in P : Before(q, At(n))}) = n - 1
    BY <2>1
  <2> QED
    BY <1>10, <2>2
<1>12. Dump = [n \in 1..N |-> E(At(n))]
  BY DEF Dump, Collect, P
<1> HIDE DEF At, N
<1>13. Dump \in Seq(Entry) /\ DOMAIN Dump = 1..N /\ Len(Dump) = N
  <2>1. \A n \in 1..N : E(At(n)) \in Entry
    BY <1>1, <1>11
  <2>2. [n \in 1..N |-> E(At(n))] \in [1..N -> Entry]
    BY <2>1
  <2>3. Dump \in Seq(Entry)
    BY <1>9, <1>12, <2>2, SeqDef
  <2>4. DOMAIN Dump = 1..N
    BY <1>12
  <2> QED
    BY <1>9, <2>3, <2>4, LenProperties
<1>14. \A n \in 1..N : Dump[n] = E(At(n))
  BY <1>12
<1>15. Distinct(Dump)
  <2> SUFFICES ASSUME NEW i \in 1..N, NEW j \in 1..N, E(At(i)).key = E(At(j)).key
               PROVE  i = j
    BY <1>13, <1>14 DEF Distinct
  <2>1. At(i) = At(j)
    BY <1>3, <1>11
  <2>2. i - 1 = j - 1
    BY <1>11, <2>1
  <2> QED
    BY <1>9, <2>2
<1>16. \A p \in P : \E n \in DOMAIN Dump : Dump[n] = E(p)
  <2> SUFFICES ASSUME NEW p \in P
               PROVE  \E n \in 1..N : Dump[n] = E(p)
    BY <1>13
  <2>1. Rank(P, R, p) + 1 \in 1..N /\ Rank(P, R, p) + 1 - 1 = Rank(P, R, p)
    BY <1>9
  <2>2. At(Rank(P, R, p) + 1) = p
    BY <1>9, <1>11, <2>1
  <2> QED
    BY <1>14, <2>1, <2>2
<1>17. KeysIn(Dump) = AllKeys(slots, size)
  <2>1. \A n \in DOMAIN Dump : Dump[n].key \in AllKeys(slots, size)
    BY <1>5, <1>11, <1>13, <1>14
  <2>2. \A k \in AllKeys(slots, size) : \E n \in DOMAIN Dump : Dump[n].key = k
    BY <1>4, <1>16
  <2> QED
    BY <2>1, <2>2 DEF KeysIn
<1>18. ASSUME NEW k \in Keys
       PROVE  Find(Dump, k) = Answer(slots, size, k)
  <2>1. CASE k \in AllKeys(slots, size)
    <3>1. PICK p \in P : E(p).key = k
      BY <1>4, <2>1
    <3>2. PICK n \in DOMAIN Dump : Dump[n] = E(p)
      BY <1>16
    <3>3. Find(Dump, k) = E(p).value
      BY <1>13, <1>15, <3>1, <3>2, Lookup
    <3>4. Slot(k, size) = p[1] /\ slots[p[1]] \in Seq(Entry) /\ Distinct(slots[p[1]])
      BY <1>1, <3>1 DEF Table
    <3>5. Find(slots[p[1]], slots[p[1]][p[2]].key) = slots[p[1]][p[2]].value
      BY <1>1, <3>4, Lookup
    <3> QED
      BY <3>1, <3>3, <3>4, <3>5 DEF Answer
  <2>2. CASE k \notin AllKeys(slots, size)
    BY <1>17, <2>2, AllKeysThere DEF Answer, Has, Find
  <2> QED
    BY <2>1, <2>2
<1> QED
  BY <1>6, <1>13, <1>15, <1>17, <1>18 DEF N
-----------------------------------------------------------------------------
(* The invariant                                                           *)

Types ==
  /\ size \in Nat \ {0} /\ current \in Nat /\ was \in Nat \ {0}
  /\ phase \in Intact \cup {"freed", "moving"}
  /\ old \in Seq(Entry) /\ Distinct(old)
  /\ read \in [Stray -> ReadStates]

Whole ==
  phase # "freed" =>
    /\ Table(slots, size)
    /\ IsFiniteSet(AllKeys(slots, size)) /\ current = Cardinality(AllKeys(slots, size))

(* How full the array is.  What is still to be moved is not in it yet, and *)
(* there is room.                                                          *)
Room ==
  /\ phase = "whole" => current <= size
  /\ phase = "full" => current = size + 1
  /\ phase = "sparse" => TableSize < current /\ current < size \div 4
  /\ phase = "freed" => Len(old) <= size
  /\ phase = "moving" =>
       current + Len(old) <= size /\ KeysIn(old) \cap AllKeys(slots, size) = {}
  /\ phase \in Intact => old = <<>>

(* A reader x of the table S with n slots that is in the phase ph, and o   *)
(* is still to be moved: the entry that he stands on is there ...          *)
Stands(x, S, n, ph, o) ==
  x.step = "on" =>
    /\ x.place = "table" => ph # "freed" /\ Has(S, n, x.at)
    /\ x.place = "old" => x.at \in KeysIn(o)

(* ... and if nothing was deleted or moved since he began, he is in the    *)
(* slot of his key, and has not passed it if it was there.                 *)
Ahead(x, S, n) ==
  LET s == Slot(x.key, n) IN
  Slot(x.at, n) = s /\ IndexOf(S[s], x.at) <= IndexOf(S[s], x.key)

Calm(x, S, n, ph) ==
  x.step # "idle" /\ x.calm = TRUE =>
    /\ x.step \in {"hashed", "on"} => ph \in Intact /\ (x.had = TRUE => Has(S, n, x.key))
    /\ x.step = "hashed" => x.slot = Slot(x.key, n)
    /\ x.step = "on" => x.place = "table" /\ (x.had = TRUE => Ahead(x, S, n))
    /\ x.step = "done" => x.outcome # "garbage" /\ (x.had = TRUE => x.outcome = "found")

Readers ==
  \A r \in Stray :
    Stands(read[r], slots, size, phase, old) /\ Calm(read[r], slots, size, phase)

HInv == Types /\ Whole /\ Room /\ Readers

LEMMA ReadTypes ==
  ASSUME NEW x \in ReadStates
  PROVE  /\ x.step \in {"idle", "hashed", "on", "done"}
         /\ x.step = "hashed" => x.key \in Keys /\ x.slot \in Nat
         /\ x.step = "on" => x.key \in Keys /\ x.at \in Keys /\ x.place \in {"table", "old", "dangling"}
         /\ x.step # "idle" => x.calm \in BOOLEAN /\ x.had \in BOOLEAN
BY DEF ReadStates, Nowhere

LEMMA Uncalm ==
  ASSUME NEW x \in ReadStates, x.step \in {"hashed", "on"}
  PROVE  LET y == [x EXCEPT !.calm = FALSE] IN
         /\ y \in ReadStates /\ y.step = x.step /\ y.calm = FALSE
         /\ x.step = "on" => y.at = x.at /\ y.place = x.place
<1>1. CASE x.step = "hashed"
  <2>1. x \in [step : {"hashed"}, key : Keys, slot : Nat, calm : BOOLEAN, had : BOOLEAN]
    BY <1>1 DEF ReadStates, Nowhere
  <2> QED
    BY <1>1, <2>1 DEF ReadStates
<1>2. CASE x.step = "on"
  <2>1. x \in [step : {"on"}, key : Keys, at : Keys, place : {"table", "old", "dangling"},
                calm : BOOLEAN, had : BOOLEAN]
    BY <1>2 DEF ReadStates, Nowhere
  <2> QED
    BY <1>2, <2>1 DEF ReadStates
<1> QED
  BY <1>1, <1>2

LEMMA PutElsewhere ==
  ASSUME NEW x \in ReadStates, x.step = "on", NEW p \in {"table", "old", "dangling"}
  PROVE  LET y == [x EXCEPT !.place = p] IN
         /\ y \in ReadStates /\ y.step = "on" /\ y.place = p
         /\ y.at = x.at /\ y.calm = x.calm /\ y.had = x.had /\ y.key = x.key
<1>1. x \in [step : {"on"}, key : Keys, at : Keys, place : {"table", "old", "dangling"},
              calm : BOOLEAN, had : BOOLEAN]
  BY DEF ReadStates, Nowhere
<1> QED
  BY <1>1 DEF ReadStates

(* entries were added, if any                                              *)
Grown(S, n, ph, T, m, qh) ==
  /\ ph \in Intact => qh \in Intact
  /\ ph # "freed" =>
       /\ qh # "freed" /\ m = n
       /\ \A j \in Keys : Has(S, n, j) => Has(T, n, j)
       /\ \A s \in 0..n-1 : \A j \in KeysIn(S[s]) : IndexOf(T[s], j) = IndexOf(S[s], j)

(* a reader whom nothing disturbs, while entries may be added to the table *)
LEMMA Undisturbed ==
  ASSUME NEW x \in ReadStates, NEW n \in Nat \ {0}, NEW S, NEW ph, NEW o, NEW T, NEW m, NEW qh, NEW p,
         Stands(x, S, n, ph, o), Calm(x, S, n, ph),
         KeysIn(o) \subseteq KeysIn(p), Grown(S, n, ph, T, m, qh)
  PROVE  Stands(x, T, m, qh, p) /\ Calm(x, T, m, qh)
<1>1. Stands(x, T, m, qh, p)
  BY ReadTypes DEF Stands, Grown
<1>2. ph \in Intact => ph # "freed"
  BY DEF Intact
<1>3. CASE x.step = "on" /\ x.calm = TRUE /\ x.had = TRUE
  <2> DEFINE s == Slot(x.key, n)
  <2>1. /\ ph \in Intact /\ x.place = "table"
        /\ Has(S, n, x.key) /\ Has(S, n, x.at) /\ Slot(x.at, n) = s
        /\ IndexOf(S[s], x.at) <= IndexOf(S[s], x.key)
    BY <1>2, <1>3 DEF Calm, Stands, Ahead
  <2>2. x.key \in KeysIn(S[s]) /\ x.at \in KeysIn(S[s]) /\ s \in 0..n-1
    BY <1>3, <2>1, ReadTypes, SlotRange, TableAssumption DEF Has
  <2>3. m = n /\ IndexOf(T[s], x.at) <= IndexOf(T[s], x.key)
    <3> HIDE DEF s
    <3> QED
      BY <1>2, <2>1, <2>2 DEF Grown
  <2>4. Ahead(x, T, m)
    BY <2>1, <2>3 DEF Ahead
  <2>5. Has(T, m, x.key)
    BY <1>2, <1>3, <2>1, ReadTypes DEF Grown
  <2> QED
    BY <1>1, <1>2, <1>3, <2>1, <2>4, <2>5 DEF Calm, Grown
<1>4. CASE ~(x.step = "on" /\ x.calm = TRUE /\ x.had = TRUE)
  BY <1>1, <1>2, <1>4, ReadTypes DEF Calm, Grown
<1> QED
  BY <1>3, <1>4

LEMMA ReadersKept ==
  ASSUME Types, Readers, read' = read, KeysIn(old) \subseteq KeysIn(old'),
         Grown(slots, size, phase, slots', size', phase')
  PROVE  Readers'
<1> SUFFICES ASSUME NEW r \in Stray
             PROVE  Stands(read[r], slots', size', phase', old') /\ Calm(read[r], slots', size', phase')
  BY DEF Readers
<1>1. read[r] \in ReadStates /\ size \in Nat \ {0}
  BY DEF Types
<1>2. Stands(read[r], slots, size, phase, old) /\ Calm(read[r], slots, size, phase)
  BY DEF Readers
<1> QED
  BY <1>1, <1>2, Undisturbed

-----------------------------------------------------------------------------
(* The steps                                                               *)

LEMMA HInvInit == ASSUME Init PROVE HInv
<1>1. Table(slots, size) /\ IsFiniteSet(AllKeys(slots, size)) /\ Cardinality(AllKeys(slots, size)) = 0
  BY EmptyTables, TableAssumption DEF Init
<1>2. Types
  BY TableAssumption DEF Init, Types, Intact, Distinct, ReadStates
<1>3. Readers
  BY DEF Init, Readers, Stands, Calm, Nowhere
<1> QED
  BY <1>1, <1>2, <1>3, TableAssumption DEF Init, HInv, Whole, Room

LEMMA SetStep ==
  ASSUME HInv, NEW k \in Keys, NEW v \in ValuesOf[k], Set(k, v)
  PROVE  HInv'
<1>1. phase = "whole" /\ size \in Nat \ {0} /\ Table(slots, size) /\ IsFiniteSet(AllKeys(slots, size))
      /\ current = Cardinality(AllKeys(slots, size)) /\ current \in Nat /\ current <= size
  BY DEF Set, HInv, Types, Whole, Room
<1>2. v \in Values
  BY DEF Values
<1>3. /\ slots' = Store(slots, size, k, v) /\ size' = size /\ old' = old /\ was' = was /\ read' = read
      /\ current' = IF Has(slots, size, k) THEN current ELSE current + 1
      /\ phase' = IF ~Has(slots, size, k) /\ current' > size THEN "full" ELSE "whole"
  BY DEF Set, Present, Has
<1>4. /\ Table(slots', size) /\ IsFiniteSet(AllKeys(slots', size))
      /\ Cardinality(AllKeys(slots', size)) =
            IF Has(slots, size, k) THEN Cardinality(AllKeys(slots, size)) ELSE Cardinality(AllKeys(slots, size)) + 1
      /\ \A j \in Keys : Has(slots, size, j) => Has(slots', size, j)
      /\ \A s \in 0..size-1 : \A j \in KeysIn(slots[s]) : IndexOf(slots'[s], j) = IndexOf(slots[s], j)
  <2> DEFINE T == Store(slots, size, k, v)
  <2>1. /\ Table(T, size) /\ AllKeys(T, size) = AllKeys(slots, size) \cup {k} /\ IsFiniteSet(AllKeys(T, size))
        /\ Cardinality(AllKeys(T, size)) =
              IF Has(slots, size, k) THEN Cardinality(AllKeys(slots, size)) ELSE Cardinality(AllKeys(slots, size)) + 1
        /\ \A j \in Keys : Has(slots, size, j) => Has(T, size, j)
        /\ \A s \in 0..size-1 : \A j \in KeysIn(slots[s]) : IndexOf(T[s], j) = IndexOf(slots[s], j)
    <3>1. Table(T, size)
      BY <1>1, <1>2, StoreEntry
    <3>2. AllKeys(T, size) = AllKeys(slots, size) \cup {k} /\ IsFiniteSet(AllKeys(T, size))
      BY <1>1, <1>2, StoreEntry
    <3>3. \A j \in Keys : Has(slots, size, j) => Has(T, size, j)
      BY <1>1, <1>2, StoreEntry
    <3>4. \A s \in 0..size-1 : \A j \in KeysIn(slots[s]) : IndexOf(T[s], j) = IndexOf(slots[s], j)
      BY <1>1, <1>2, StoreEntry
    <3>5. Cardinality(AllKeys(T, size)) =
              IF Has(slots, size, k) THEN Cardinality(AllKeys(slots, size)) ELSE Cardinality(AllKeys(slots, size)) + 1
      BY <1>1, <1>2, StoreEntry
    <3> QED
      BY <3>1, <3>2, <3>3, <3>4, <3>5
  <2> HIDE DEF T
  <2>2. slots' = T
    BY <1>3 DEF T
  <2> QED
    BY <2>1, <2>2
<1>5. Types'
  BY <1>1, <1>3 DEF HInv, Types, Intact
<1>6. Whole'
  BY <1>1, <1>3, <1>4 DEF Whole
<1>7. Room'
  BY <1>1, <1>3 DEF HInv, Room, Intact
<1>8. Readers'
  <2>1. Grown(slots, size, phase, slots', size', phase')
    BY <1>1, <1>3, <1>4 DEF Grown, Intact
  <2> QED
    BY <1>3, <2>1, ReadersKept DEF HInv
<1> QED
  BY <1>5, <1>6, <1>7, <1>8 DEF HInv

(* what Disturb leaves of a reader                                         *)
LEMMA Disturbed ==
  ASSUME NEW R, NEW r \in Stray, R[r] \in ReadStates,
         NEW S, NEW n, NEW ph, NEW o, Stands(R[r], S, n, ph, o),
         R[r].step \in {"idle", "done"} => Calm(R[r], S, n, ph)
  PROVE  LET y == Disturb(R)[r] IN
         y \in ReadStates /\ Stands(y, S, n, ph, o) /\ Calm(y, S, n, ph)
<1> DEFINE x == R[r]
           y == Disturb(R)[r]
<1>1. y = IF x.step \in {"hashed", "on"} THEN [x EXCEPT !.calm = FALSE] ELSE x
  BY DEF Disturb
<1>2. CASE x.step \in {"hashed", "on"}
  <2>1. y \in ReadStates /\ y.step = x.step /\ y.calm = FALSE /\ (x.step = "on" => y.at = x.at /\ y.place = x.place)
    <3> HIDE DEF x, y
    <3>1. x \in ReadStates
      BY DEF x
    <3> QED
      BY <1>1, <1>2, <3>1, Uncalm
  <2>2. Stands(x, S, n, ph, o)
    OBVIOUS
  <2>3. x.step # "idle" /\ x.step # "done"
    BY <1>2
  <2> HIDE DEF x, y
  <2>4. Stands(y, S, n, ph, o)
    BY <2>1, <2>2 DEF Stands
  <2>5. Calm(y, S, n, ph)
    BY <2>1 DEF Calm
  <2> QED
    BY <2>1, <2>4, <2>5 DEF y
<1>3. CASE x.step \in {"idle", "done"}
  <2>1. y = x
    BY <1>1, <1>3
  <2>2. x \in ReadStates /\ Stands(x, S, n, ph, o) /\ Calm(x, S, n, ph)
    BY <1>3
  <2> HIDE DEF x, y
  <2>3. y \in ReadStates /\ Stands(y, S, n, ph, o) /\ Calm(y, S, n, ph)
    BY <2>1, <2>2
  <2> QED
    BY <2>3 DEF y
<1>4. x.step \in {"idle", "hashed", "on", "done"}
  BY ReadTypes
<1> QED
  BY <1>2, <1>3, <1>4

LEMMA DeleteStep ==
  ASSUME HInv, NEW k \in Keys, Delete(k)
  PROVE  HInv'
<1>1. phase = "whole" /\ size \in Nat \ {0} /\ Table(slots, size) /\ IsFiniteSet(AllKeys(slots, size))
      /\ current = Cardinality(AllKeys(slots, size)) /\ current \in Nat /\ current <= size
      /\ Has(slots, size, k)
  BY DEF Delete, HInv, Types, Whole, Room, Present, Has
<1>2. LET m == Slot(k, size) IN slots' = [slots EXCEPT ![m] = RemoveAt(slots[m], IndexOf(slots[m], k))]
  BY DEF Delete
<1>3. /\ size' = size /\ old' = old /\ was' = was /\ current' = current - 1
      /\ phase' = IF current' > TableSize /\ current' < size \div 4 THEN "sparse" ELSE "whole"
      /\ read' = Disturb(FreeEntry("table", k))
  BY DEF Delete
<1>4. /\ Table(slots', size) /\ IsFiniteSet(AllKeys(slots', size))
      /\ AllKeys(slots', size) = AllKeys(slots, size) \ {k}
      /\ Cardinality(AllKeys(slots', size)) = Cardinality(AllKeys(slots, size)) - 1
      /\ \A j \in Keys \ {k} : Has(slots, size, j) => Has(slots', size, j)
  BY <1>1, <1>2, DeleteEntry
<1>5. current' \in Nat
  BY <1>1, <1>3, <1>4, FS_CardinalityType
<1>6. ASSUME NEW r \in Stray
      PROVE  /\ read'[r] \in ReadStates
             /\ Stands(read'[r], slots', size', phase', old') /\ Calm(read'[r], slots', size', phase')
  <2> DEFINE x == read[r]
             R == FreeEntry("table", k)
  <2>1. x \in ReadStates /\ Stands(x, slots, size, phase, old) /\ Calm(x, slots, size, phase)
    BY DEF HInv, Types, Readers
  <2>2. R[r] = IF x.step = "on" /\ x.place = "table" /\ x.at = k THEN [x EXCEPT !.place = "dangling"] ELSE x
    BY DEF FreeEntry, Walks
  <2> HIDE DEF R, x
  <2>3. phase' # "freed"
    BY <1>3
  <2>4. R[r] \in ReadStates /\ Stands(R[r], slots', size', phase', old')
    <3>1. CASE x.step = "on" /\ x.place = "table" /\ x.at = k
      <4>1. /\ R[r] \in ReadStates /\ R[r].step = "on" /\ R[r].place = "dangling"
        <5>1. "dangling" \in {"table", "old", "dangling"} /\ R[r] = [x EXCEPT !.place = "dangling"]
          BY <2>2, <3>1
        <5> QED
          <6>1. LET y == [x EXCEPT !.place = "dangling"] IN y \in ReadStates /\ y.step = "on" /\ y.place = "dangling"
            BY <2>1, <3>1, <5>1, PutElsewhere
          <6> QED
            BY <5>1, <6>1
      <4> QED
        BY <4>1 DEF Stands
    <3>2. CASE ~(x.step = "on" /\ x.place = "table" /\ x.at = k)
      BY <1>3, <1>4, <2>1, <2>2, <2>3, <3>2, ReadTypes DEF Stands
    <3> QED
      BY <3>1, <3>2
  <2>5. R[r].step \in {"idle", "done"} => Calm(R[r], slots', size', phase')
    <3>1. CASE x.step = "on" /\ x.place = "table" /\ x.at = k
      BY <2>1, <2>2, <3>1, PutElsewhere
    <3>2. CASE ~(x.step = "on" /\ x.place = "table" /\ x.at = k)
      BY <2>1, <2>2, <3>2 DEF Calm
    <3> QED
      BY <3>1, <3>2
  <2>6. LET y == Disturb(R)[r] IN
        y \in ReadStates /\ Stands(y, slots', size', phase', old') /\ Calm(y, slots', size', phase')
    BY <2>4, <2>5, Disturbed
  <2> QED
    BY <1>3, <2>6 DEF R
<1>7. read' \in [Stray -> ReadStates]
  BY <1>3, <1>6 DEF Disturb
<1>8. Types'
  BY <1>1, <1>3, <1>5, <1>7 DEF HInv, Types, Intact
<1>9. Whole' /\ Readers'
  BY <1>1, <1>3, <1>4, <1>6 DEF Whole, Readers
<1>10. Room'
  BY <1>1, <1>3, <1>4 DEF HInv, Room, Intact
<1> QED
  BY <1>8, <1>9, <1>10 DEF HInv

LEMMA DismantleStep ==
  ASSUME HInv, Dismantle
  PROVE  HInv'
<1>1. phase \in {"full", "sparse"} /\ size \in Nat \ {0} /\ Table(slots, size) /\ IsFiniteSet(AllKeys(slots, size))
      /\ current = Cardinality(AllKeys(slots, size)) /\ current \in Nat
      /\ (phase = "full" => current = size + 1)
      /\ (phase = "sparse" => TableSize < current /\ current < size \div 4)
      /\ old = <<>>
  BY DEF Dismantle, HInv, Types, Whole, Room, Intact
<1>2. /\ old' = Dump /\ was' = size /\ phase' = "freed" /\ current' = current
      /\ size' = IF phase = "full" THEN 2 * size ELSE size \div 2
      /\ read' = Disturb(LeaveBehind(read))
  BY DEF Dismantle
<1>3. /\ old' \in Seq(Entry) /\ Distinct(old') /\ Len(old') = current
      /\ KeysIn(old') = AllKeys(slots, size)
  BY <1>1, <1>2, DumpIsChain
<1>4. size' \in Nat \ {0} /\ current <= size'
  <2>1. CASE phase = "full"
    BY <1>1, <1>2, <2>1
  <2>2. CASE phase = "sparse"
    <3>1. size' = size \div 2 /\ current < size \div 4 /\ TableSize < current
      BY <1>1, <1>2, <2>2
    <3>2. size \div 4 <= size \div 2 /\ size \div 4 \in Nat /\ size \div 2 \in Nat
      BY <1>1
    <3> QED
      BY <1>1, <3>1, <3>2, TableAssumption
  <2> QED
    BY <1>1, <2>1, <2>2
<1>5. ASSUME NEW r \in Stray
      PROVE  /\ read'[r] \in ReadStates
             /\ Stands(read'[r], slots', size', phase', old') /\ Calm(read'[r], slots', size', phase')
  <2> DEFINE x == read[r]
             R == LeaveBehind(read)
  <2>1. x \in ReadStates /\ Stands(x, slots, size, phase, old) /\ Calm(x, slots, size, phase)
    BY DEF HInv, Types, Readers
  <2>2. R[r] = IF x.step = "on" /\ x.place = "table" THEN [x EXCEPT !.place = "old"] ELSE x
    BY DEF LeaveBehind
  <2> HIDE DEF R, x
  <2>3. KeysIn(old) \subseteq KeysIn(old') \/ x.place # "old" \/ x.step # "on"
    BY <1>1 DEF KeysIn
  <2>4. /\ R[r] \in ReadStates /\ Stands(R[r], slots', size', phase', old')
        /\ R[r].step \in {"idle", "done"} => Calm(R[r], slots', size', phase')
    <3>1. CASE x.step = "on" /\ x.place = "table"
      <4>1. "old" \in {"table", "old", "dangling"} /\ R[r] = [x EXCEPT !.place = "old"]
        BY <2>2, <3>1
      <4>2. LET y == [x EXCEPT !.place = "old"] IN
            y \in ReadStates /\ y.step = "on" /\ y.place = "old" /\ y.at = x.at
        BY <2>1, <3>1, <4>1, PutElsewhere
      <4>3. x.at \in Keys /\ Has(slots, size, x.at)
        BY <2>1, <3>1, ReadTypes DEF Stands
      <4>4. x.at \in KeysIn(old')
        BY <1>1, <1>3, <4>3, AllKeysThere
      <4> QED
        BY <4>1, <4>2, <4>4 DEF Stands
    <3>2. CASE ~(x.step = "on" /\ x.place = "table")
      BY <2>1, <2>2, <2>3, <3>2 DEF Stands, Calm
    <3> QED
      BY <3>1, <3>2
  <2>5. LET y == Disturb(R)[r] IN
        y \in ReadStates /\ Stands(y, slots', size', phase', old') /\ Calm(y, slots', size', phase')
    BY <2>4, Disturbed
  <2> QED
    BY <1>2, <2>5 DEF R
<1>6. read' \in [Stray -> ReadStates]
  BY <1>2, <1>5 DEF Disturb
<1>7. Types' /\ Whole' /\ Readers'
  BY <1>1, <1>2, <1>3, <1>4, <1>5, <1>6 DEF HInv, Types, Whole, Readers
<1>8. Room'
  BY <1>2, <1>3, <1>4 DEF Room, Intact
<1> QED
  BY <1>7, <1>8 DEF HInv

LEMMA RebuildStep ==
  ASSUME HInv, Rebuild
  PROVE  HInv'
<1>1. phase = "freed" /\ size \in Nat \ {0} /\ Len(old) <= size /\ old \in Seq(Entry)
  BY DEF Rebuild, HInv, Types, Room
<1>2. /\ size' = size /\ old' = old /\ was' = was /\ read' = read /\ phase' = "moving"
      /\ current' = 0 /\ slots' = EmptyTable(size)
  BY DEF Rebuild
<1>3. Table(slots', size) /\ IsFiniteSet(AllKeys(slots', size)) /\ Cardinality(AllKeys(slots', size)) = 0
  BY <1>1, <1>2, EmptyTables
<1>4. AllKeys(slots', size) = {}
  BY <1>3, FS_EmptySet
<1>5. Len(old) \in Nat
  BY <1>1, LenProperties
<1>6. Types' /\ Whole' /\ Room'
  BY <1>1, <1>2, <1>3, <1>4, <1>5 DEF HInv, Types, Whole, Room, Intact
<1>7. Grown(slots, size, phase, slots', size', phase')
  BY <1>1 DEF Grown, Intact
<1> QED
  BY <1>2, <1>6, <1>7, ReadersKept DEF HInv

LEMMA MoveStep ==
  ASSUME HInv, Move
  PROVE  HInv'
<1> DEFINE e == Head(old)
           k == e.key
<1>1. /\ phase = "moving" /\ size \in Nat \ {0} /\ Table(slots, size) /\ IsFiniteSet(AllKeys(slots, size))
      /\ current = Cardinality(AllKeys(slots, size)) /\ current \in Nat
      /\ old \in Seq(Entry) /\ Distinct(old) /\ old # <<>>
      /\ current + Len(old) <= size /\ KeysIn(old) \cap AllKeys(slots, size) = {}
  BY DEF Move, HInv, Types, Whole, Room
<1>2. /\ e \in Entry /\ k \in KeysIn(old) /\ old' \in Seq(Entry) /\ Distinct(old')
      /\ Len(old') = Len(old) - 1 /\ KeysIn(old') = KeysIn(old) \ {k} /\ Len(old') \in Nat /\ Len(old) \in Nat
  <2>1. old' = Tail(old)
    BY DEF Move
  <2> QED
    BY <1>1, <2>1, RemoveFirstEntry, LenProperties
<1>3. k \in Keys /\ e.value \in Values /\ ~Has(slots, size, k)
  BY <1>1, <1>2, AllKeysThere DEF Entry
<1>4. /\ slots' = Store(slots, size, k, e.value) /\ size' = size /\ was' = was
      /\ current' = current + 1
      /\ phase' = IF current' > size THEN "nested" ELSE "moving"
      /\ read' = FreeEntry("old", k)
  BY <1>3 DEF Move, Present, Has
<1> HIDE DEF e, k
<1>5. /\ Table(slots', size) /\ IsFiniteSet(AllKeys(slots', size)) /\ AllKeys(slots', size) = AllKeys(slots, size) \cup {k}
      /\ Cardinality(AllKeys(slots', size)) = current + 1
  <2> DEFINE v == e.value
             T == Store(slots, size, k, v)
  <2>0. v \in Values
    BY <1>3
  <2> HIDE DEF v
  <2>1. Table(T, size)
    BY <1>1, <1>3, <2>0, StoreEntry
  <2>2. AllKeys(T, size) = AllKeys(slots, size) \cup {k} /\ IsFiniteSet(AllKeys(T, size))
    BY <1>1, <1>3, <2>0, StoreEntry
  <2>3. Cardinality(AllKeys(T, size)) =
              IF Has(slots, size, k) THEN Cardinality(AllKeys(slots, size)) ELSE Cardinality(AllKeys(slots, size)) + 1
    BY <1>1, <1>3, <2>0, StoreEntry
  <2> HIDE DEF T
  <2>4. slots' = T
    BY <1>4 DEF T, v
  <2> QED
    BY <1>1, <1>3, <2>1, <2>2, <2>3, <2>4
<1>6. \A j \in Keys : Has(slots, size, j) => Has(slots', size, j)
  BY <1>1, <1>3, <1>5, AllKeysThere
<1>7. phase' = "moving"
  BY <1>1, <1>2, <1>4
<1>8. ASSUME NEW r \in Stray
      PROVE  /\ read'[r] \in ReadStates
             /\ Stands(read'[r], slots', size', phase', old') /\ Calm(read'[r], slots', size', phase')
  <2> DEFINE x == read[r]
  <2>1. x \in ReadStates /\ Stands(x, slots, size, phase, old) /\ Calm(x, slots, size, phase)
    BY DEF HInv, Types, Readers
  <2>2. read'[r] = IF x.step = "on" /\ x.place = "old" /\ x.at = k THEN [x EXCEPT !.place = "dangling"] ELSE x
    BY <1>4 DEF FreeEntry, Walks
  <2> HIDE DEF x
  <2>3. CASE x.step = "on" /\ x.place = "old" /\ x.at = k
    <3>1. "dangling" \in {"table", "old", "dangling"} /\ read'[r] = [x EXCEPT !.place = "dangling"]
      BY <2>2, <2>3
    <3>2. LET y == [x EXCEPT !.place = "dangling"] IN
          y \in ReadStates /\ y.step = "on" /\ y.place = "dangling" /\ y.calm = x.calm
      BY <2>1, <2>3, <3>1, PutElsewhere
    <3>3. x.calm # TRUE
      BY <2>1, <2>3 DEF Calm
    <3> QED
      BY <3>1, <3>2, <3>3 DEF Stands, Calm
  <2>4. CASE ~(x.step = "on" /\ x.place = "old" /\ x.at = k)
    <3>1. Stands(x, slots', size', phase', old')
      BY <1>2, <1>4, <1>6, <1>7, <2>1, <2>4, ReadTypes DEF Stands
    <3>2. phase \notin Intact
      BY <1>1 DEF Intact
    <3>3. Calm(x, slots', size', phase')
      BY <2>1, <3>2 DEF Calm
    <3> QED
      BY <2>1, <2>2, <2>4, <3>1, <3>3
  <2> QED
    BY <2>3, <2>4
<1>9. read' \in [Stray -> ReadStates]
  BY <1>4, <1>8 DEF FreeEntry
<1>10. Types' /\ Whole' /\ Readers'
  BY <1>1, <1>2, <1>4, <1>5, <1>7, <1>8, <1>9 DEF HInv, Types, Whole, Readers
<1>11. Room'
  BY <1>1, <1>2, <1>4, <1>5, <1>7 DEF Room, Intact
<1> QED
  BY <1>10, <1>11 DEF HInv

LEMMA UnlockStep ==
  ASSUME HInv, Unlock
  PROVE  HInv'
<1>1. /\ phase = "moving" /\ phase' = "whole" /\ old = <<>> /\ old' = old /\ was' = was /\ read' = read
      /\ size' = size /\ current' = current /\ slots' = slots
  BY DEF Unlock, table
<1>2. Types' /\ Whole' /\ Room'
  BY <1>1 DEF HInv, Types, Whole, Room, Intact
<1>3. Grown(slots, size, phase, slots', size', phase')
  BY <1>1 DEF Grown, Intact
<1> QED
  BY <1>1, <1>2, <1>3, ReadersKept DEF HInv

(* a stray reader goes from one state to the next, the table stays as it is *)
LEMMA ReaderStep ==
  ASSUME HInv, NEW r \in Stray, NEW y \in ReadStates, read' = [read EXCEPT ![r] = y],
         UNCHANGED <<table, phase, old, was>>,
         Stands(y, slots, size, phase, old), Calm(y, slots, size, phase)
  PROVE  HInv'
<1>1. /\ size' = size /\ current' = current /\ slots' = slots
      /\ phase' = phase /\ old' = old /\ was' = was
  BY DEF table
<1>2. read' \in [Stray -> ReadStates]
  BY DEF HInv, Types
<1>3. Types' /\ Whole' /\ Room'
  BY <1>1, <1>2 DEF HInv, Types, Whole, Room
<1>4. Readers'
  <2> SUFFICES ASSUME NEW q \in Stray
               PROVE  Stands(read'[q], slots, size, phase, old) /\ Calm(read'[q], slots, size, phase)
    BY <1>1 DEF Readers
  <2>1. read'[q] = IF q = r THEN y ELSE read[q]
    BY DEF HInv, Types
  <2>2. Stands(read[q], slots, size, phase, old) /\ Calm(read[q], slots, size, phase)
    BY DEF HInv, Readers
  <2> QED
    BY <2>1, <2>2
<1> QED
  BY <1>3, <1>4 DEF HInv

LEMMA BeginReadStep ==
  ASSUME HInv, NEW r \in Stray, BeginRead(r)
  PROVE  HInv'
<1> PICK k \in StrayKeys :
      read' = [read EXCEPT ![r] =
         [step |-> "hashed", key |-> k, slot |-> Slot(k, size),
          calm |-> phase \in Intact, had |-> phase \in Intact /\ Present(k)]]
  BY DEF BeginRead
<1> DEFINE y == [step |-> "hashed", key |-> k, slot |-> Slot(k, size),
                 calm |-> phase \in Intact, had |-> phase \in Intact /\ Present(k)]
<1>1. k \in Keys /\ Slot(k, size) \in Nat
  BY SlotRange, TableAssumption DEF HInv, Types
<1>2. y \in ReadStates
  BY <1>1 DEF ReadStates
<1>3. Stands(y, slots, size, phase, old)
  BY DEF Stands
<1>4. Calm(y, slots, size, phase)
  BY DEF Calm, Present, Has
<1>5. UNCHANGED <<table, phase, old, was>>
  BY DEF BeginRead
<1> HIDE DEF y
<1>6. read' = [read EXCEPT ![r] = y]
  BY DEF y
<1> QED
  BY <1>2, <1>3, <1>4, <1>5, <1>6, ReaderStep

(* The lookup is over: if it was calm, it may not have read garbage, nor   *)
(* have missed a key that was there.                                       *)
LEMMA FinishStep ==
  ASSUME HInv, NEW r \in Stray, NEW outcome \in {"found", "missing", "garbage"},
         read[r].step \in {"hashed", "on"},
         read' = [read EXCEPT ![r] = Finish(r, outcome)],
         UNCHANGED <<table, phase, old, was>>,
         read[r].calm = TRUE => outcome # "garbage" /\ (read[r].had = TRUE => outcome = "found")
  PROVE  HInv'
<1> DEFINE y == Finish(r, outcome)
<1>1. read[r] \in ReadStates
  BY DEF HInv, Types
<1>2. read[r].key \in Keys /\ read[r].calm \in BOOLEAN /\ read[r].had \in BOOLEAN
  BY <1>1, ReadTypes
<1>3. y \in ReadStates
  BY <1>2 DEF Finish, ReadStates
<1>4. y.step = "done" /\ y.outcome = outcome /\ y.calm = read[r].calm /\ y.had = read[r].had
  BY DEF Finish
<1> HIDE DEF y
<1>5. Stands(y, slots, size, phase, old) /\ Calm(y, slots, size, phase)
  BY <1>4 DEF Stands, Calm
<1>6. read' = [read EXCEPT ![r] = y]
  BY DEF y
<1> QED
  BY <1>3, <1>5, <1>6, ReaderStep

(* The lookup goes on at the entry of k.                                   *)
LEMMA StandStep ==
  ASSUME HInv, NEW r \in Stray, NEW where \in {"table", "old"}, NEW k \in Keys,
         read[r].step \in {"hashed", "on"},
         read' = [read EXCEPT ![r] = StandOn(r, where, k)],
         UNCHANGED <<table, phase, old, was>>,
         where = "table" => phase # "freed" /\ Has(slots, size, k),
         where = "old" => k \in KeysIn(old),
         read[r].calm = TRUE => where = "table",
         read[r].calm = TRUE /\ read[r].had = TRUE =>
           /\ Slot(k, size) = Slot(read[r].key, size)
           /\ IndexOf(slots[Slot(read[r].key, size)], k) <= IndexOf(slots[Slot(read[r].key, size)], read[r].key)
  PROVE  HInv'
<1> DEFINE x == read[r]
           y == StandOn(r, where, k)
<1>1. x \in ReadStates /\ Calm(x, slots, size, phase)
  BY DEF HInv, Types, Readers
<1>2. x.key \in Keys /\ x.calm \in BOOLEAN /\ x.had \in BOOLEAN
  BY <1>1, ReadTypes
<1>3. y \in ReadStates
  BY <1>2 DEF StandOn, ReadStates
<1>4. y.step = "on" /\ y.place = where /\ y.at = k /\ y.key = x.key /\ y.calm = x.calm /\ y.had = x.had
  BY DEF StandOn
<1>5. x.calm = TRUE => phase \in Intact /\ (x.had = TRUE => Has(slots, size, x.key))
  BY <1>1 DEF Calm
<1>6. x.calm = TRUE /\ x.had = TRUE =>
           /\ Slot(k, size) = Slot(x.key, size)
           /\ IndexOf(slots[Slot(x.key, size)], k) <= IndexOf(slots[Slot(x.key, size)], x.key)
  OBVIOUS
<1>7. (x.calm = TRUE => where = "table") /\ read' = [read EXCEPT ![r] = y]
  OBVIOUS
<1> HIDE DEF x, y
<1>8. Stands(y, slots, size, phase, old)
  BY <1>4 DEF Stands
<1>9. Calm(y, slots, size, phase)
  BY <1>4, <1>5, <1>6, <1>7 DEF Calm, Ahead
<1> QED
  BY <1>3, <1>7, <1>8, <1>9, ReaderStep

LEMMA ReadHeadStep ==
  ASSUME HInv, NEW r \in Stray, ReadHead(r)
  PROVE  HInv'
<1> DEFINE x == read[r]
           s == read[r].slot
<1>1. /\ x \in ReadStates /\ x.step = "hashed" /\ Calm(x, slots, size, phase)
      /\ x.key \in Keys /\ s \in Nat /\ size \in Nat \ {0}
  BY ReadTypes DEF HInv, Types, Readers, ReadHead
<1>2. UNCHANGED <<table, phase, old, was>>
  BY DEF ReadHead
<1>3. x.calm = TRUE => phase \in Intact /\ s = Slot(x.key, size) /\ (x.had = TRUE => Has(slots, size, x.key))
  BY <1>1 DEF Calm
<1>4. Slot(x.key, size) \in 0..size-1
  BY <1>1, SlotRange, TableAssumption
<1>5. CASE phase = "freed" \/ s >= size
  <2>1. read' = [read EXCEPT ![r] = Finish(r, "garbage")]
    BY <1>5 DEF ReadHead
  <2>2. x.calm # TRUE
    <3> SUFFICES ASSUME x.calm = TRUE PROVE FALSE
      OBVIOUS
    <3>1. phase \in Intact /\ s = Slot(x.key, size)
      BY <1>3
    <3>2. s \in 0..size-1 /\ phase # "freed"
      BY <1>4, <3>1 DEF Intact
    <3> HIDE DEF s
    <3> QED
      BY <1>1, <1>5, <3>2
  <2> QED
    BY <1>1, <1>2, <2>1, <2>2, FinishStep
<1>6. CASE ~(phase = "freed" \/ s >= size) /\ slots[s] = <<>>
  <2>1. read' = [read EXCEPT ![r] = Finish(r, "missing")]
    BY <1>6 DEF ReadHead
  <2>2. ~(x.calm = TRUE /\ x.had = TRUE)
    BY <1>3, <1>6 DEF Has, KeysIn
  <2> QED
    BY <1>1, <1>2, <2>1, <2>2, FinishStep
<1>7. CASE ~(phase = "freed" \/ s >= size) /\ slots[s] # <<>>
  <2> DEFINE c == slots[s]
             k == Head(c).key
  <2>1. read' = [read EXCEPT ![r] = StandOn(r, "table", k)]
    BY <1>7 DEF ReadHead
  <2>2. Table(slots, size) /\ s \in 0..size-1
    BY <1>1, <1>7 DEF HInv, Whole
  <2>3. c \in Seq(Entry) /\ Distinct(c) /\ c # <<>> /\ \A j \in KeysIn(c) : Slot(j, size) = s
    BY <1>7, <2>2 DEF Table
  <2>c. slots[s] = c
    OBVIOUS
  <2> HIDE DEF c
  <2>4. 1 \in DOMAIN c /\ DOMAIN c = 1..Len(c) /\ c[1].key = k /\ Len(c) \in Nat
    BY <2>3, HeadTailProperties, LenProperties, EmptySeq
  <2>5. k \in KeysIn(c) /\ IndexOf(c, k) = 1
    BY <2>3, <2>4, Lookup
  <2> HIDE DEF k
  <2>6. k \in Keys /\ Slot(k, size) = s /\ Has(slots, size, k)
    BY <2>c, <2>3, <2>5, KeysAreKeys DEF Has
  <2>7. x.calm = TRUE /\ x.had = TRUE =>
           /\ Slot(k, size) = Slot(x.key, size)
           /\ IndexOf(slots[Slot(x.key, size)], k) <= IndexOf(slots[Slot(x.key, size)], x.key)
    <3> SUFFICES ASSUME x.calm = TRUE, x.had = TRUE
                 PROVE  s = Slot(x.key, size) /\ IndexOf(c, k) <= IndexOf(c, x.key)
      BY <1>3, <2>c, <2>6
    <3>1. s = Slot(x.key, size) /\ x.key \in KeysIn(c)
      BY <1>3, <2>c DEF Has
    <3>2. IndexOf(c, x.key) \in 1..Len(c)
      BY <2>3, <2>4, <3>1, Indexed
    <3> QED
      BY <2>4, <2>5, <3>1, <3>2
  <2>8. phase # "freed"
    BY <1>7
  <2> QED
    BY <1>1, <1>2, <2>1, <2>6, <2>7, <2>8, StandStep
<1> QED
  BY <1>5, <1>6, <1>7

LEMMA ReadEntryStep ==
  ASSUME HInv, NEW r \in Stray, ReadEntry(r)
  PROVE  HInv'
<1> DEFINE x == read[r]
           k == x.at
           chain == IF x.place = "table" THEN slots[Slot(k, size)] ELSE old
           rest == Rest(chain, k, IF x.place = "table" THEN size ELSE was)
<1>1. /\ x \in ReadStates /\ x.step = "on" /\ Stands(x, slots, size, phase, old) /\ Calm(x, slots, size, phase)
      /\ x.key \in Keys /\ k \in Keys /\ x.place \in {"table", "old", "dangling"}
      /\ size \in Nat \ {0}
  BY ReadTypes DEF HInv, Types, Readers, ReadEntry, Walks
<1>2. UNCHANGED <<table, phase, old, was>>
  BY DEF ReadEntry
<1>3. read' = [read EXCEPT ![r] =
       IF x.place = "dangling" THEN Finish(r, "garbage")
       ELSE IF k = x.key THEN Finish(r, "found")
       ELSE IF rest = {} THEN Finish(r, "missing")
       ELSE StandOn(r, x.place, chain[Min(rest)].key)]
  BY DEF ReadEntry
<1>4. x.calm = TRUE =>
        /\ x.place = "table"
        /\ x.had = TRUE => /\ Has(slots, size, x.key) /\ Slot(k, size) = Slot(x.key, size)
                           /\ IndexOf(slots[Slot(x.key, size)], k) <= IndexOf(slots[Slot(x.key, size)], x.key)
  BY <1>1 DEF Calm, Ahead
<1>5. CASE x.place = "dangling"
  <2>1. read' = [read EXCEPT ![r] = Finish(r, "garbage")] /\ x.calm # TRUE
    BY <1>3, <1>4, <1>5
  <2> QED
    BY <1>1, <1>2, <2>1, FinishStep
<1>6. CASE x.place # "dangling" /\ k = x.key
  <2>1. read' = [read EXCEPT ![r] = Finish(r, "found")]
    BY <1>3, <1>6
  <2> QED
    BY <1>1, <1>2, <2>1, FinishStep
<1>7. CASE x.place # "dangling" /\ k # x.key
  <2>1. chain \in Seq(Entry) /\ Distinct(chain) /\ k \in KeysIn(chain)
    <3>1. CASE x.place = "table"
      <4>1. Table(slots, size) /\ Slot(k, size) \in 0..size-1 /\ k \in KeysIn(slots[Slot(k, size)])
        BY <1>1, <3>1, SlotRange, TableAssumption DEF Stands, HInv, Whole, Has
      <4> QED
        BY <3>1, <4>1 DEF Table
    <3>2. CASE x.place = "old"
      BY <1>1, <3>2 DEF Stands, HInv, Types
    <3> QED
      BY <1>1, <1>7, <3>1, <3>2
  <2>0. /\ x.place = "table" => chain = slots[Slot(k, size)] /\ rest = Rest(chain, k, size)
        /\ x.place # "table" => chain = old
        /\ \A j \in rest : j \in DOMAIN chain /\ IndexOf(chain, k) < j
    BY DEF Rest
  <2>2. rest \in SUBSET Nat /\ DOMAIN chain = 1..Len(chain) /\ Len(chain) \in Nat
    <3>1. DOMAIN chain = 1..Len(chain) /\ Len(chain) \in Nat
      BY <2>1, LenProperties
    <3> QED
      BY <2>0, <3>1
  <2>r. read' = [read EXCEPT ![r] = IF rest = {} THEN Finish(r, "missing") ELSE StandOn(r, x.place, chain[Min(rest)].key)]
    BY <1>3, <1>7
  <2> HIDE DEF x, k, chain, rest
  <2>3. x.calm = TRUE /\ x.had = TRUE => x.place = "table" /\ x.key \in KeysIn(chain) /\ IndexOf(chain, x.key) \in rest
    <3> SUFFICES ASSUME x.calm = TRUE, x.had = TRUE
                 PROVE  x.place = "table" /\ x.key \in KeysIn(chain) /\ IndexOf(chain, x.key) \in rest
      OBVIOUS
    <3>1. x.place = "table" /\ Slot(k, size) = Slot(x.key, size) /\ x.key \in KeysIn(chain)
          /\ IndexOf(chain, k) <= IndexOf(chain, x.key) /\ rest = Rest(chain, k, size)
      BY <1>4, <2>0 DEF Has
    <3>2. /\ IndexOf(chain, k) \in DOMAIN chain /\ chain[IndexOf(chain, k)].key = k
          /\ IndexOf(chain, x.key) \in DOMAIN chain /\ chain[IndexOf(chain, x.key)].key = x.key
      BY <2>1, <3>1, Indexed
    <3>3. IndexOf(chain, k) < IndexOf(chain, x.key)
      BY <1>7, <2>2, <3>1, <3>2
    <3> QED
      BY <3>1, <3>2, <3>3 DEF Rest
  <2>4. CASE rest = {}
    <3>1. read' = [read EXCEPT ![r] = Finish(r, "missing")] /\ ~(x.calm = TRUE /\ x.had = TRUE)
      BY <2>3, <2>4, <2>r
    <3> QED
      BY <1>1, <1>2, <3>1, FinishStep DEF x
  <2>5. CASE rest # {}
    <3> DEFINE m == Min(rest)
               l == chain[m].key
    <3>1. m \in rest /\ \A j \in rest : m <= j
      BY <2>2, <2>5, Least
    <3>2. m \in DOMAIN chain
      BY <2>0, <3>1
    <3> HIDE DEF m
    <3>3. l \in KeysIn(chain) /\ IndexOf(chain, l) = m
      BY <2>1, <3>2, Lookup
    <3>4. read' = [read EXCEPT ![r] = StandOn(r, x.place, l)]
      BY <2>r, <2>5 DEF m
    <3>s. x.place = "table" => Slot(l, size) = Slot(k, size)
      BY <2>0, <3>1 DEF Rest
    <3> HIDE DEF l
    <3>5. l \in Keys
      BY <2>1, <3>3, KeysAreKeys
    <3>6. x.place = "table" => phase # "freed" /\ Has(slots, size, l)
      BY <1>1, <2>0, <3>3, <3>s DEF Stands, Has, x
    <3>7. x.place = "old" => l \in KeysIn(old)
      BY <2>0, <3>3
    <3>8. x.calm = TRUE /\ x.had = TRUE =>
           /\ Slot(l, size) = Slot(x.key, size)
           /\ IndexOf(slots[Slot(x.key, size)], l) <= IndexOf(slots[Slot(x.key, size)], x.key)
      BY <1>4, <2>0, <2>3, <3>1, <3>3, <3>s
    <3>9. x.place \in {"table", "old"} /\ x.step \in {"hashed", "on"} /\ (x.calm = TRUE => x.place = "table")
      BY <1>1, <1>4, <1>7 DEF x
    <3> QED
      BY <1>2, <3>4, <3>5, <3>6, <3>7, <3>8, <3>9, StandStep DEF x
  <2> QED
    BY <2>4, <2>5
<1> QED
  BY <1>5, <1>6, <1>7

LEMMA HInvStep == ASSUME HInv, [Next]_vars PROVE HInv'
<1>1. ASSUME NEW k \in Keys, Delete(k) PROVE HInv'
  BY <1>1, DeleteStep
<1>2. ASSUME NEW k \in Keys, NEW v \in ValuesOf[k], Set(k, v) PROVE HInv'
  BY <1>2, SetStep
<1>3. CASE Dismantle
  BY <1>3, DismantleStep
<1>4. CASE Rebuild
  BY <1>4, RebuildStep
<1>5. CASE Move
  BY <1>5, MoveStep
<1>6. CASE Unlock
  BY <1>6, UnlockStep
<1>7. ASSUME NEW r \in Stray, BeginRead(r) PROVE HInv'
  BY <1>7, BeginReadStep
<1>8. ASSUME NEW r \in Stray, ReadHead(r) PROVE HInv'
  BY <1>8, ReadHeadStep
<1>9. ASSUME NEW r \in Stray, ReadEntry(r) PROVE HInv'
  BY <1>9, ReadEntryStep
<1>10. CASE UNCHANGED vars
  <2>1. /\ size' = size /\ current' = current /\ slots' = slots
        /\ phase' = phase /\ old' = old /\ was' = was /\ read' = read
    BY <1>10 DEF vars
  <2> QED
    BY <2>1 DEF HInv, Types, Whole, Room, Readers
<1> QED
  BY <1>1, <1>2, <1>3, <1>4, <1>5, <1>6, <1>7, <1>8, <1>9, <1>10 DEF Next, Reorganise

LEMMA HInvAlways == Spec => []HInv
<1>1. Init => HInv
  BY HInvInit
<1>2. HInv /\ [Next]_vars => HInv'
  BY HInvStep
<1> QED
  BY <1>1, <1>2, PTL DEF Spec

-----------------------------------------------------------------------------
(* The properties                                                          *)

(* The table is well-formed after every ht_set, ht_del and step of         *)
(* enlarge_table and shrink_table: each entry is in the slot of its key,   *)
(* no key has two entries, and current_size is their number.               *)
THEOREM TableWellFormed == Spec => []WellFormed
<1>1. HInv => WellFormed
  <2> SUFFICES ASSUME HInv PROVE WellFormed
    OBVIOUS
  <2>1. TypeOK
    BY DEF HInv, Types, Whole, Table, TypeOK
  <2>2. ASSUME phase # "freed", NEW s \in 0..size-1
        PROVE  /\ \A i \in DOMAIN slots[s] : Slot(slots[s][i].key, size) = s
               /\ Cardinality(KeysIn(slots[s])) = Len(slots[s])
    <3>1. /\ slots[s] \in Seq(Entry) /\ Distinct(slots[s])
          /\ \A k \in KeysIn(slots[s]) : Slot(k, size) = s
      BY <2>2 DEF HInv, Whole, Table
    <3> DEFINE c == slots[s]
               n == Len(c)
               f == [i \in 1..n |-> c[i].key]
    <3>2. DOMAIN c = 1..n /\ n \in Nat
      BY <3>1, LenProperties
    <3>3. f \in [1..n -> KeysIn(c)] /\ \A i \in 1..n : f[i] = c[i].key
      BY <3>2 DEF KeysIn
    <3>4. \A i \in DOMAIN c : Slot(c[i].key, size) = s
      BY <3>1, <3>2, <3>3
    <3> HIDE DEF f, n
    <3>5. f \in Injection(1..n, KeysIn(c))
      BY <3>1, <3>2, <3>3 DEF Injection, IsInjective, Distinct
    <3>6. f \in Surjection(1..n, KeysIn(c))
      BY <3>2, <3>3 DEF Surjection, KeysIn
    <3>7. IsFiniteSet(1..n) /\ Cardinality(1..n) = n
      <4>1. 1 \in Int /\ n \in Int
        BY <3>2
      <4>2. IsFiniteSet(1..n) /\ Cardinality(1..n) = IF 1 > n THEN 0 ELSE n - 1 + 1
        BY <4>1, FS_Interval
      <4> QED
        BY <3>2, <4>2
    <3>8. Cardinality(KeysIn(c)) = n
      BY <3>5, <3>6, <3>7, FS_Surjection, FS_Injection
    <3> QED
      BY <3>4, <3>8 DEF n
  <2>3. phase # "freed" => current = Cardinality(UNION {KeysIn(slots[s]) : s \in 0..size-1})
    BY DEF HInv, Whole, AllKeys
  <2> QED
    BY <2>1, <2>2, <2>3 DEF WellFormed
<1> QED
  BY <1>1, HInvAlways, PTL

(* The array that enlarge_table or shrink_table has made has room for all  *)
(* entries it moves: ht_set never enlarges it once more.                   *)
THEOREM NeverNested == Spec => []NoNestedReorganisation
<1>1. HInv => NoNestedReorganisation
  BY DEF HInv, Types, NoNestedReorganisation, Intact
<1> QED
  BY <1>1, HInvAlways, PTL

(* However many keys are added while a lookup without the mutex of the     *)
(* table goes on, it reads no freed memory and finds the key that was      *)
(* there, unless an entry is deleted or the table reorganised meanwhile.   *)
THEOREM StrayLookups == Spec => []StrayReadsRight
<1>1. HInv => StrayReadsRight
  BY DEF HInv, Readers, Calm, StrayReadsRight
<1> QED
  BY <1>1, HInvAlways, PTL

-----------------------------------------------------------------------------
(* The refinement                                                          *)

(* what is stored for k, given the state of the table                      *)
StoredIn(S, n, ph, o, k) ==
  IF ph = "freed" THEN Find(o, k)
  ELSE IF ph = "moving" /\ k \in KeysIn(o) THEN Find(o, k)
  ELSE Answer(S, n, k)

Now(k)  == StoredIn(slots, size, phase, old, k)
Later(k) == StoredIn(slots', size', phase', old', k)

(* A step that changes what is stored for k at most, and to a value or to  *)
(* nothing, is a step of the abstract specification.                       *)
LEMMA ChangesOne ==
  ASSUME NEW k \in Keys, Later(k) \in Values \cup {None},
         \A j \in Keys \ {k} : Later(j) = Now(j)
  PROVE  Abstract!Next
<1>1. \A j \in Keys : Stored(j) = Now(j) /\ Stored(j)' = Later(j)
  BY DEF Stored, Now, Later, StoredIn, Get, Answer
<1>2. Abstract!Change(k)
  BY <1>1 DEF Abstract!Change
<1> QED
  BY <1>2 DEF Abstract!Next

LEMMA ChangesNone ==
  ASSUME \A j \in Keys : Later(j) = Now(j)
  PROVE  UNCHANGED [k \in Keys |-> Stored(k)]
<1>1. \A j \in Keys : Stored(j) = Now(j) /\ Stored(j)' = Later(j)
  BY DEF Stored, Now, Later, StoredIn, Get, Answer
<1> QED
  BY <1>1

LEMMA SetChanges ==
  ASSUME HInv, NEW k \in Keys, NEW v \in ValuesOf[k], Set(k, v)
  PROVE  Abstract!Next
<1>1. phase = "whole" /\ size \in Nat \ {0} /\ Table(slots, size) /\ IsFiniteSet(AllKeys(slots, size)) /\ v \in Values
  BY DEF Set, HInv, Types, Whole, Values
<1>2. slots' = Store(slots, size, k, v) /\ size' = size /\ old' = old /\ phase' \in {"whole", "full"}
  BY DEF Set
<1>3. Answer(slots', size, k) = v
  BY <1>1, <1>2, StoreEntry
<1>4. \A j \in Keys \ {k} : Answer(slots', size, j) = Answer(slots, size, j)
  <2> DEFINE T == Store(slots, size, k, v)
  <2>1. \A j \in Keys \ {k} : Answer(T, size, j) = Answer(slots, size, j)
    BY <1>1, StoreEntry
  <2> QED
    BY <1>2, <2>1
<1>5. Later(k) = v /\ \A j \in Keys \ {k} : Later(j) = Now(j)
  BY <1>1, <1>2, <1>3, <1>4 DEF Later, Now, StoredIn
<1> QED
  BY <1>1, <1>5, ChangesOne

LEMMA DeleteChanges ==
  ASSUME HInv, NEW k \in Keys, Delete(k)
  PROVE  Abstract!Next
<1>1. /\ phase = "whole" /\ size \in Nat \ {0} /\ Table(slots, size)
      /\ IsFiniteSet(AllKeys(slots, size)) /\ Has(slots, size, k)
  BY DEF Delete, HInv, Types, Whole, Present, Has
<1>2. LET m == Slot(k, size) IN slots' = [slots EXCEPT ![m] = RemoveAt(slots[m], IndexOf(slots[m], k))]
  BY DEF Delete
<1>3. size' = size /\ old' = old /\ phase' \in {"whole", "sparse"}
  BY DEF Delete
<1>4. Answer(slots', size, k) = None /\ \A j \in Keys \ {k} : Answer(slots', size, j) = Answer(slots, size, j)
  <2> DEFINE m == Slot(k, size)
             T == [slots EXCEPT ![m] = RemoveAt(slots[m], IndexOf(slots[m], k))]
  <2>1. Answer(T, size, k) = None
    BY <1>1, DeleteEntry
  <2>2. \A j \in Keys \ {k} : Answer(T, size, j) = Answer(slots, size, j)
    BY <1>1, DeleteEntry
  <2> HIDE DEF T
  <2>3. slots' = T
    BY <1>2 DEF T
  <2> QED
    BY <2>1, <2>2, <2>3
<1>5. Later(k) = None /\ \A j \in Keys \ {k} : Later(j) = Now(j)
  BY <1>1, <1>3, <1>4 DEF Later, Now, StoredIn
<1> QED
  BY <1>5, ChangesOne

(* Enlarging and shrinking change nothing, in none of their steps.         *)
LEMMA ReorganiseChangesNone ==
  ASSUME HInv, Reorganise
  PROVE  \A j \in Keys : Later(j) = Now(j)
<1>1. CASE Dismantle
  <2>1. /\ phase \in {"full", "sparse"} /\ size \in Nat \ {0} /\ Table(slots, size)
        /\ IsFiniteSet(AllKeys(slots, size)) /\ old' = Dump /\ phase' = "freed"
    BY <1>1 DEF Dismantle, HInv, Types, Whole
  <2>2. \A j \in Keys : Find(old', j) = Answer(slots, size, j)
    BY <2>1, DumpIsChain
  <2> QED
    BY <2>1, <2>2 DEF Later, Now, StoredIn
<1>2. CASE Rebuild
  <2>1. /\ phase = "freed" /\ phase' = "moving" /\ size' = size /\ old' = old
        /\ size \in Nat \ {0} /\ slots' = EmptyTable(size)
    BY <1>2 DEF Rebuild, HInv, Types
  <2>2. \A j \in Keys : Answer(slots', size, j) = None
    BY <2>1, EmptyTables
  <2>3. \A j \in Keys : j \notin KeysIn(old) => Find(old, j) = None
    BY DEF Find
  <2> QED
    BY <2>1, <2>2, <2>3 DEF Later, Now, StoredIn
<1>3. CASE Move
  <2> DEFINE e == Head(old)
             k == e.key
             v == e.value
  <2>1. /\ phase = "moving" /\ size \in Nat \ {0} /\ Table(slots, size) /\ IsFiniteSet(AllKeys(slots, size))
        /\ old \in Seq(Entry) /\ Distinct(old) /\ old # <<>>
        /\ slots' = Store(slots, size, k, v) /\ size' = size /\ old' = Tail(old)
    BY <1>3 DEF Move, HInv, Types, Whole
  <2>2. /\ e \in Entry /\ k \in KeysIn(old) /\ Find(old, k) = v
        /\ KeysIn(old') = KeysIn(old) \ {k} /\ \A j : j # k => Find(old', j) = Find(old, j)
    BY <2>1, RemoveFirstEntry
  <2>3. k \in Keys /\ v \in Values
    BY <2>2 DEF Entry
  <2>4. phase' = "moving"
    <3>1. HInv'
      BY <1>3, MoveStep
    <3> QED
      BY <1>3, <3>1 DEF Move, HInv, Types, Intact
  <2> HIDE DEF e, k, v
  <2>5. Answer(slots', size, k) = v
    BY <2>1, <2>3, StoreEntry
  <2>6. \A j \in Keys \ {k} : Answer(slots', size, j) = Answer(slots, size, j)
    <3> DEFINE T == Store(slots, size, k, v)
    <3>1. \A j \in Keys \ {k} : Answer(T, size, j) = Answer(slots, size, j)
      BY <2>1, <2>3, StoreEntry
    <3> QED
      BY <2>1, <3>1
  <2>7. Later(k) = Now(k)
    BY <2>1, <2>2, <2>4, <2>5 DEF Later, Now, StoredIn
  <2>8. \A j \in Keys \ {k} : Later(j) = Now(j)
    BY <2>1, <2>2, <2>4, <2>6 DEF Later, Now, StoredIn
  <2> QED
    BY <2>7, <2>8
<1>4. CASE Unlock
  <2>1. /\ phase = "moving" /\ phase' = "whole" /\ old = <<>> /\ old' = old /\ size' = size /\ slots' = slots
    BY <1>4 DEF Unlock, table
  <2>2. KeysIn(old) = {}
    BY <2>1 DEF KeysIn
  <2> QED
    BY <2>1, <2>2 DEF Later, Now, StoredIn
<1> QED
  BY <1>1, <1>2, <1>3, <1>4 DEF Reorganise

LEMMA StepChangesOne ==
  ASSUME HInv, [Next]_vars
  PROVE  [Abstract!Next]_([k \in Keys |-> Stored(k)])
<1>1. ASSUME NEW k \in Keys, Delete(k) PROVE Abstract!Next
  BY <1>1, DeleteChanges
<1>2. ASSUME NEW k \in Keys, NEW v \in ValuesOf[k], Set(k, v) PROVE Abstract!Next
  BY <1>2, SetChanges
<1>3. CASE Reorganise
  BY <1>3, ReorganiseChangesNone, ChangesNone
<1>4. ASSUME (\E r \in Stray : BeginRead(r) \/ ReadHead(r) \/ ReadEntry(r)) \/ UNCHANGED vars
      PROVE  UNCHANGED [k \in Keys |-> Stored(k)]
  <2>1. slots' = slots /\ size' = size /\ phase' = phase /\ old' = old
    BY <1>4 DEF BeginRead, ReadHead, ReadEntry, vars, table
  <2>2. \A j \in Keys : Later(j) = Now(j)
    BY <2>1 DEF Later, Now
  <2> QED
    BY <2>2, ChangesNone
<1> QED
  BY <1>1, <1>2, <1>3, <1>4 DEF Next

(* The table is a partial function from keys to values: ht_set and ht_del  *)
(* change what a lookup returns for their key and for no other, and        *)
(* enlarge_table and shrink_table lose, double and change nothing.         *)
THEOREM TableIsMap == Spec => IsMap
<1>1. Init => Abstract!Init
  <2> SUFFICES ASSUME Init PROVE Abstract!Init
    OBVIOUS
  <2>1. \A k \in Keys : Answer(slots, size, k) = None
    BY EmptyTables, TableAssumption DEF Init
  <2>2. \A k \in Keys : Stored(k) = None
    BY <2>1 DEF Init, Stored, Get, Answer
  <2> QED
    BY <2>2 DEF Abstract!Init
<1>2. HInv /\ [Next]_vars => [Abstract!Next]_([k \in Keys |-> Stored(k)])
  BY StepChangesOne
<1> QED
  BY <1>1, <1>2, HInvAlways, PTL DEF Spec, IsMap, Abstract!Spec
=============================================================================
