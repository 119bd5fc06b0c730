------------------------- MODULE ExpertIndexProofs -------------------------
(***************************************************************************)
(* Theorems about ExpertIndex for every hash function, number of entries   *)
(* and table size: hash_find is exact, and the table stays sound.          *)
(*                                                                         *)
(* Holds says what a table is good for: it has exactly the given slots,    *)
(* each in one bucket that the probe for its key reaches without passing   *)
(* an empty bucket.  Inserting, erasing and rebuilding keep it; hash_find  *)
(* is exact on every such table that has an empty bucket, and counting     *)
(* shows that one with few tombstones has.                                 *)
(***************************************************************************)
EXTENDS ExpertIndex, FiniteSetTheorems, WellFoundedInduction, TLAPS

(***************************************************************************)
(* Least elements.                                                         *)
(***************************************************************************)
\* The pairs of naturals ordered by < form a well-founded relation.
LEMMA LessIsWellFounded == IsWellFoundedOn({r \in Nat \X Nat : r[1] < r[2]}, Nat)
<1>1. {r \in Nat \X Nat : r[1] < r[2]} = OpToRel(<, Nat)
  BY DEF OpToRel
<1> QED
  BY <1>1, NatLessThanWellFounded

\* A non-empty set of naturals has a least element.
LEMMA NatHasLeast ==
  ASSUME NEW T \in SUBSET Nat, T # {}
  PROVE  \E x \in T : \A y \in T : x <= y
<1> DEFINE R == {r \in Nat \X Nat : r[1] < r[2]}
<1>1. IsWellFoundedOn(R, Nat)
  BY LessIsWellFounded
<1> HIDE DEF R
<1>2. PICK x \in T : \A y \in T : ~(<<y, x>> \in R)
  BY <1>1, WFMin
<1>3. ASSUME NEW y \in T PROVE x <= y
  <2>1. x \in Nat /\ y \in Nat
    OBVIOUS
  <2>2. ~(<<y, x>> \in R)
    BY <1>2
  <2>3. <<y, x>> \in R <=> y < x
    BY <2>1 DEF R
  <2> QED
    BY <2>1, <2>2, <2>3
<1> QED
  BY <1>3

\* FiniteSetsExt's Min picks it.
LEMMA MinIsLeast ==
  ASSUME NEW T \in SUBSET Nat, T # {}
  PROVE  Min(T) \in T /\ \A y \in T : Min(T) <= y
BY NatHasLeast DEF Min

(***************************************************************************)
(* The probe path.                                                         *)
(***************************************************************************)
\* The bucket at a probe of a key, for a hash function H.
At(H, key, p) == (H[key] + p) % BucketCount

LEMMA Sizes == /\ MaxEntries \in Nat /\ MaxEntries > 0 /\ BucketCount \in Nat /\ BucketCount > 0
               /\ BucketCount >= 2 * MaxEntries
  BY IndexAssumption

\* Every probe is at a bucket, and every bucket is on the path of every key.
LEMMA Probes ==
  ASSUME NEW H \in [Keys -> Buckets], NEW key \in Keys
  PROVE  /\ \A p \in Buckets : At(H, key, p) \in Buckets
         /\ \A b \in Buckets : \E p \in Buckets : At(H, key, p) = b
<1> DEFINE N == BucketCount
           h == H[key]
<1>1. N \in Nat /\ N > 0 /\ h \in 0 .. N - 1
  BY Sizes DEF Buckets
<1>2. \A p \in Buckets : At(H, key, p) = (h + p) % N
  BY DEF At
<1> HIDE DEF N, h
<1>3. Buckets = 0 .. N - 1
  BY DEF Buckets, N
<1>4. ASSUME NEW p \in 0 .. N - 1 PROVE (h + p) % N \in 0 .. N - 1
  BY <1>1
<1>5. ASSUME NEW b \in 0 .. N - 1 PROVE \E p \in 0 .. N - 1 : (h + p) % N = b
  <2>1. CASE b >= h
    <3>1. b - h \in 0 .. N - 1 /\ h + (b - h) = b
      BY <1>1, <2>1
    <3>2. b % N = b
      BY <1>1
    <3> QED
      BY <3>1, <3>2
  <2>2. CASE b < h
    <3>1. b - h + N \in 0 .. N - 1 /\ h + (b - h + N) = b + N
      BY <1>1, <2>2
    <3>2. (b + N) % N = b
      BY <1>1
    <3> QED
      BY <3>1, <3>2
  <2> QED
    BY <1>1, <2>1, <2>2
<1> QED
  BY <1>2, <1>3, <1>4, <1>5

(***************************************************************************)
(* Tables.                                                                 *)
(***************************************************************************)
Values == Slots \cup {EMPTY, TOMBSTONE}

LEMMA Marks == EMPTY \notin Slots /\ TOMBSTONE \notin Slots /\ EMPTY # TOMBSTONE
               /\ Slots \subseteq Nat /\ Buckets \subseteq Nat /\ EMPTY \notin Buckets
  BY Sizes DEF EMPTY, TOMBSTONE, Slots, Buckets

\* Bucket b is reached by a probe for key without passing an empty bucket.
Reaches(H, T, key, b) ==
    \E p \in Buckets : /\ At(H, key, p) = b
                       /\ \A q \in Buckets : q < p => T[At(H, key, q)] # EMPTY

\* Table T holds exactly the slots in R, whose keys are K, each in one bucket that the
\* probe for its key reaches.
Holds(K, H, T, R) ==
    /\ T \in [Buckets -> Values]
    /\ \A b \in Buckets : T[b] \in Slots => T[b] \in R
    /\ \A b, c \in Buckets : T[b] \in Slots /\ T[c] = T[b] => b = c
    /\ \A s \in R : \E b \in Buckets : T[b] = s /\ Reaches(H, T, K[s], b)

\* The keys of the slots in R.
Keyed(K, R) ==
    /\ R \subseteq Slots
    /\ \A s \in R : K[s] \in Keys
    /\ \A s, t \in R : K[s] = K[t] => s = t

\* An empty table.
LEMMA HoldsNone ==
  ASSUME NEW K, NEW H
  PROVE  Holds(K, H, [b \in Buckets |-> EMPTY], {})
  BY Marks DEF Holds, Values

\* Only the keys of the slots it holds matter.
LEMMA HoldsSame ==
  ASSUME NEW K, NEW L, NEW H, NEW T, NEW R, Holds(K, H, T, R), \A s \in R : L[s] = K[s]
  PROVE  Holds(L, H, T, R)
  BY DEF Holds

\* A slot is put into a bucket that is not in use, at the first such bucket or after it.
LEMMA HoldsPut ==
  ASSUME NEW K, NEW H \in [Keys -> Buckets], NEW R, NEW s \in Slots \ R, Keyed(K, R \cup {s}),
         NEW T, Holds(K, H, T, R),
         NEW b \in Buckets, T[b] \notin Slots, Reaches(H, T, K[s], b)
  PROVE  Holds(K, H, [T EXCEPT ![b] = s], R \cup {s})
<1> DEFINE U == [T EXCEPT ![b] = s]
<1>1. T \in [Buckets -> Values]
  BY DEF Holds
<1>2. U \in [Buckets -> Values] /\ U[b] = s /\ \A c \in Buckets : c # b => U[c] = T[c]
  BY <1>1 DEF Values
<1> HIDE DEF U
<1>3. \A c \in Buckets : U[c] = EMPTY => T[c] = EMPTY
  BY <1>2, Marks
<1>4. ASSUME NEW key \in Keys, NEW c \in Buckets, Reaches(H, T, key, c) PROVE Reaches(H, U, key, c)
  <2>1. PICK p \in Buckets : At(H, key, p) = c /\ \A q \in Buckets : q < p => T[At(H, key, q)] # EMPTY
    BY <1>4 DEF Reaches
  <2>2. \A q \in Buckets : q < p => U[At(H, key, q)] # EMPTY
    BY <1>3, <2>1, Probes
  <2> QED
    BY <2>1, <2>2 DEF Reaches
<1>5. \A c \in Buckets : U[c] \in Slots => U[c] \in R \cup {s}
  BY <1>2 DEF Holds
<1>6. ASSUME NEW c \in Buckets, NEW d \in Buckets, U[c] \in Slots, U[d] = U[c] PROVE c = d
  BY <1>2, <1>6 DEF Holds
<1>7. ASSUME NEW t \in R \cup {s} PROVE \E c \in Buckets : U[c] = t /\ Reaches(H, U, K[t], c)
  <2>1. K[t] \in Keys /\ t \in Slots
    BY DEF Keyed
  <2>2. CASE t = s
    BY <1>2, <1>4, <2>1, <2>2
  <2>3. CASE t # s
    <3>1. PICK c \in Buckets : T[c] = t /\ Reaches(H, T, K[t], c)
      BY <2>3 DEF Holds
    <3>2. c # b
      BY <2>1, <3>1
    <3> QED
      BY <1>2, <1>4, <2>1, <3>1, <3>2
  <2> QED
    BY <2>2, <2>3
<1>8. Holds(K, H, U, R \cup {s})
  BY <1>2, <1>5, <1>6, <1>7 DEF Holds
<1> QED
  BY <1>8 DEF U

\* A slot is erased: its bucket becomes a tombstone, and no path is cut.
LEMMA HoldsErase ==
  ASSUME NEW K, NEW H \in [Keys -> Buckets], NEW R, Keyed(K, R), NEW s \in R,
         NEW T, Holds(K, H, T, R), NEW b \in Buckets, T[b] = s
  PROVE  Holds(K, H, [T EXCEPT ![b] = TOMBSTONE], R \ {s})
<1> DEFINE U == [T EXCEPT ![b] = TOMBSTONE]
<1>1. T \in [Buckets -> Values] /\ s \in Slots
  BY DEF Holds, Keyed
<1>2. U \in [Buckets -> Values] /\ U[b] = TOMBSTONE /\ \A c \in Buckets : c # b => U[c] = T[c]
  BY <1>1 DEF Values
<1> HIDE DEF U
<1>3. \A c \in Buckets : U[c] = EMPTY => T[c] = EMPTY
  BY <1>2, Marks
<1>4. ASSUME NEW key \in Keys, NEW c \in Buckets, Reaches(H, T, key, c) PROVE Reaches(H, U, key, c)
  <2>1. PICK p \in Buckets : At(H, key, p) = c /\ \A q \in Buckets : q < p => T[At(H, key, q)] # EMPTY
    BY <1>4 DEF Reaches
  <2>2. \A q \in Buckets : q < p => U[At(H, key, q)] # EMPTY
    BY <1>3, <2>1, Probes
  <2> QED
    BY <2>1, <2>2 DEF Reaches
<1>5. ASSUME NEW c \in Buckets, U[c] \in Slots PROVE U[c] \in R \ {s}
  <2>1. c # b /\ U[c] = T[c] /\ T[c] \in R
    BY <1>2, <1>5, Marks DEF Holds
  <2>2. T[c] # s
    BY <1>1, <2>1 DEF Holds
  <2> QED
    BY <2>1, <2>2
<1>6. ASSUME NEW c \in Buckets, NEW d \in Buckets, U[c] \in Slots, U[d] = U[c] PROVE c = d
  <2>1. U[c] = T[c] /\ U[d] = T[d]
    BY <1>2, <1>6, Marks
  <2> QED
    BY <1>6, <2>1 DEF Holds
<1>7. ASSUME NEW t \in R \ {s} PROVE \E c \in Buckets : U[c] = t /\ Reaches(H, U, K[t], c)
  <2>1. K[t] \in Keys
    BY DEF Keyed
  <2>2. PICK c \in Buckets : T[c] = t /\ Reaches(H, T, K[t], c)
    BY DEF Holds
  <2>3. c # b
    BY <2>2
  <2> QED
    BY <1>2, <1>4, <2>1, <2>2, <2>3
<1>8. Holds(K, H, U, R \ {s})
  BY <1>2, <1>5, <1>6, <1>7 DEF Holds
<1> QED
  BY <1>8 DEF U

\* A table with few tombstones has an empty bucket: it has twice as many buckets as slots.
LEMMA EmptyBucket ==
  ASSUME NEW K, NEW H, NEW R, NEW T, Holds(K, H, T, R),
         Cardinality({b \in Buckets : T[b] = TOMBSTONE}) <= BucketCount \div 4
  PROVE  \E b \in Buckets : T[b] = EMPTY
<1> SUFFICES ASSUME \A b \in Buckets : T[b] # EMPTY PROVE FALSE
  OBVIOUS
<1> DEFINE O == {b \in Buckets : T[b] \in Slots}
           D == {b \in Buckets : T[b] = TOMBSTONE}
<1>1. IsFiniteSet(Buckets) /\ Cardinality(Buckets) = BucketCount
      /\ IsFiniteSet(Slots) /\ Cardinality(Slots) = MaxEntries
  BY Sizes, FS_Interval DEF Buckets, Slots
<1>2. Buckets = O \cup D
  BY DEF Holds, Values
<1>3. /\ IsFiniteSet(O) /\ IsFiniteSet(D) /\ Cardinality(O) \in Nat /\ Cardinality(D) \in Nat
      /\ O \cap D = {}
  <2>1. O \subseteq Buckets /\ D \subseteq Buckets
    OBVIOUS
  <2> QED
    BY <1>1, <2>1, FS_Subset, FS_CardinalityType, Marks
<1>4. Cardinality(O) <= MaxEntries
  <2> DEFINE f == [b \in O |-> T[b]]
  <2>1. f \in [O -> Slots]
    OBVIOUS
  <2>2. \A b, c \in O : f[b] = f[c] => b = c
    BY DEF Holds
  <2>3. f \in Injection(O, Slots)
    BY <2>1, <2>2 DEF Injection, IsInjective
  <2> HIDE DEF f
  <2> QED
    BY <1>1, <2>3, FS_Injection DEF ExistsInjection
<1>5. Cardinality(O \cup D) = Cardinality(O) + Cardinality(D)
  <2> HIDE DEF O, D
  <2>1. Cardinality(O \cup D) = Cardinality(O) + Cardinality(D) - Cardinality(O \cap D)
    BY <1>3, FS_Union
  <2>2. Cardinality(O \cap D) = 0
    BY <1>3, FS_EmptySet
  <2> QED
    BY <1>3, <2>1, <2>2
<1>6. Cardinality(D) <= BucketCount \div 4
  OBVIOUS
<1> DEFINE o == Cardinality(O)
           d == Cardinality(D)
           q == BucketCount \div 4
<1>7. o \in Nat /\ d \in Nat /\ o <= MaxEntries /\ d <= q /\ BucketCount = o + d
  BY <1>1, <1>2, <1>3, <1>4, <1>5, <1>6
<1>8. q \in Nat /\ 4 * q <= BucketCount
  BY Sizes
<1> HIDE DEF o, d, q
<1> QED
  BY <1>7, <1>8, Sizes

(***************************************************************************)
(* hash_find.                                                              *)
(***************************************************************************)
\* The probe at p is at the bucket of the key.
Hit(T, key, p) == LET v == T[At(hash, key, p)] IN v \in Slots /\ keyOf[v] = key

\* The probes at which the search ends.
Stops(T, key) == {p \in Buckets : T[At(hash, key, p)] = EMPTY \/ Hit(T, key, p)}

\* The tombstones it has passed then.
Passed(T, key) == {p \in Buckets : p < Min(Stops(T, key)) /\ T[At(hash, key, p)] = TOMBSTONE}

\* What hash_find returns when it does not scan the whole table.
LEMMA FindEnds ==
  ASSUME NEW T, NEW key, Stops(T, key) # {}
  PROVE  hash_find(T, key) =
            IF Hit(T, key, Min(Stops(T, key)))
              THEN [found |-> TRUE, slot |-> T[At(hash, key, Min(Stops(T, key)))],
                    bucket |-> At(hash, key, Min(Stops(T, key)))]
              ELSE [found |-> FALSE, slot |-> EMPTY,
                    bucket |-> IF Passed(T, key) # {} THEN At(hash, key, Min(Passed(T, key)))
                               ELSE At(hash, key, Min(Stops(T, key)))]
<1> DEFINE hit(p) == LET v == T[(hash[key] + p) % BucketCount] IN v \in Slots /\ keyOf[v] = key
           stops == {p \in Buckets : T[(hash[key] + p) % BucketCount] = EMPTY \/ hit(p)}
           last == IF stops = {} THEN BucketCount ELSE Min(stops)
           tombs == {p \in Buckets : p < last /\ T[(hash[key] + p) % BucketCount] = TOMBSTONE}
<1>1. hash_find(T, key) =
            IF stops # {} /\ hit(last)
              THEN [found |-> TRUE, slot |-> T[(hash[key] + last) % BucketCount],
                    bucket |-> (hash[key] + last) % BucketCount]
              ELSE [found |-> FALSE, slot |-> EMPTY,
                    bucket |-> IF tombs # {} THEN (hash[key] + Min(tombs)) % BucketCount
                               ELSE IF stops # {} THEN (hash[key] + last) % BucketCount ELSE EMPTY]
  BY Zenon DEF hash_find
<1>2. \A p : hit(p) <=> Hit(T, key, p)
  BY DEF Hit, At
<1>3. stops = Stops(T, key)
  BY DEF Stops, Hit, At
<1>4. last = Min(Stops(T, key))
  BY <1>3, Zenon
<1>5. tombs = Passed(T, key)
  BY <1>4 DEF Passed, At
<1> HIDE DEF hit, stops, last, tombs
<1> QED
  BY <1>1, <1>2, <1>3, <1>4, <1>5, Zenon DEF At

\* A key in the table is found, through whatever lies on its path.
LEMMA FindHit ==
  ASSUME hash \in [Keys -> Buckets], NEW R, Keyed(keyOf, R), NEW T, Holds(keyOf, hash, T, R),
         NEW s \in R
  PROVE  LET f == hash_find(T, keyOf[s])
         IN  f.found /\ f.slot = s /\ f.bucket \in Buckets /\ T[f.bucket] = s
<1> DEFINE key == keyOf[s]
           last == Min(Stops(T, key))
<1>1. key \in Keys /\ s \in Slots
  BY DEF Keyed
<1>2. PICK b \in Buckets : T[b] = s /\ Reaches(hash, T, key, b)
  BY DEF Holds
<1>3. PICK p \in Buckets : At(hash, key, p) = b /\ \A q \in Buckets : q < p => T[At(hash, key, q)] # EMPTY
  BY <1>2 DEF Reaches
<1> HIDE DEF last
<1>4. p \in Stops(T, key) /\ Hit(T, key, p)
  BY <1>1, <1>2, <1>3 DEF Stops, Hit
<1>5. last \in Stops(T, key) /\ last <= p /\ last \in Buckets /\ last \in Nat /\ p \in Nat
  <2>1. Stops(T, key) \in SUBSET Nat
    BY Marks DEF Stops
  <2>2. last \in Stops(T, key) /\ last <= p
    BY <1>4, <2>1, MinIsLeast DEF last
  <2> QED
    BY <2>1, <2>2, <1>4 DEF Stops
<1>6. Hit(T, key, last)
  <2>1. CASE last = p
    BY <1>4, <2>1
  <2>2. CASE last < p
    BY <1>3, <1>5, <2>2 DEF Stops
  <2> QED
    BY <1>5, <2>1, <2>2
<1>7. At(hash, key, last) \in Buckets
  BY <1>1, <1>5, Probes
<1>8. T[At(hash, key, last)] = s
  <2>1. T[At(hash, key, last)] \in Slots /\ keyOf[T[At(hash, key, last)]] = key
    BY <1>6 DEF Hit
  <2>2. T[At(hash, key, last)] \in R
    BY <1>7, <2>1 DEF Holds
  <2> QED
    BY <2>1, <2>2 DEF Keyed
<1>9. hash_find(T, key) = [found |-> TRUE, slot |-> T[At(hash, key, last)], bucket |-> At(hash, key, last)]
  BY <1>4, <1>6, FindEnds DEF last
<1> QED
  BY <1>7, <1>8, <1>9

\* Any other key is missed, with a bucket it can be put into.
LEMMA FindMiss ==
  ASSUME hash \in [Keys -> Buckets], NEW R, Keyed(keyOf, R), NEW T, Holds(keyOf, hash, T, R),
         NEW key \in Keys, \A s \in R : keyOf[s] # key, \E b \in Buckets : T[b] = EMPTY
  PROVE  LET f == hash_find(T, key)
         IN  /\ ~f.found /\ f.bucket \in Buckets /\ T[f.bucket] \notin Slots
             /\ Reaches(hash, T, key, f.bucket)
<1> DEFINE last == Min(Stops(T, key))
           tomb == Min(Passed(T, key))
<1>1. ASSUME NEW p \in Buckets PROVE ~Hit(T, key, p) /\ At(hash, key, p) \in Buckets
  <2>1. At(hash, key, p) \in Buckets
    BY Probes
  <2>2. T[At(hash, key, p)] \in Slots => T[At(hash, key, p)] \in R
    BY <2>1 DEF Holds
  <2> QED
    BY <2>1, <2>2 DEF Hit
<1>2. Stops(T, key) # {}
  <2>1. PICK b \in Buckets : T[b] = EMPTY
    OBVIOUS
  <2>2. PICK p \in Buckets : At(hash, key, p) = b
    BY Probes
  <2> QED
    BY <2>1, <2>2 DEF Stops
<1>3. Stops(T, key) \in SUBSET Nat /\ Passed(T, key) \in SUBSET Nat
  BY Marks DEF Stops, Passed
<1>4. last \in Stops(T, key) /\ \A p \in Stops(T, key) : last <= p
  BY <1>2, <1>3, MinIsLeast
<1> HIDE DEF last
<1>5. last \in Buckets /\ last \in Nat /\ T[At(hash, key, last)] = EMPTY
  BY <1>1, <1>3, <1>4 DEF Stops
<1>6. ASSUME NEW q \in Buckets, q < last PROVE T[At(hash, key, q)] # EMPTY
  <2>1. q \in Nat /\ q \notin Stops(T, key)
    BY <1>4, <1>5, <1>6, Marks
  <2> QED
    BY <2>1 DEF Stops
<1>7. ASSUME NEW p \in Buckets, p <= last PROVE Reaches(hash, T, key, At(hash, key, p))
  <2>1. \A q \in Buckets : q < p => q < last
    BY <1>5, <1>7, Marks
  <2> QED
    BY <1>6, <2>1 DEF Reaches
<1>8. hash_find(T, key) = [found |-> FALSE, slot |-> EMPTY,
                           bucket |-> IF Passed(T, key) # {} THEN At(hash, key, tomb)
                                      ELSE At(hash, key, last)]
  BY <1>1, <1>2, <1>5, FindEnds DEF last
<1>9. CASE Passed(T, key) = {}
  BY <1>1, <1>5, <1>7, <1>8, <1>9, Marks
<1>10. CASE Passed(T, key) # {}
  <2>1. tomb \in Passed(T, key)
    BY <1>3, <1>10, MinIsLeast
  <2> HIDE DEF tomb
  <2>2. tomb \in Buckets /\ tomb \in Nat /\ tomb <= last /\ T[At(hash, key, tomb)] = TOMBSTONE
    BY <1>3, <1>5, <2>1 DEF Passed, last
  <2> QED
    BY <1>1, <1>7, <1>8, <1>10, <2>2, Marks
<1> QED
  BY <1>9, <1>10

(***************************************************************************)
(* hash_rebuild: a recursive function of the slots gone through.           *)
(***************************************************************************)
\* One equation of it for each number of slots gone through.
RebuildStep(g, freed, D) ==
    [n \in D |-> IF n = 0 THEN [b \in Buckets |-> EMPTY]
                 ELSE IF n - 1 = freed \/ ~Resident(n - 1) THEN g[n - 1]
                 ELSE [g[n - 1] EXCEPT ![hash_find(g[n - 1], keyOf[n - 1]).bucket] = n - 1]]

\* The function exists: a smallest number of slots for which it does not, is none.
LEMMA RebuildExists ==
  ASSUME NEW freed, NEW m \in Nat
  PROVE  \E g : g = RebuildStep(g, freed, 0 .. m)
<1> DEFINE Has(n) == \E g : g = RebuildStep(g, freed, 0 .. n)
           Bad == {n \in Nat : ~Has(n)}
<1>1. Has(0)
  <2> DEFINE g == [n \in 0 .. 0 |-> [b \in Buckets |-> EMPTY]]
  <2>1. g = RebuildStep(g, freed, 0 .. 0)
    BY DEF RebuildStep
  <2> QED
    BY <2>1
<1>2. ASSUME NEW n \in Nat, Has(n) PROVE Has(n + 1)
  <2>1. PICK g : g = RebuildStep(g, freed, 0 .. n)
    BY <1>2
  <2> DEFINE h == RebuildStep(g, freed, 0 .. n + 1)
  <2>2. ASSUME NEW i \in 0 .. n PROVE h[i] = g[i]
    <3> DEFINE v == IF i = 0 THEN [b \in Buckets |-> EMPTY]
                    ELSE IF i - 1 = freed \/ ~Resident(i - 1) THEN g[i - 1]
                    ELSE [g[i - 1] EXCEPT ![hash_find(g[i - 1], keyOf[i - 1]).bucket] = i - 1]
    <3>1. i \in 0 .. n + 1
      OBVIOUS
    <3>2. h[i] = v
      BY <3>1 DEF RebuildStep
    <3>3. g[i] = v
      BY <2>1 DEF RebuildStep
    <3> QED
      BY <3>2, <3>3
  <2>3. ASSUME NEW i \in 0 .. n + 1, i # 0 PROVE h[i - 1] = g[i - 1]
    <3>1. i - 1 \in 0 .. n
      BY <2>3
    <3> QED
      BY <2>2, <3>1
  <2>4. h = RebuildStep(h, freed, 0 .. n + 1)
    BY <2>3 DEF RebuildStep
  <2> QED
    BY <2>4
<1> HIDE DEF Has
<1>3. Bad = {}
  <2> SUFFICES ASSUME Bad # {} PROVE FALSE
    OBVIOUS
  <2>1. PICK x \in Bad : \A y \in Bad : x <= y
    BY NatHasLeast
  <2>2. x # 0 /\ x \in Nat
    BY <1>1
  <2>3. x - 1 \in Nat /\ x - 1 \notin Bad
    BY <2>1, <2>2
  <2> QED
    BY <1>2, <2>2, <2>3
<1> QED
  BY <1>3 DEF Has

LEMMA RebuildIs ==
  ASSUME NEW freed
  PROVE  \E g : g = RebuildStep(g, freed, 0 .. MaxEntries) /\ hash_rebuild(freed) = g[MaxEntries]
<1> DEFINE g == CHOOSE g : g = RebuildStep(g, freed, 0 .. MaxEntries)
<1>1. g = RebuildStep(g, freed, 0 .. MaxEntries)
  BY RebuildExists, Sizes
<1>2. hash_rebuild(freed) = g[MaxEntries]
  BY DEF hash_rebuild, RebuildStep
<1> QED
  BY <1>1, <1>2

\* The slots in use.
Full == {s \in Slots : Resident(s)}
Tombs(T) == {b \in Buckets : T[b] = TOMBSTONE}

\* The rebuilt table holds what the old one did, but for the slot that was freed, and has
\* no tombstones.
LEMMA Rebuilt ==
  ASSUME hash \in [Keys -> Buckets], Keyed(keyOf, Full), NEW freed
  PROVE  /\ Holds(keyOf, hash, hash_rebuild(freed), Full \ {freed})
         /\ Tombs(hash_rebuild(freed)) = {}
<1>1. PICK g : g = RebuildStep(g, freed, 0 .. MaxEntries) /\ hash_rebuild(freed) = g[MaxEntries]
  BY RebuildIs
<1> DEFINE Done(n) == {s \in Full \ {freed} : s < n}
           Fine(n) == Holds(keyOf, hash, g[n], Done(n)) /\ Tombs(g[n]) = {}
           Bad == {n \in 0 .. MaxEntries : ~Fine(n)}
<1>2. \A s \in Full : s \in Nat /\ s \in Slots /\ s < MaxEntries
  BY Sizes DEF Full, Slots
<1>3. Fine(0)
  <2>1. g[0] = [b \in Buckets |-> EMPTY]
    BY <1>1, Sizes DEF RebuildStep
  <2>2. Done(0) = {}
    BY <1>2
  <2>3. Tombs(g[0]) = {}
    BY <2>1, Marks DEF Tombs
  <2> QED
    BY <2>1, <2>2, <2>3, HoldsNone
<1>4. ASSUME NEW n \in 1 .. MaxEntries, Fine(n - 1) PROVE Fine(n)
  <2> DEFINE s == n - 1
             T == g[n - 1]
             f == hash_find(T, keyOf[s])
  <2>0. n \in Nat /\ n \in 0 .. MaxEntries /\ n # 0 /\ s \in Slots /\ s \in Nat
    BY Sizes DEF Slots
  <2>1. g[n] = IF s = freed \/ ~Resident(s) THEN T ELSE [T EXCEPT ![f.bucket] = s]
    BY <1>1, <2>0, Zenon DEF RebuildStep
  <2>2. CASE s = freed \/ ~Resident(s)
    <3>1. \A t \in Full \ {freed} : t < n <=> t < n - 1
      <4>1. \A t \in Full \ {freed} : t \in Nat /\ t # n - 1
        BY <1>2, <2>2 DEF Full
      <4> QED
        BY <2>0, <4>1
    <3>2. Done(n) = Done(n - 1)
      BY <3>1
    <3> QED
      BY <1>4, <2>1, <2>2, <3>2
  <2>3. CASE s # freed /\ Resident(s)
    <3>0. s \in Full /\ \A t \in Full : t < n <=> (t < n - 1 \/ t = s)
      <4>1. s \in Full
        BY <2>0, <2>3 DEF Full
      <4> QED
        BY <1>2, <2>0, <4>1
    <3>1. s \in Full /\ Done(n) = Done(n - 1) \cup {s} /\ s \notin Done(n - 1) /\ Done(n) \subseteq Full
      BY <2>0, <2>3, <3>0
    <3>2. Keyed(keyOf, Done(n - 1)) /\ Keyed(keyOf, Done(n))
      BY <3>1 DEF Keyed
    <3> DEFINE R == Done(n - 1)
    <3>3. Holds(keyOf, hash, T, R) /\ Tombs(T) = {}
      BY <1>4
    <3> HIDE DEF Done, T, s
    <3>4. \E b \in Buckets : T[b] = EMPTY
      <4>1. Cardinality({b \in Buckets : T[b] = TOMBSTONE}) = 0
        BY <3>3, FS_EmptySet DEF Tombs
      <4>2. 0 <= BucketCount \div 4
        BY Sizes
      <4> QED
        BY <3>3, <4>1, <4>2, EmptyBucket
    <3>5. keyOf[s] \in Keys /\ \A t \in R : keyOf[t] # keyOf[s]
      BY <3>1 DEF Keyed
    <3>6. f.bucket \in Buckets /\ T[f.bucket] \notin Slots /\ Reaches(hash, T, keyOf[s], f.bucket)
      BY <3>2, <3>3, <3>4, <3>5, FindMiss
    <3> HIDE DEF f
    <3>7. Keyed(keyOf, R \cup {s}) /\ s \in Slots \ R
      BY <2>0, <3>1, <3>2
    <3>8. Holds(keyOf, hash, [T EXCEPT ![f.bucket] = s], R \cup {s})
      BY <3>3, <3>6, <3>7, HoldsPut
    <3>9. Tombs([T EXCEPT ![f.bucket] = s]) = {}
      <4>1. T \in [Buckets -> Values]
        BY <3>3 DEF Holds
      <4> QED
        BY <3>3, <3>7, <4>1, Marks DEF Tombs
    <3>10. g[n] = [T EXCEPT ![f.bucket] = s]
      BY <2>1, <2>3
    <3> QED
      BY <3>1, <3>8, <3>9, <3>10
  <2> QED
    BY <2>2, <2>3
<1> HIDE DEF Fine
<1>5. Bad = {}
  <2> SUFFICES ASSUME Bad # {} PROVE FALSE
    OBVIOUS
  <2>1. Bad \in SUBSET Nat
    BY Sizes
  <2>2. PICK x \in Bad : \A y \in Bad : x <= y
    BY <2>1, NatHasLeast
  <2>3. x # 0 /\ x \in 0 .. MaxEntries
    BY <1>3
  <2>4. x \in 1 .. MaxEntries /\ x - 1 \in 0 .. MaxEntries /\ x - 1 \notin Bad
    BY <2>2, <2>3, Sizes
  <2> QED
    BY <1>4, <2>4
<1>6. Fine(MaxEntries)
  BY <1>5, Sizes
<1>7. Done(MaxEntries) = Full \ {freed}
  BY <1>2
<1> QED
  BY <1>1, <1>6, <1>7 DEF Fine

(***************************************************************************)
(* The invariant.                                                          *)
(***************************************************************************)
IndexInv ==
    /\ TypeOK
    /\ Keyed(keyOf, Full)
    /\ Holds(keyOf, hash, buckets, Full)
    /\ tombstones = Cardinality(Tombs(buckets))
    /\ tombstones <= BucketCount \div 4

\* The tombstones of a table are counted.
LEMMA TombsCounted ==
  ASSUME NEW T
  PROVE  IsFiniteSet(Tombs(T)) /\ Cardinality(Tombs(T)) \in 0 .. BucketCount
<1>1. IsFiniteSet(Buckets) /\ Cardinality(Buckets) = BucketCount
  BY Sizes, FS_Interval DEF Buckets
<1>2. Tombs(T) \subseteq Buckets
  BY DEF Tombs
<1>3. IsFiniteSet(Tombs(T)) /\ Cardinality(Tombs(T)) <= BucketCount
  BY <1>1, <1>2, FS_Subset
<1>4. Cardinality(Tombs(T)) \in Nat
  BY <1>3, FS_CardinalityType
<1> QED
  BY <1>3, <1>4, Sizes

\* In the invariant, hash_find is exact.
LEMMA FindExact ==
  ASSUME IndexInv
  PROVE  /\ hash \in [Keys -> Buckets] /\ \E b \in Buckets : buckets[b] = EMPTY
         /\ \A s \in Full :
               LET f == hash_find(buckets, keyOf[s])
               IN  f.found /\ f.slot = s /\ f.bucket \in Buckets /\ buckets[f.bucket] = s
         /\ \A key \in Keys : (\A s \in Full : keyOf[s] # key) =>
               LET f == hash_find(buckets, key)
               IN  /\ ~f.found /\ f.bucket \in Buckets /\ buckets[f.bucket] \notin Slots
                   /\ Reaches(hash, buckets, key, f.bucket)
<1>1. hash \in [Keys -> Buckets]
  BY IndexAssumption DEF IndexInv, TypeOK
<1>2. \E b \in Buckets : buckets[b] = EMPTY
  BY EmptyBucket DEF IndexInv, Tombs
<1>3. Keyed(keyOf, Full) /\ Holds(keyOf, hash, buckets, Full)
  BY DEF IndexInv
<1>4. ASSUME NEW s \in Full
      PROVE  LET f == hash_find(buckets, keyOf[s])
             IN  f.found /\ f.slot = s /\ f.bucket \in Buckets /\ buckets[f.bucket] = s
  BY <1>1, <1>3, FindHit
<1>5. ASSUME NEW key \in Keys, \A s \in Full : keyOf[s] # key
      PROVE  LET f == hash_find(buckets, key)
             IN  /\ ~f.found /\ f.bucket \in Buckets /\ buckets[f.bucket] \notin Slots
                 /\ Reaches(hash, buckets, key, f.bucket)
  BY <1>1, <1>2, <1>3, <1>5, FindMiss
<1> QED
  BY <1>1, <1>2, <1>4, <1>5

\* One bucket that was not a tombstone becomes one, or the other way round.
LEMMA TombsChange ==
  ASSUME NEW T \in [Buckets -> Values], NEW b \in Buckets, NEW v
  PROVE  /\ v = TOMBSTONE /\ T[b] # TOMBSTONE =>
               Cardinality(Tombs([T EXCEPT ![b] = v])) = Cardinality(Tombs(T)) + 1
         /\ v # TOMBSTONE =>
               Cardinality(Tombs([T EXCEPT ![b] = v])) =
               Cardinality(Tombs(T)) - (IF T[b] = TOMBSTONE THEN 1 ELSE 0)
<1> DEFINE U == [T EXCEPT ![b] = v]
<1>0. U[b] = v /\ \A c \in Buckets : c # b => U[c] = T[c]
  OBVIOUS
<1> HIDE DEF U
<1>1. IsFiniteSet(Tombs(T)) /\ Cardinality(Tombs(T)) \in Nat
  BY TombsCounted
<1>2. ASSUME v = TOMBSTONE, T[b] # TOMBSTONE PROVE Cardinality(Tombs(U)) = Cardinality(Tombs(T)) + 1
  <2>1. Tombs(U) = Tombs(T) \cup {b} /\ b \notin Tombs(T)
    BY <1>0, <1>2 DEF Tombs
  <2> QED
    BY <1>1, <2>1, FS_AddElement
<1>3. ASSUME v # TOMBSTONE, T[b] = TOMBSTONE PROVE Cardinality(Tombs(U)) = Cardinality(Tombs(T)) - 1
  <2>1. Tombs(U) = Tombs(T) \ {b} /\ b \in Tombs(T)
    BY <1>0, <1>3 DEF Tombs
  <2> QED
    BY <1>1, <2>1, FS_RemoveElement
<1>4. ASSUME v # TOMBSTONE, T[b] # TOMBSTONE PROVE Cardinality(Tombs(U)) = Cardinality(Tombs(T)) - 0
  <2>1. Tombs(U) = Tombs(T)
    BY <1>0, <1>4 DEF Tombs
  <2> QED
    BY <1>1, <2>1
<1> QED
  BY <1>2, <1>3, <1>4 DEF U

LEMMA IndexInit == Init => IndexInv
<1> SUFFICES ASSUME Init PROVE IndexInv
  OBVIOUS
<1>1. Full = {}
  BY DEF Init, Full, Resident
<1>2. Keyed(keyOf, Full)
  BY <1>1 DEF Keyed
<1>3. Holds(keyOf, hash, buckets, Full)
  BY <1>1, HoldsNone DEF Init
<1>4. Tombs(buckets) = {}
  BY Marks DEF Init, Tombs
<1>5. Cardinality(Tombs(buckets)) = 0
  BY <1>4, FS_EmptySet
<1>6. 0 <= BucketCount \div 4 /\ 0 \in 0 .. BucketCount
  BY Sizes
<1>7. TypeOK
  BY <1>6 DEF Init, TypeOK
<1> QED
  BY <1>2, <1>3, <1>5, <1>6, <1>7 DEF Init, IndexInv

\* ecache_insert_base puts a new key where a probe for it will come.
LEMMA InsertStep ==
  ASSUME IndexInv, NEW key \in Keys, Insert(key)
  PROVE  IndexInv'
<1> DEFINE free == {t \in Slots : ~Resident(t)}
           s == Min(free)
           b == hash_find(buckets, key).bucket
<1>1. /\ free # {} /\ ~hash_find(buckets, key).found
      /\ keyOf' = [keyOf EXCEPT ![s] = key] /\ buckets' = [buckets EXCEPT ![b] = s]
      /\ tombstones' = tombstones - (IF buckets[b] = TOMBSTONE THEN 1 ELSE 0) /\ hash' = hash
  BY DEF Insert
<1>2. s \in Slots /\ ~Resident(s)
  <2>1. free \in SUBSET Nat
    BY Marks
  <2>2. s \in free
    BY <1>1, <2>1, MinIsLeast
  <2> QED
    BY <2>2
<1> HIDE DEF s
<1>3. \A t \in Full : keyOf[t] # key
  BY <1>1, FindExact
<1>4. b \in Buckets /\ buckets[b] \notin Slots /\ Reaches(hash, buckets, key, b)
  BY <1>3, FindExact
<1> HIDE DEF b
<1>5. /\ keyOf \in [Slots -> Keys \cup {NoKey}] /\ hash \in [Keys -> Buckets]
      /\ Keyed(keyOf, Full) /\ Holds(keyOf, hash, buckets, Full) /\ hash \in Hashes
      /\ tombstones = Cardinality(Tombs(buckets)) /\ tombstones <= BucketCount \div 4
      /\ buckets \in [Buckets -> Values]
  BY FindExact DEF IndexInv, TypeOK, Values
<1>6. keyOf' \in [Slots -> Keys \cup {NoKey}] /\ keyOf'[s] = key /\ \A t \in Slots \ {s} : keyOf'[t] = keyOf[t]
  BY <1>1, <1>2, <1>5
<1>7. Full' = Full \cup {s} /\ s \notin Full /\ Full \subseteq Slots
  BY <1>2, <1>6, IndexAssumption DEF Full, Resident
<1>8. Keyed(keyOf', Full \cup {s})
  BY <1>2, <1>3, <1>5, <1>6, <1>7 DEF Keyed
<1>9. Holds(keyOf', hash, buckets, Full)
  BY <1>5, <1>6, <1>7, HoldsSame
<1>10. Holds(keyOf', hash, buckets', Full \cup {s})
  BY <1>1, <1>2, <1>4, <1>5, <1>6, <1>7, <1>8, <1>9, HoldsPut
<1>11. Cardinality(Tombs(buckets')) = tombstones'
  <2>1. s # TOMBSTONE
    BY <1>2, Marks
  <2> QED
    BY <1>1, <1>4, <1>5, <2>1, TombsChange
<1>12. tombstones' <= BucketCount \div 4
  <2>1. tombstones \in Int /\ BucketCount \div 4 \in Int
    BY <1>5, TombsCounted, Sizes
  <2> QED
    BY <1>1, <1>5, <2>1
<1>13. TypeOK'
  <2>1. buckets' \in [Buckets -> Slots \cup {EMPTY, TOMBSTONE}]
    BY <1>10 DEF Holds, Values
  <2>2. tombstones' \in 0 .. BucketCount
    BY <1>11, TombsCounted
  <2> QED
    BY <1>1, <1>5, <1>6, <2>1, <2>2 DEF TypeOK
<1>14. Tombs(buckets)' = Tombs(buckets')
  BY DEF Tombs
<1>15. /\ Keyed(keyOf, Full)' /\ Holds(keyOf, hash, buckets, Full)'
  BY <1>1, <1>7, <1>8, <1>10 DEF Keyed, Holds, Reaches, At
<1> QED
  BY <1>11, <1>12, <1>13, <1>14, <1>15 DEF IndexInv

\* release_base leaves a tombstone, or a rebuilt table.
LEMMA ReleaseStep ==
  ASSUME IndexInv, NEW s \in Slots, Release(s)
  PROVE  IndexInv'
<1> DEFINE b == hash_find(buckets, keyOf[s]).bucket
           erased == [buckets EXCEPT ![b] = TOMBSTONE]
           rebuild == tombstones + 1 > BucketCount \div 4
<1>1. /\ Resident(s) /\ keyOf' = [keyOf EXCEPT ![s] = NoKey] /\ hash' = hash
      /\ buckets' = (IF rebuild THEN hash_rebuild(s) ELSE erased)
      /\ tombstones' = (IF rebuild THEN 0 ELSE tombstones + 1)
  BY Zenon DEF Release
<1>2. s \in Full
  BY <1>1 DEF Full
<1>3. b \in Buckets /\ buckets[b] = s
  BY <1>2, FindExact
<1> HIDE DEF b
<1>4. /\ keyOf \in [Slots -> Keys \cup {NoKey}] /\ hash \in [Keys -> Buckets]
      /\ Keyed(keyOf, Full) /\ Holds(keyOf, hash, buckets, Full) /\ hash \in Hashes
      /\ tombstones = Cardinality(Tombs(buckets)) /\ tombstones \in Nat
      /\ buckets \in [Buckets -> Values]
  BY FindExact DEF IndexInv, TypeOK, Values
<1>5. keyOf' \in [Slots -> Keys \cup {NoKey}] /\ keyOf'[s] = NoKey /\ \A t \in Slots \ {s} : keyOf'[t] = keyOf[t]
  BY <1>1, <1>4
<1>6. Full' = Full \ {s} /\ Full \subseteq Slots
  BY <1>5 DEF Full, Resident
<1>7. Keyed(keyOf', Full \ {s})
  BY <1>4, <1>5, <1>6 DEF Keyed
<1>8. /\ Holds(keyOf, hash, buckets', Full \ {s})
      /\ Cardinality(Tombs(buckets')) = tombstones' /\ tombstones' <= BucketCount \div 4
  <2>1. CASE rebuild
    <3>1. buckets' = hash_rebuild(s) /\ tombstones' = 0
      BY <1>1, <2>1
    <3>2. Holds(keyOf, hash, buckets', Full \ {s}) /\ Tombs(buckets') = {}
      BY <1>4, <3>1, Rebuilt
    <3>3. 0 <= BucketCount \div 4
      BY Sizes
    <3> QED
      BY <3>1, <3>2, <3>3, FS_EmptySet
  <2>2. CASE ~rebuild
    <3>1. buckets' = erased /\ tombstones' = tombstones + 1
      BY <1>1, <2>2
    <3>2. Holds(keyOf, hash, erased, Full \ {s})
      BY <1>2, <1>3, <1>4, HoldsErase
    <3>3. Cardinality(Tombs(erased)) = tombstones + 1
      <4>1. buckets[b] # TOMBSTONE
        BY <1>3, Marks
      <4> QED
        BY <1>3, <1>4, <4>1, TombsChange
    <3>4. tombstones + 1 <= BucketCount \div 4
      BY <1>4, <2>2, Sizes
    <3> QED
      BY <3>1, <3>2, <3>3, <3>4
  <2> QED
    BY <2>1, <2>2
<1>9. Holds(keyOf', hash, buckets', Full \ {s})
  BY <1>5, <1>6, <1>8, HoldsSame
<1>10. TypeOK'
  <2>1. buckets' \in [Buckets -> Slots \cup {EMPTY, TOMBSTONE}]
    BY <1>9 DEF Holds, Values
  <2>2. tombstones' \in 0 .. BucketCount
    BY <1>8, TombsCounted
  <2> QED
    BY <1>1, <1>4, <1>5, <2>1, <2>2 DEF TypeOK
<1>11. Tombs(buckets)' = Tombs(buckets')
  BY DEF Tombs
<1>12. Keyed(keyOf, Full)' /\ Holds(keyOf, hash, buckets, Full)'
  BY <1>1, <1>6, <1>7, <1>9 DEF Keyed, Holds, Reaches, At
<1> QED
  BY <1>8, <1>10, <1>11, <1>12 DEF IndexInv

\* The invariant holds in every behaviour, for every hash function and table size.
LEMMA IndexInvariant == Spec => []IndexInv
<1>1. IndexInv /\ [Next]_vars => IndexInv'
  <2>1. ASSUME IndexInv, UNCHANGED vars PROVE IndexInv'
    BY <2>1 DEF vars, IndexInv, TypeOK, Keyed, Holds, Reaches, At, Full, Resident, Tombs
  <2> QED
    BY <2>1, InsertStep, ReleaseStep DEF Next
<1> QED
  BY <1>1, IndexInit, PTL DEF Spec

\* The lookup is exact (hash_find): it returns the slot of every resident key, through
\* whatever tombstones and collisions lie on its path, and misses every other key with a
\* bucket to insert it into; for every hash function, number of entries and table size.
THEOREM LookupExactHolds == Spec => []LookupExact
<1>1. ASSUME IndexInv PROVE LookupExact
  <2> SUFFICES ASSUME NEW key \in Keys
               PROVE  LET f == hash_find(buckets, key)
                          at == {s \in Slots : keyOf[s] = key}
                      IN  IF at = {} THEN ~f.found /\ f.bucket # EMPTY
                          ELSE f.found /\ at = {f.slot}
    BY Zenon DEF LookupExact
  <2> DEFINE at == {s \in Slots : keyOf[s] = key}
             f == hash_find(buckets, key)
  <2>1. at \subseteq Full
    BY IndexAssumption DEF Full, Resident
  <2>2. CASE at = {}
    <3>1. \A s \in Full : keyOf[s] # key
      BY <2>2 DEF Full
    <3>2. ~f.found /\ f.bucket \in Buckets
      BY <1>1, <3>1, FindExact
    <3> QED
      BY <2>2, <3>2, Marks
  <2>3. CASE at # {}
    <3>1. PICK s \in at : TRUE
      BY <2>3
    <3>2. s \in Full /\ keyOf[s] = key
      BY <2>1, <3>1
    <3>3. f.found /\ f.slot = s
      BY <1>1, <3>2, FindExact
    <3>4. at = {s}
      BY <1>1, <2>1, <3>2 DEF IndexInv, Keyed
    <3> QED
      BY <2>3, <3>3, <3>4
  <2> QED
    BY <2>2, <2>3
<1> QED
  BY <1>1, IndexInvariant, PTL

\* The table is sound (ecache_validate): every occupied slot is in exactly one bucket, no
\* bucket names a free slot, the tombstone count is exact and within a quarter of the
\* table, and an empty bucket ends every probe; for every table size.
THEOREM TableSoundHolds == Spec => []TableSound
<1>1. ASSUME IndexInv PROVE TableSound
  <2>1. ASSUME NEW s \in Slots
        PROVE  Cardinality({b \in Buckets : buckets[b] = s}) = IF Resident(s) THEN 1 ELSE 0
    <3>0. Holds(keyOf, hash, buckets, Full)
      BY <1>1 DEF IndexInv
    <3>1. CASE Resident(s)
      <4>1. PICK b \in Buckets : buckets[b] = s
        BY <3>0, <3>1 DEF Holds, Full
      <4>2. {c \in Buckets : buckets[c] = s} = {b}
        BY <3>0, <4>1 DEF Holds
      <4>3. Cardinality({b}) = 1
        BY FS_Singleton
      <4> QED
        BY <3>1, <4>2, <4>3
    <3>2. CASE ~Resident(s)
      <4>1. {c \in Buckets : buckets[c] = s} = {}
        BY <3>0, <3>2 DEF Holds, Full
      <4> QED
        BY <3>2, <4>1, FS_EmptySet
    <3> QED
      BY <3>1, <3>2
  <2>2. \E b \in Buckets : buckets[b] = EMPTY
    BY <1>1, FindExact
  <2> QED
    BY <1>1, <2>1, <2>2 DEF IndexInv, TableSound, Tombs
<1> QED
  BY <1>1, IndexInvariant, PTL
=============================================================================
