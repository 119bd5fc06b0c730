-------------------------- MODULE ExpertCacheProofs --------------------------
(***************************************************************************)
(* Theorems about ExpertCache for every configuration: any number of       *)
(* slots, layers and experts, any budget, floors, policy, clock and pin    *)
(* width.                                                                  *)
(***************************************************************************)
EXTENDS ExpertCache, FiniteSetTheorems, WellFoundedInduction, TLAPS

(***************************************************************************)
(* Least elements.  The scans of the code ("for i = 0 .. max_entries, keep *)
(* the best") pick the least element of a set of naturals; these lemmas    *)
(* say that it exists.  With it, an induction is an argument about a       *)
(* smallest counterexample, and what a recursive function on finite sets   *)
(* computes can be proved: here, sums.                                     *)
(***************************************************************************)
\* The pairs of naturals ordered by < form a well-founded relation.
LEMMA LessIsWellFounded == IsWellFoundedOn({r \in Nat \X Nat : r[1] < r[2]}, Nat)
<1>1. {r \in Nat \X Nat : r[1] < r[2]} = OpToRel(<, Nat)
  BY DEF OpToRel
<1> QED
  BY <1>1, NatLessThanWellFounded

\* A non-empty set of naturals has a least element.
LEMMA NatHasLeast ==
  ASSUME NEW T \in SUBSET Nat, T # {}
  PROVE  \E x \in T : \A y \in T : x <= y
<1> DEFINE R == {r \in Nat \X Nat : r[1] < r[2]}
<1>1. IsWellFoundedOn(R, Nat)
  BY LessIsWellFounded
<1> HIDE DEF R
<1>2. PICK x \in T : \A y \in T : ~(<<y, x>> \in R)
  BY <1>1, WFMin
<1>3. ASSUME NEW y \in T PROVE x <= y
  <2>1. x \in Nat /\ y \in Nat
    OBVIOUS
  <2>2. ~(<<y, x>> \in R)
    BY <1>2
  <2>3. <<y, x>> \in R <=> y < x
    BY <2>1 DEF R
  <2> QED
    BY <2>1, <2>2, <2>3
<1> QED
  BY <1>3

\* FiniteSetsExt's Min picks it.
LEMMA MinIsLeast ==
  ASSUME NEW T \in SUBSET Nat, T # {}
  PROVE  Min(T) \in T /\ \A y \in T : Min(T) <= y
BY NatHasLeast DEF Min

(***************************************************************************)
(* Sums.  SumFunctionOnSet adds up in the order of CHOOSE, by a recursive  *)
(* function on the subsets: it exists, and its value does not depend on    *)
(* the order.                                                              *)
(***************************************************************************)
Pick(s) == CHOOSE x \in s : TRUE
SumStep(g, c, D) == [s \in D |-> IF s = {} THEN 0 ELSE c[Pick(s)] + g[s \ {Pick(s)}]]

\* The recursive function exists, by induction on the cardinality of its arguments.
LEMMA SumExists ==
  ASSUME NEW c, NEW S, IsFiniteSet(S)
  PROVE  \E g : g = SumStep(g, c, SUBSET S)
<1> DEFINE D(n) == {s \in SUBSET S : Cardinality(s) <= n}
           Has(n) == \E g : g = SumStep(g, c, D(n))
           Bad == {n \in Nat : ~Has(n)}
<1>1. \A s \in SUBSET S : IsFiniteSet(s) /\ Cardinality(s) \in Nat
  BY FS_Subset, FS_CardinalityType
<1>2. \A s \in SUBSET S : s # {} => Pick(s) \in s /\ s \ {Pick(s)} \in SUBSET S
                                    /\ Cardinality(s \ {Pick(s)}) = Cardinality(s) - 1
  BY <1>1, FS_RemoveElement DEF Pick
<1>3. Has(0)
  <2>1. \A s \in D(0) : s = {}
    BY <1>1, FS_EmptySet
  <2> DEFINE g == [s \in D(0) |-> 0]
  <2>2. g = SumStep(g, c, D(0))
    BY <2>1 DEF SumStep
  <2> QED
    BY <2>2
<1>4. ASSUME NEW n \in Nat, Has(n) PROVE Has(n + 1)
  <2>1. PICK g : g = SumStep(g, c, D(n))
    BY <1>4
  <2> DEFINE h == SumStep(g, c, D(n + 1))
  <2>2. ASSUME NEW s \in D(n) PROVE s \in D(n + 1) /\ h[s] = g[s]
    <3>1. s \in D(n + 1)
      BY <1>1
    <3>2. h[s] = IF s = {} THEN 0 ELSE c[Pick(s)] + g[s \ {Pick(s)}]
      BY <3>1 DEF SumStep
    <3>3. g[s] = IF s = {} THEN 0 ELSE c[Pick(s)] + g[s \ {Pick(s)}]
      BY <2>1 DEF SumStep
    <3> QED
      BY <3>1, <3>2, <3>3
  <2>3. ASSUME NEW s \in D(n + 1), s # {} PROVE h[s \ {Pick(s)}] = g[s \ {Pick(s)}]
    <3>1. s \ {Pick(s)} \in D(n)
      BY <1>1, <1>2, <2>3
    <3> QED
      BY <3>1, <2>2
  <2>4. h = SumStep(h, c, D(n + 1))
    <3> HIDE DEF D
    <3> QED
    BY <2>3 DEF SumStep
  <2> QED
    BY <2>4
<1> HIDE DEF Has
<1>5. Bad = {}
  <2> SUFFICES ASSUME Bad # {} PROVE FALSE
    OBVIOUS
  <2>1. PICK x \in Bad : \A y \in Bad : x <= y
    BY NatHasLeast
  <2>2. x # 0 /\ x \in Nat
    BY <1>3
  <2>3. x - 1 \in Nat /\ x - 1 \notin Bad
    BY <2>1, <2>2
  <2> QED
    BY <2>3, <1>4, <2>2
<1>6. Has(Cardinality(S))
  BY <1>5, <1>1
<1>7. D(Cardinality(S)) = SUBSET S
  BY FS_Subset
<1> QED
  BY <1>6, <1>7 DEF Has

IsSum(g, c, S) == g = SumStep(g, c, SUBSET S)

\* SumFunctionOnSet is a value of such a function.
LEMMA SumIsStep ==
  ASSUME NEW c, NEW S, IsFiniteSet(S)
  PROVE  \E g : IsSum(g, c, S) /\ SumFunctionOnSet(c, S) = g[S]
<1> DEFINE g == CHOOSE g : g = SumStep(g, c, SUBSET S)
<1>1. g = SumStep(g, c, SUBSET S)
  BY SumExists
<1>2. SumFunctionOnSet(c, S) = g[S]
  BY DEF SumFunctionOnSet, FoldFunctionOnSet, MapThenFoldSet, SumStep, Pick
<1> QED
  BY <1>1, <1>2 DEF IsSum

\* A non-empty family of finite sets has a smallest member.
LEMMA SmallestSet ==
  ASSUME NEW C, C # {}, \A s \in C : Cardinality(s) \in Nat
  PROVE  \E s \in C : \A t \in C : Cardinality(s) <= Cardinality(t)
<1> DEFINE N == {Cardinality(s) : s \in C}
<1>1. N \in SUBSET Nat /\ N # {}
  OBVIOUS
<1>2. PICK n \in N : \A m \in N : n <= m
  BY <1>1, NatHasLeast
<1>3. PICK s \in C : n = Cardinality(s)
  OBVIOUS
<1> QED
  BY <1>2, <1>3

\* What a sum over a set of n elements is made of, with the induction on n.
LEMMA SumUnique ==
  ASSUME NEW c, NEW d, NEW S, IsFiniteSet(S), NEW R \in SUBSET S,
         NEW g, IsSum(g, c, S), NEW h, IsSum(h, d, R),
         \A x \in R : c[x] = d[x]
  PROVE  g[R] = h[R]
<1> DEFINE Differ == {s \in SUBSET R : g[s] # h[s]}
<1>1. \A s \in SUBSET R : IsFiniteSet(s) /\ Cardinality(s) \in Nat
  BY FS_Subset, FS_CardinalityType
<1> SUFFICES ASSUME Differ # {} PROVE FALSE
  OBVIOUS
<1>3. PICK s \in Differ : \A t \in Differ : Cardinality(s) <= Cardinality(t)
  BY <1>1, SmallestSet
<1>4. g[s] = IF s = {} THEN 0 ELSE c[Pick(s)] + g[s \ {Pick(s)}]
  BY DEF IsSum, SumStep
<1>5. h[s] = IF s = {} THEN 0 ELSE d[Pick(s)] + h[s \ {Pick(s)}]
  BY DEF IsSum, SumStep
<1>6. s # {}
  BY <1>4, <1>5
<1>7. Pick(s) \in s
  BY <1>6 DEF Pick
<1>8. Cardinality(s \ {Pick(s)}) = Cardinality(s) - 1 /\ Cardinality(s) \in Nat
  BY <1>1, <1>7, FS_RemoveElement
<1>9. s \ {Pick(s)} \notin Differ
  BY <1>3, <1>8
<1> QED
  BY <1>4, <1>5, <1>6, <1>7, <1>9

\* The empty sum.
LEMMA SumEmpty == ASSUME NEW c PROVE SumFunctionOnSet(c, {}) = 0
<1>1. IsFiniteSet({})
  BY FS_EmptySet
<1>2. PICK g : IsSum(g, c, {}) /\ SumFunctionOnSet(c, {}) = g[{}]
  BY <1>1, SumIsStep
<1> QED
  BY <1>2 DEF IsSum, SumStep

\* Only the summands matter.
LEMMA SumSame ==
  ASSUME NEW c, NEW d, NEW S, IsFiniteSet(S), \A x \in S : c[x] = d[x]
  PROVE  SumFunctionOnSet(c, S) = SumFunctionOnSet(d, S)
<1>1. PICK g : IsSum(g, c, S) /\ SumFunctionOnSet(c, S) = g[S]
  BY SumIsStep
<1>2. PICK h : IsSum(h, d, S) /\ SumFunctionOnSet(d, S) = h[S]
  BY SumIsStep
<1>3. S \in SUBSET S
  OBVIOUS
<1> QED
  BY <1>1, <1>2, <1>3, SumUnique

\* The sum over all but the element that CHOOSE picks.
LEMMA SumPick ==
  ASSUME NEW c, NEW S, IsFiniteSet(S), S # {}
  PROVE  SumFunctionOnSet(c, S) = c[Pick(S)] + SumFunctionOnSet(c, S \ {Pick(S)})
<1> DEFINE T == S \ {Pick(S)}
<1>1. IsFiniteSet(T)
  BY FS_Subset
<1>2. PICK g : IsSum(g, c, S) /\ SumFunctionOnSet(c, S) = g[S]
  BY SumIsStep
<1>3. PICK h : IsSum(h, c, T) /\ SumFunctionOnSet(c, T) = h[T]
  BY <1>1, SumIsStep
<1>4. ASSUME NEW R \in SUBSET S, IsSum(h, c, R) PROVE g[R] = h[R]
  <2>1. \A x \in R : c[x] = c[x]
    OBVIOUS
  <2>2. IsSum(g, c, S)
    BY <1>2
  <2> QED
    BY <1>4, <2>1, <2>2, SumUnique
<1>6. g[T] = h[T]
  BY <1>3, <1>4
<1>5. g[S] = c[Pick(S)] + g[T]
  BY <1>2 DEF IsSum, SumStep
<1> QED
  BY <1>2, <1>3, <1>5, <1>6

\* The sum of integers is one.
LEMMA SumType ==
  ASSUME NEW c, NEW S, IsFiniteSet(S), \A x \in S : c[x] \in Int
  PROVE  SumFunctionOnSet(c, S) \in Int
<1> DEFINE Off == {s \in SUBSET S : SumFunctionOnSet(c, s) \notin Int}
<1>1. \A s \in SUBSET S : IsFiniteSet(s) /\ Cardinality(s) \in Nat
  BY FS_Subset, FS_CardinalityType
<1> SUFFICES ASSUME Off # {} PROVE FALSE
  OBVIOUS
<1>3. PICK s \in Off : \A t \in Off : Cardinality(s) <= Cardinality(t)
  BY <1>1, SmallestSet
<1>4. s # {}
  BY SumEmpty
<1>5. Pick(s) \in s
  BY <1>4 DEF Pick
<1>6. Cardinality(s \ {Pick(s)}) = Cardinality(s) - 1 /\ Cardinality(s) \in Nat
  BY <1>1, <1>5, FS_RemoveElement
<1>7. s \ {Pick(s)} \notin Off
  BY <1>3, <1>6
<1> QED
  BY <1>1, <1>4, <1>5, <1>7, SumPick

\* The sum of naturals is a natural.
LEMMA SumNatural ==
  ASSUME NEW c, NEW S, IsFiniteSet(S), \A x \in S : c[x] \in Nat
  PROVE  SumFunctionOnSet(c, S) \in Nat
<1> DEFINE Off == {s \in SUBSET S : SumFunctionOnSet(c, s) \notin Nat}
<1>1. \A s \in SUBSET S : IsFiniteSet(s) /\ Cardinality(s) \in Nat
  BY FS_Subset, FS_CardinalityType
<1> SUFFICES ASSUME Off # {} PROVE FALSE
  OBVIOUS
<1>3. PICK s \in Off : \A t \in Off : Cardinality(s) <= Cardinality(t)
  BY <1>1, SmallestSet
<1>4. s # {}
  BY SumEmpty
<1>5. Pick(s) \in s
  BY <1>4 DEF Pick
<1>6. Cardinality(s \ {Pick(s)}) = Cardinality(s) - 1 /\ Cardinality(s) \in Nat
  BY <1>1, <1>5, FS_RemoveElement
<1>7. s \ {Pick(s)} \notin Off
  BY <1>3, <1>6
<1> QED
  BY <1>1, <1>4, <1>5, <1>7, SumPick

\* The sum over all but any one element: the order does not matter.
LEMMA SumRemove ==
  ASSUME NEW c, NEW S, IsFiniteSet(S), \A x \in S : c[x] \in Int, NEW a \in S
  PROVE  SumFunctionOnSet(c, S) = c[a] + SumFunctionOnSet(c, S \ {a})
<1> DEFINE sum(s) == SumFunctionOnSet(c, s)
           Off == {s \in SUBSET S : \E x \in s : sum(s) # c[x] + sum(s \ {x})}
<1>1. \A s \in SUBSET S : IsFiniteSet(s) /\ Cardinality(s) \in Nat
  BY FS_Subset, FS_CardinalityType
<1>0. \A s \in SUBSET S : sum(s) \in Int
  BY <1>1, SumType
<1> HIDE DEF sum
<1> SUFFICES ASSUME Off # {} PROVE FALSE
  BY DEF sum
<1>3. PICK s \in Off : \A t \in Off : Cardinality(s) <= Cardinality(t)
  BY <1>1, SmallestSet
<1>4. PICK x \in s : sum(s) # c[x] + sum(s \ {x})
  OBVIOUS
<1> DEFINE y == Pick(s)
<1>5. y \in s /\ sum(s) = c[y] + sum(s \ {y})
  BY <1>1, <1>4, SumPick DEF Pick, sum
<1> HIDE DEF y
<1>6. x # y
  BY <1>4, <1>5
<1>7. Cardinality(s \ {x}) < Cardinality(s) /\ Cardinality(s \ {y}) < Cardinality(s)
  BY <1>1, <1>4, <1>5, FS_RemoveElement
<1>8. s \ {x} \notin Off /\ s \ {y} \notin Off
  BY <1>1, <1>3, <1>7
<1>9. sum(s \ {y}) = c[x] + sum((s \ {y}) \ {x}) /\ sum(s \ {x}) = c[y] + sum((s \ {x}) \ {y})
  BY <1>4, <1>5, <1>6, <1>8
<1>10. (s \ {y}) \ {x} = (s \ {x}) \ {y}
  OBVIOUS
<1>11. /\ sum(s \ {x}) \in Int /\ sum(s \ {y}) \in Int /\ sum((s \ {x}) \ {y}) \in Int
       /\ c[x] \in Int /\ c[y] \in Int
  BY <1>0, <1>4, <1>5
<1>12. sum(s) = c[y] + (c[x] + sum((s \ {x}) \ {y}))
  BY <1>5, <1>9, <1>10
<1>13. sum(s) # c[x] + (c[y] + sum((s \ {x}) \ {y}))
  BY <1>4, <1>9
<1> DEFINE p == c[x]
           q == c[y]
           r == sum((s \ {x}) \ {y})
<1>14. p \in Int /\ q \in Int /\ r \in Int
  BY <1>11
<1>15. p + (q + r) # q + (p + r)
  BY <1>12, <1>13
<1> HIDE DEF p, q, r
<1> QED
  BY <1>14, <1>15

\* What becomes of a sum when one summand comes.
LEMMA SumAdd ==
  ASSUME NEW c, NEW d, NEW S, IsFiniteSet(S), \A x \in S : c[x] \in Int /\ d[x] = c[x],
         NEW a, a \notin S, d[a] \in Int
  PROVE  SumFunctionOnSet(d, S \cup {a}) = SumFunctionOnSet(c, S) + d[a]
<1> DEFINE T == S \cup {a}
<1>1. IsFiniteSet(T) /\ T \ {a} = S /\ a \in T
  BY FS_AddElement
<1>2. \A x \in T : d[x] \in Int
  OBVIOUS
<1>3. SumFunctionOnSet(d, T) = d[a] + SumFunctionOnSet(d, T \ {a})
  <2> HIDE DEF T
  <2> QED
    BY <1>1, <1>2, SumRemove
<1>4. SumFunctionOnSet(d, S) = SumFunctionOnSet(c, S) /\ SumFunctionOnSet(c, S) \in Int
  BY SumSame, SumType
<1>5. SumFunctionOnSet(d, T) = d[a] + SumFunctionOnSet(c, S)
  <2> HIDE DEF T
  <2> QED
    BY <1>1, <1>3, <1>4
<1> QED
  BY <1>4, <1>5

(***************************************************************************)
(* Victims.                                                                *)
(***************************************************************************)
\* The scan of choose_residual and choose_base finds its victim: candidate_precedes
\* orders any non-empty set of slots, by queue, then by stamp, then by slot number.
LEMMA FirstExists ==
  ASSUME TypeOK, NEW C \in SUBSET Slots, C # {}
  PROVE  \E a \in C : \A b \in C \ {a} : candidate_precedes(a, b)
<1> DEFINE rank(s) == IF TwoQ /\ entries[s].hot THEN 1 ELSE 0
           stamp(s) == IF TwoQ /\ ~entries[s].hot THEN entries[s].admission_order
                       ELSE entries[s].last_access
<1>1. \A s \in C : s \in Nat /\ rank(s) \in Nat /\ stamp(s) \in Nat
  BY ConfigAssumption DEF TypeOK, Slots, Entries
<1>2. \A a, b \in C : candidate_precedes(a, b) <=>
         \/ rank(a) < rank(b)
         \/ rank(a) = rank(b) /\ stamp(a) < stamp(b)
         \/ rank(a) = rank(b) /\ stamp(a) = stamp(b) /\ a < b
  <2> SUFFICES ASSUME NEW a \in C, NEW b \in C
               PROVE  candidate_precedes(a, b) <=>
                         \/ rank(a) < rank(b)
                         \/ rank(a) = rank(b) /\ stamp(a) < stamp(b)
                         \/ rank(a) = rank(b) /\ stamp(a) = stamp(b) /\ a < b
    OBVIOUS
  <2>1. /\ entries[a].hot \in BOOLEAN /\ entries[b].hot \in BOOLEAN /\ TwoQ \in BOOLEAN
        /\ entries[a].last_access \in Nat /\ entries[b].last_access \in Nat
        /\ entries[a].admission_order \in Nat /\ entries[b].admission_order \in Nat
    BY ConfigAssumption DEF TypeOK, Entries
  <2>2. CASE ~TwoQ
    BY <1>1, <2>1, <2>2 DEF candidate_precedes
  <2>3. CASE TwoQ /\ entries[a].hot /\ entries[b].hot
    BY <1>1, <2>1, <2>3 DEF candidate_precedes
  <2>4. CASE TwoQ /\ entries[a].hot /\ ~entries[b].hot
    <3>1. entries[a].hot # entries[b].hot /\ ~candidate_precedes(a, b)
      BY <2>4, Zenon DEF candidate_precedes
    <3>2. rank(a) = 1 /\ rank(b) = 0
      BY <2>4
    <3> QED
      BY <3>1, <3>2
  <2>5. CASE TwoQ /\ ~entries[a].hot /\ entries[b].hot
    <3>1. entries[a].hot # entries[b].hot /\ candidate_precedes(a, b)
      BY <2>5, Zenon DEF candidate_precedes
    <3>2. rank(a) = 0 /\ rank(b) = 1
      BY <2>5
    <3> QED
      BY <3>1, <3>2
  <2>6. CASE TwoQ /\ ~entries[a].hot /\ ~entries[b].hot
    BY <1>1, <2>1, <2>6 DEF candidate_precedes
  <2> QED
    BY <2>1, <2>2, <2>3, <2>4, <2>5, <2>6
<1> HIDE DEF rank, stamp
<1>3. PICK a1 \in C : \A b \in C : rank(a1) <= rank(b)
  <2> DEFINE T == {rank(s) : s \in C}
  <2>1. T \in SUBSET Nat /\ T # {}
    BY <1>1
  <2>2. \E x \in T : \A y \in T : x <= y
    BY <2>1, NatHasLeast
  <2> QED
    BY <2>2
<1> DEFINE D == {s \in C : rank(s) = rank(a1)}
<1>4. PICK a2 \in D : \A b \in D : stamp(a2) <= stamp(b)
  <2> DEFINE T == {stamp(s) : s \in D}
  <2>1. T \in SUBSET Nat /\ T # {}
    BY <1>1
  <2>2. \E x \in T : \A y \in T : x <= y
    BY <2>1, NatHasLeast
  <2> QED
    BY <2>2
<1> DEFINE E == {s \in D : stamp(s) = stamp(a2)}
<1>5. PICK a \in E : \A b \in E : a <= b
  <2>1. E \in SUBSET Nat /\ E # {}
    BY <1>1
  <2> QED
    BY <2>1, NatHasLeast
<1>6. ASSUME NEW b \in C \ {a} PROVE candidate_precedes(a, b)
  BY <1>1, <1>2, <1>3, <1>4, <1>5
<1> QED
  BY <1>6

\* The victim is one of the candidates.
LEMMA FirstIsMember ==
  ASSUME TypeOK, NEW C \in SUBSET Slots, C # {}
  PROVE  First(C) \in C
BY FirstExists DEF First

\* choose_residual returns an unpinned residual when it returns a slot.
LEMMA ResidualVictim ==
  ASSUME TypeOK, choose_residual # NoSlot
  PROVE  choose_residual \in EligibleResiduals
BY FirstIsMember DEF choose_residual, EligibleResiduals

\* choose_base returns an evictable base when it returns a slot.
LEMMA BaseVictim ==
  ASSUME TypeOK, NEW protected, choose_base(protected, {}) # NoSlot
  PROVE  choose_base(protected, {}) \in Evictable(protected, {})
BY FirstIsMember DEF choose_base, Evictable

(***************************************************************************)
(* The inductive invariant.  Slots are blank or hold a real key and base;  *)
(* a call in progress still has what its checks established when it began: *)
(* an insertion's key is absent and its handle unused, a promotion's entry *)
(* is resident without a residual, a destruction has nothing pinned.       *)
(***************************************************************************)
SlotsSound ==
    \A s \in Slots :
        /\ occupied(s) => entries[s].key \in Keys /\ entries[s].base \in Payloads
        /\ ~occupied(s) => entries[s] = Blank

CallSound ==
    /\ call.op = "insert" =>
          /\ call.key \in Keys /\ call.payload \in Payloads
          /\ Resident(call.key) = {} /\ ~payload_in_use(call.payload)
    /\ call.op = "promote" =>
          /\ call.key \in Keys /\ call.payload \in Payloads /\ call.slot \in Slots
          /\ occupied(call.slot) /\ entries[call.slot].key = call.key
          /\ ~has_residual(call.slot) /\ ~payload_in_use(call.payload)
    /\ call.op = "destroy" => \A s \in Slots : occupied(s) => entries[s].pins = 0
    /\ call.op = "dead" => \A s \in Slots : ~occupied(s)

Inv == TypeOK /\ SlotsSound /\ NoAliases /\ OwnershipExact /\ CallSound

\* The initial cache satisfies the invariant.
LEMMA InitInv == Init => Inv
<1> SUFFICES ASSUME Init PROVE Inv
  OBVIOUS
<1> USE ConfigAssumption
<1>1. \A s \in Slots : entries[s] = Blank
  BY DEF Init, NoEntries
<1>2. Blank \in Entries
  BY DEF Blank, Entries
<1>3. TypeOK
  BY <1>2 DEF TypeOK, Init, NoEntries, NoCounters, LayerCounters, Idle, Request,
              Calls, Ops
<1>4. \A s \in Slots : ~occupied(s)
  BY <1>1 DEF occupied, Blank
<1>5. SlotsSound /\ NoAliases
  BY <1>1, <1>4 DEF SlotsSound, NoAliases, Used
<1>6. OwnershipExact
  BY <1>4 DEF OwnershipExact, Used, Residuals, Init
<1>7. CallSound
  BY DEF CallSound, Init, Idle, Request
<1> QED
  BY <1>3, <1>5, <1>6, <1>7 DEF Inv

\* Releasing the residual of a slot keeps everything but the call itself.
LEMMA ReleaseResidualKeeps ==
  ASSUME TypeOK, SlotsSound, NoAliases, OwnershipExact, call' \in Calls,
         NEW v \in Slots, occupied(v), has_residual(v), release_residual(v)
  PROVE  /\ TypeOK' /\ SlotsSound' /\ NoAliases' /\ OwnershipExact'
         /\ entries' = [entries EXCEPT ![v].residual = NoPayload, ![v].residual_charge = 0]
<1> USE ConfigAssumption
<1>1. entries' = [entries EXCEPT ![v].residual = NoPayload, ![v].residual_charge = 0]
  BY DEF release_residual
<1>2. TypeOK'
  <2>1. entries' \in [Slots -> Entries]
    <3>1. entries[v] \in Entries
      BY DEF TypeOK
    <3>2. [entries[v] EXCEPT !.residual = NoPayload, !.residual_charge = 0] \in Entries
      BY <3>1 DEF Entries
    <3>3. entries' = [entries EXCEPT ![v] = [entries[v] EXCEPT !.residual = NoPayload,
                                                               !.residual_charge = 0]]
      BY <1>1 DEF TypeOK
    <3> QED
      BY <3>2, <3>3 DEF TypeOK
  <2>2. entries[v].residual_charge \in Nat /\ entries[v].key \in Keys
    BY DEF TypeOK, Entries, SlotsSound
  <2>3. layers' \in [Layers -> LayerCounters]
    BY <2>2 DEF TypeOK, release_residual, LayerCounters, Keys
  <2> QED
    BY <2>1, <2>2, <2>3 DEF TypeOK, release_residual
<1>3. /\ \A s \in Slots : /\ entries'[s].occupied = entries[s].occupied
                          /\ entries'[s].key = entries[s].key
                          /\ entries'[s].base = entries[s].base
      /\ \A s \in Slots \ {v} : entries'[s] = entries[s]
      /\ entries'[v].residual = NoPayload
  BY <1>1 DEF TypeOK, Entries
<1>4. SlotsSound'
  BY <1>3 DEF SlotsSound, occupied
<1>5. NoAliases'
  BY <1>3 DEF NoAliases, Used, occupied, has_residual
<1>6. OwnershipExact'
  <2>1. held' = held \ {entries[v].residual}
    BY DEF release_residual
  <2>2. Used' = Used /\ Residuals' = Residuals \ {v}
    BY <1>3 DEF Used, Residuals, occupied, has_residual
  <2>3. \A s \in Used : entries[s].base # entries[v].residual
    BY DEF NoAliases, Used
  <2>4. \A s \in Residuals \ {v} : entries[s].residual # entries[v].residual
    BY DEF NoAliases, Used, Residuals
  <2>5. v \in Residuals /\ Used \subseteq Slots /\ Residuals \subseteq Slots
    BY DEF Used, Residuals
  <2> QED
    BY <1>3, <2>1, <2>2, <2>3, <2>4, <2>5 DEF OwnershipExact
<1> QED
  BY <1>1, <1>2, <1>4, <1>5, <1>6

\* So does releasing a whole entry.
LEMMA ReleaseBaseKeeps ==
  ASSUME TypeOK, SlotsSound, NoAliases, OwnershipExact, call' \in Calls,
         NEW v \in Slots, occupied(v), release_base(v)
  PROVE  /\ TypeOK' /\ SlotsSound' /\ NoAliases' /\ OwnershipExact'
         /\ entries' = [entries EXCEPT ![v] = Blank]
<1> USE ConfigAssumption
<1>1. entries' = [entries EXCEPT ![v] = Blank]
  BY DEF release_base
<1>2. Blank \in Entries /\ Blank.occupied = FALSE /\ Blank.residual = NoPayload
  BY DEF Blank, Entries
<1>3. entries' \in [Slots -> Entries] /\ entries'[v] = Blank
      /\ \A s \in Slots \ {v} : entries'[s] = entries[s]
  BY <1>1, <1>2 DEF TypeOK
<1>4. TypeOK'
  <2>1. /\ entries[v].residual_charge \in Nat /\ entries[v].base_charge \in Nat
        /\ entries[v].key \in Keys
    BY DEF TypeOK, Entries, SlotsSound
  <2>2. layers' \in [Layers -> LayerCounters]
    BY <2>1 DEF TypeOK, release_base, LayerCounters, Keys
  <2> QED
    BY <1>3, <2>1, <2>2 DEF TypeOK, release_base
<1>5. SlotsSound'
  BY <1>2, <1>3 DEF SlotsSound, occupied
<1>6. Used' = Used \ {v} /\ Residuals' = Residuals \ {v}
  BY <1>2, <1>3 DEF Used, Residuals, occupied, has_residual
<1>7. NoAliases'
  <2>1. \A s \in Used' : s \in Used /\ s \in Slots \ {v}
    BY <1>6 DEF Used
  <2> QED
    BY <1>3, <2>1 DEF NoAliases, has_residual
<1>8. OwnershipExact'
  <2>1. held' = held \ {entries[v].residual, entries[v].base}
    BY DEF release_base
  <2>2. v \in Used /\ Used \subseteq Slots /\ Residuals \subseteq Used
    BY DEF Used, Residuals
  <2>3. entries[v].base \in Payloads /\ \A s \in Used : entries[s].base \in Payloads
    BY <2>2 DEF SlotsSound, Used
  <2>4. \A s \in Used \ {v} : entries[s].base \notin {entries[v].residual, entries[v].base}
    BY <2>2, <2>3 DEF NoAliases, has_residual
  <2>5. \A s \in Residuals \ {v} :
           entries[s].residual \notin {entries[v].residual, entries[v].base}
    BY <2>2, <2>3 DEF NoAliases, has_residual, Residuals
  <2>6. held = {entries[s].base : s \in Used} \cup {entries[s].residual : s \in Residuals}
    BY DEF OwnershipExact
  <2>7. held' = {entries[s].base : s \in Used \ {v}}
                  \cup {entries[s].residual : s \in Residuals \ {v}}
    <3>1. NoPayload \notin held
      BY <2>3, <2>6 DEF Residuals, has_residual
    <3>2. v \notin Residuals => entries[v].residual = NoPayload
      BY <2>2 DEF Residuals, has_residual
    <3> QED
      BY <2>1, <2>2, <2>4, <2>5, <2>6, <3>1, <3>2
  <2>8. \A s \in Used \ {v} : entries'[s] = entries[s]
    BY <1>3, <2>2
  <2> QED
    BY <1>6, <2>2, <2>7, <2>8 DEF OwnershipExact
<1> QED
  BY <1>1, <1>4, <1>5, <1>7, <1>8

\* Lookups and pins change stamps, queues and pin counts of occupied slots only.
SamePlanes ==
    \A s \in Slots :
        /\ entries'[s].occupied = entries[s].occupied
        /\ entries'[s].key = entries[s].key
        /\ entries'[s].base = entries[s].base
        /\ entries'[s].residual = entries[s].residual
        /\ entries'[s].base_charge = entries[s].base_charge
        /\ entries'[s].residual_charge = entries[s].residual_charge
        /\ ~occupied(s) => entries'[s] = entries[s]

\* A step that keeps all planes keeps ownership and the absence of aliases.
LEMMA SamePlanesKeeps ==
  ASSUME SlotsSound, NoAliases, OwnershipExact, SamePlanes, held' = held
  PROVE  SlotsSound' /\ NoAliases' /\ OwnershipExact'
<1>1. SlotsSound'
  BY DEF SamePlanes, SlotsSound, occupied
<1>2. Used' = Used /\ Residuals' = Residuals /\ Used \subseteq Slots /\ Residuals \subseteq Slots
  BY DEF SamePlanes, Used, Residuals, occupied, has_residual
<1>3. NoAliases'
  BY <1>2 DEF SamePlanes, NoAliases, has_residual
<1>4. OwnershipExact'
  BY <1>2 DEF SamePlanes, OwnershipExact
<1> QED
  BY <1>1, <1>3, <1>4

\* The halving of next_clock keeps an entry's type and planes, and its stamp in range.
LEMMA ClockType ==
  ASSUME TypeOK
  PROVE  /\ next_clock \in 0 .. ClockMax
         /\ \A s \in Slots : /\ Aged(entries[s]) \in Entries
                             /\ Aged(entries[s]).occupied = entries[s].occupied
                             /\ Aged(entries[s]).key = entries[s].key
                             /\ Aged(entries[s]).base = entries[s].base
                             /\ Aged(entries[s]).residual = entries[s].residual
                             /\ Aged(entries[s]).base_charge = entries[s].base_charge
                             /\ Aged(entries[s]).residual_charge = entries[s].residual_charge
                             /\ Aged(entries[s]).pins = entries[s].pins
                             /\ ~occupied(s) => Aged(entries[s]) = entries[s]
<1>1. next_clock \in 0 .. ClockMax
  BY ConfigAssumption DEF TypeOK, next_clock, Wrapping
<1>2. ASSUME NEW e \in Entries
      PROVE  /\ Aged(e) \in Entries
             /\ Aged(e).occupied = e.occupied
             /\ Aged(e).key = e.key
             /\ Aged(e).base = e.base
             /\ Aged(e).residual = e.residual
             /\ Aged(e).base_charge = e.base_charge
             /\ Aged(e).residual_charge = e.residual_charge
             /\ Aged(e).pins = e.pins
             /\ ~e.occupied => Aged(e) = e
  <2>1. CASE Wrapping /\ e.occupied
    <3> DEFINE f == [e EXCEPT !.last_access = e.last_access \div 2 + 1,
                              !.admission_order = e.admission_order \div 2 + 1]
    <3>1. Aged(e) = f
      BY <2>1 DEF Aged
    <3>2. e.last_access \div 2 + 1 \in Nat /\ e.admission_order \div 2 + 1 \in Nat
      BY DEF Entries
    <3>3. f \in Entries
      BY <3>2 DEF Entries
    <3> QED
      BY <2>1, <3>1, <3>3 DEF Entries
  <2>2. CASE ~(Wrapping /\ e.occupied)
    BY <2>2 DEF Aged
  <2> QED
    BY <2>1, <2>2
<1>3. \A s \in Slots : entries[s] \in Entries
  BY DEF TypeOK
<1> QED
  BY <1>1, <1>2, <1>3 DEF occupied

\* A lookup, the halving of all stamps included, keeps the invariant and all planes.
LEMMA GetKeeps ==
  ASSUME Inv, NEW key \in Keys, ecache_get(key)
  PROVE  Inv' /\ SamePlanes /\ \A s \in Slots : entries'[s].pins = entries[s].pins
<1> USE ConfigAssumption
<1>0. TypeOK /\ SlotsSound /\ NoAliases /\ OwnershipExact
  BY DEF Inv
<1>1. PICK v \in Slots : /\ occupied(v)
                         /\ entries' = [t \in Slots |->
                               IF t = v THEN [Aged(entries[v]) EXCEPT !.last_access = next_clock,
                                                                      !.hot = TwoQ \/ @]
                                        ELSE Aged(entries[t])]
  BY DEF ecache_get, Resident
<1>2. /\ next_clock \in 0 .. ClockMax
      /\ \A s \in Slots : /\ Aged(entries[s]) \in Entries
                          /\ Aged(entries[s]).occupied = entries[s].occupied
                          /\ Aged(entries[s]).key = entries[s].key
                          /\ Aged(entries[s]).base = entries[s].base
                          /\ Aged(entries[s]).residual = entries[s].residual
                          /\ Aged(entries[s]).base_charge = entries[s].base_charge
                          /\ Aged(entries[s]).residual_charge = entries[s].residual_charge
                          /\ Aged(entries[s]).pins = entries[s].pins
                          /\ ~occupied(s) => Aged(entries[s]) = entries[s]
  BY <1>0, ClockType
<1>3. ASSUME NEW e \in Entries, NEW h \in BOOLEAN
      PROVE  LET f == [e EXCEPT !.last_access = next_clock, !.hot = h]
             IN  /\ f \in Entries /\ f.occupied = e.occupied /\ f.key = e.key
                 /\ f.base = e.base /\ f.residual = e.residual /\ f.pins = e.pins
                 /\ f.base_charge = e.base_charge /\ f.residual_charge = e.residual_charge
  <2> DEFINE f == [e EXCEPT !.last_access = next_clock, !.hot = h]
  <2>1. next_clock \in Nat
    BY <1>2
  <2>2. f \in Entries
    BY <2>1 DEF Entries
  <2> QED
    BY <2>2 DEF Entries
<1>4. ASSUME NEW s \in Slots
      PROVE  /\ entries'[s] \in Entries
             /\ entries'[s].occupied = entries[s].occupied
             /\ entries'[s].key = entries[s].key
             /\ entries'[s].base = entries[s].base
             /\ entries'[s].residual = entries[s].residual
             /\ entries'[s].base_charge = entries[s].base_charge
             /\ entries'[s].residual_charge = entries[s].residual_charge
             /\ entries'[s].pins = entries[s].pins
             /\ ~occupied(s) => entries'[s] = entries[s]
  <2>1. CASE s = v
    <3> DEFINE e == Aged(entries[v])
    <3>1. entries'[s] = [e EXCEPT !.last_access = next_clock, !.hot = TwoQ \/ e.hot]
      BY <1>1, <2>1
    <3>2. e \in Entries /\ (TwoQ \/ e.hot) \in BOOLEAN
      BY <1>2
    <3>3. LET f == [e EXCEPT !.last_access = next_clock, !.hot = TwoQ \/ e.hot]
          IN  /\ f \in Entries /\ f.occupied = e.occupied /\ f.key = e.key
              /\ f.base = e.base /\ f.residual = e.residual /\ f.pins = e.pins
              /\ f.base_charge = e.base_charge /\ f.residual_charge = e.residual_charge
      BY <1>3, <3>2
    <3> HIDE DEF e
    <3> QED
      BY <1>1, <1>2, <2>1, <3>1, <3>3 DEF e
  <2>2. CASE s # v
    BY <1>1, <1>2, <2>2
  <2> QED
    BY <2>1, <2>2
<1>5. SamePlanes
  BY <1>4 DEF SamePlanes
<1>6. SlotsSound' /\ NoAliases' /\ OwnershipExact'
  BY <1>0, <1>5, SamePlanesKeeps DEF ecache_get
<1>7. TypeOK'
  <2>1. entries' \in [Slots -> Entries]
    BY <1>1, <1>4
  <2> QED
    BY <1>0, <1>2, <2>1 DEF TypeOK, ecache_get
<1>8. CallSound'
  BY DEF ecache_get, Idle, Request, CallSound
<1> QED
  BY <1>4, <1>5, <1>6, <1>7, <1>8 DEF Inv

\* Pinning and unpinning change one pin count.
LEMMA PinsKeep ==
  ASSUME Inv, NEW key \in Keys, ecache_pin(key) \/ ecache_unpin(key)
  PROVE  /\ Inv' /\ SamePlanes
         /\ \E v \in Slots, n \in Nat : entries' = [entries EXCEPT ![v].pins = n]
<1> USE ConfigAssumption
<1>0. TypeOK /\ SlotsSound /\ NoAliases /\ OwnershipExact
  BY DEF Inv
<1>1. PICK v \in Slots, n \in Nat : occupied(v) /\ entries' = [entries EXCEPT ![v].pins = n]
  <2>1. CASE ecache_pin(key)
    <3>1. PICK v \in Slots : occupied(v) /\ entries' = [entries EXCEPT ![v].pins = @ + 1]
      BY <2>1 DEF ecache_pin, Resident
    <3>2. entries[v].pins + 1 \in Nat
      BY <1>0 DEF TypeOK, Entries
    <3> QED
      BY <1>0, <3>1, <3>2
  <2>2. CASE ecache_unpin(key)
    <3>1. PICK v \in Slots : /\ occupied(v) /\ entries[v].pins > 0
                             /\ entries' = [entries EXCEPT ![v].pins = @ - 1]
      BY <2>2 DEF ecache_unpin, Resident
    <3>2. entries[v].pins - 1 \in Nat
      BY <1>0, <3>1 DEF TypeOK, Entries
    <3> QED
      BY <1>0, <3>1, <3>2
  <2> QED
    BY <2>1, <2>2
<1>2. entries' \in [Slots -> Entries]
  <2>1. [entries[v] EXCEPT !.pins = n] \in Entries
    BY <1>0 DEF TypeOK, Entries
  <2>2. entries' = [entries EXCEPT ![v] = [entries[v] EXCEPT !.pins = n]]
    BY <1>0, <1>1 DEF TypeOK
  <2> QED
    BY <1>0, <2>1, <2>2 DEF TypeOK
<1>3. SamePlanes
  BY <1>0, <1>1 DEF SamePlanes, TypeOK, Entries
<1>4. /\ held' = held /\ call' = Idle /\ clock' = clock /\ entry_count' = entry_count
      /\ payload_bytes' = payload_bytes /\ peak' = peak /\ layers' = layers /\ call = Idle
  BY DEF ecache_pin, ecache_unpin
<1>5. TypeOK'
  BY <1>0, <1>2, <1>4 DEF TypeOK
<1>6. CallSound'
  BY <1>4 DEF Idle, Request, CallSound
<1>7. SlotsSound' /\ NoAliases' /\ OwnershipExact'
  BY <1>0, <1>3, <1>4, SamePlanesKeeps
<1> QED
  BY <1>1, <1>3, <1>5, <1>6, <1>7 DEF Inv

\* Steps that only change the call: Begin and Finish actions.
LEMMA CallOnlyKeeps ==
  ASSUME Inv, call' \in Calls, CallSound',
         UNCHANGED <<entries, clock, entry_count, payload_bytes, peak, layers, held>>
  PROVE  Inv'
<1>1. TypeOK'
  BY DEF Inv, TypeOK
<1>2. SlotsSound' /\ NoAliases' /\ OwnershipExact'
  BY DEF Inv, SlotsSound, NoAliases, OwnershipExact, Used, Residuals, occupied, has_residual
<1> QED
  BY <1>1, <1>2 DEF Inv

\* A charge is a natural number.
LEMMA ChargeType == ASSUME NEW n \in Sizes PROVE payload_charge(n) \in Nat
<1>1. n \in Nat /\ Alignment \in Nat \ {0}
  BY ConfigAssumption
<1>2. n % Alignment \in 0 .. Alignment - 1
  BY <1>1
<1> QED
  BY <1>1, <1>2 DEF payload_charge

\* The steps that begin or end a call keep the invariant and touch no entry.
LEMMA BeginKeeps ==
  ASSUME Inv,
         \/ \E key \in Keys, p \in Payloads, n \in Sizes :
               InsertBegin(key, p, n) \/ PromoteBegin(key, p, n)
         \/ \E level \in {"warn", "critical"}, target \in Targets :
               PressureBegin(level, target)
         \/ DestroyBegin \/ PressureFinish \/ DestroyFinish
  PROVE  Inv' /\ UNCHANGED <<entries, held>>
<1> USE ConfigAssumption
<1>1. ASSUME NEW key \in Keys, NEW p \in Payloads, NEW n \in Sizes, InsertBegin(key, p, n)
      PROVE  Inv' /\ UNCHANGED <<entries, held>>
  <2>1. call' \in Calls
    BY <1>1, ChargeType DEF InsertBegin, Request, Calls, Ops
  <2>2. CallSound'
    BY <1>1 DEF InsertBegin, Request, CallSound, Resident, payload_in_use, occupied, has_residual
  <2> QED
    BY <1>1, <2>1, <2>2, CallOnlyKeeps DEF InsertBegin
<1>2. ASSUME NEW key \in Keys, NEW p \in Payloads, NEW n \in Sizes, PromoteBegin(key, p, n)
      PROVE  Inv' /\ UNCHANGED <<entries, held>>
  <2>1. PICK v \in Slots : /\ occupied(v) /\ entries[v].key = key
                           /\ ~has_residual(v) /\ ~payload_in_use(p)
                           /\ call' = Request("promote", key, p, payload_charge(n), v)
    BY <1>2 DEF PromoteBegin, Resident
  <2>2. call' \in Calls
    BY <2>1, ChargeType DEF Request, Calls, Ops
  <2>3. entries' = entries
    BY <1>2 DEF PromoteBegin
  <2>4. CallSound'
    BY <2>1, <2>3 DEF Request, CallSound, payload_in_use, occupied, has_residual
  <2> QED
    BY <1>2, <2>2, <2>4, CallOnlyKeeps DEF PromoteBegin
<1>3. ASSUME NEW level \in {"warn", "critical"}, NEW target \in Targets,
             PressureBegin(level, target)
      PROVE  Inv' /\ UNCHANGED <<entries, held>>
  <2>1. call' \in Calls
    BY <1>3 DEF PressureBegin, Request, Calls, Ops
  <2>2. CallSound'
    BY <1>3 DEF PressureBegin, Request, CallSound
  <2> QED
    BY <1>3, <2>1, <2>2, CallOnlyKeeps DEF PressureBegin
<1>4. ASSUME DestroyBegin PROVE Inv' /\ UNCHANGED <<entries, held>>
  <2>1. call' \in Calls
    BY <1>4 DEF DestroyBegin, Request, Calls, Ops
  <2>2. CallSound'
    BY <1>4 DEF DestroyBegin, Request, CallSound, occupied
  <2> QED
    BY <1>4, <2>1, <2>2, CallOnlyKeeps DEF DestroyBegin
<1>5. ASSUME PressureFinish PROVE Inv' /\ UNCHANGED <<entries, held>>
  <2>1. call' \in Calls
    BY <1>5 DEF PressureFinish, Idle, Request, Calls, Ops
  <2>2. CallSound'
    BY <1>5 DEF PressureFinish, Idle, Request, CallSound
  <2> QED
    BY <1>5, <2>1, <2>2, CallOnlyKeeps DEF PressureFinish
<1>6. ASSUME DestroyFinish PROVE Inv' /\ UNCHANGED <<entries, held>>
  <2>1. call' \in Calls
    BY <1>6 DEF DestroyFinish, Request, Calls, Ops
  <2>2. \A s \in Slots : ~occupied(s) /\ entries' = entries
    BY <1>6 DEF DestroyFinish, free_slots
  <2>3. CallSound'
    BY <1>6, <2>2 DEF DestroyFinish, Request, CallSound, occupied
  <2> QED
    BY <1>6, <2>1, <2>3, CallOnlyKeeps DEF DestroyFinish
<1> QED
  BY <1>1, <1>2, <1>3, <1>4, <1>5, <1>6

\* What a releasing step does to the entries: one unpinned slot loses its residual,
\* or is blanked.
DropsResidual(v) ==
    /\ occupied(v) /\ has_residual(v) /\ entries[v].pins = 0
    /\ entries' = [entries EXCEPT ![v].residual = NoPayload, ![v].residual_charge = 0]

DropsEntry(v) ==
    /\ occupied(v) /\ entries[v].pins = 0
    /\ entries' = [entries EXCEPT ![v] = Blank]

\* An explicit removal drops one unpinned entry.
LEMMA RemoveKeeps ==
  ASSUME Inv, NEW key \in Keys, ecache_remove(key)
  PROVE  Inv' /\ \E v \in Slots : DropsEntry(v)
<1>1. PICK v \in Slots : occupied(v) /\ entries[v].pins = 0 /\ release_base(v)
  BY DEF ecache_remove, Resident
<1>2. call' = call /\ call = Idle /\ call \in Calls
  BY DEF ecache_remove, Inv, TypeOK
<1>3. /\ TypeOK' /\ SlotsSound' /\ NoAliases' /\ OwnershipExact'
      /\ entries' = [entries EXCEPT ![v] = Blank]
  BY <1>1, <1>2, ReleaseBaseKeeps DEF Inv
<1>4. CallSound'
  BY <1>2 DEF Idle, Request, CallSound
<1> QED
  BY <1>1, <1>3, <1>4 DEF Inv, DropsEntry

\* A turn of a reclaim loop that takes a residual drops an unpinned one.
LEMMA ReclaimResidualKeeps ==
  ASSUME Inv, ReclaimResidual
  PROVE  Inv' /\ \E v \in Slots : DropsResidual(v)
<1> DEFINE v == choose_residual
<1>1. v \in Slots /\ occupied(v) /\ has_residual(v) /\ entries[v].pins = 0 /\ release_residual(v)
  BY ResidualVictim DEF Inv, ReclaimResidual, EligibleResiduals
<1>2. call' = call /\ call \in Calls /\ call.op # "destroy" /\ call.op # "dead"
  BY DEF ReclaimResidual, Wanting, Inv, TypeOK
<1> HIDE DEF v
<1>3. /\ TypeOK' /\ SlotsSound' /\ NoAliases' /\ OwnershipExact'
      /\ entries' = [entries EXCEPT ![v].residual = NoPayload, ![v].residual_charge = 0]
  BY <1>1, <1>2, ReleaseResidualKeeps DEF Inv
<1>4. \A s \in Slots : /\ entries'[s].occupied = entries[s].occupied
                       /\ entries'[s].key = entries[s].key
                       /\ entries'[s].base = entries[s].base
                       /\ entries'[s].residual \in {entries[s].residual, NoPayload}
  BY <1>3 DEF Inv, TypeOK, Entries
<1>5. CallSound'
  <2>1. Resident(call.key)' = Resident(call.key)
    BY <1>2, <1>4 DEF Resident, occupied
  <2>2. payload_in_use(call.payload)' => payload_in_use(call.payload)
    BY <1>2, <1>4 DEF payload_in_use, occupied, has_residual
  <2>3. CallSound
    BY DEF Inv
  <2> QED
    BY <1>2, <1>4, <2>1, <2>2, <2>3 DEF CallSound, occupied, has_residual
<1> QED
  BY <1>1, <1>3, <1>5 DEF Inv, DropsResidual

\* A turn that takes a base drops an unpinned entry, and no residual could have gone.
LEMMA ReclaimBaseKeeps ==
  ASSUME Inv, ReclaimBase
  PROVE  /\ Inv'
         /\ \E v \in Slots : DropsEntry(v)
         /\ call.op \in {"insert", "promote", "critical"} /\ EligibleResiduals = {}
<1> DEFINE v == choose_base(call.slot, {})
<1>1. /\ v \in Slots \ {call.slot} /\ occupied(v) /\ entries[v].pins = 0 /\ release_base(v)
  BY BaseVictim DEF Inv, ReclaimBase, Evictable, base_floor_allows
<1>2. call' = call /\ call \in Calls /\ call.op \in {"insert", "promote", "critical"}
  BY DEF ReclaimBase, MayEvictBase, Inv, TypeOK
<1> HIDE DEF v
<1>3. /\ TypeOK' /\ SlotsSound' /\ NoAliases' /\ OwnershipExact'
      /\ entries' = [entries EXCEPT ![v] = Blank]
  BY <1>1, <1>2, ReleaseBaseKeeps DEF Inv
<1>4. /\ \A s \in Slots \ {v} : entries'[s] = entries[s]
      /\ entries'[v].occupied = FALSE
  BY <1>1, <1>3 DEF Inv, TypeOK, Blank
<1>5. CallSound'
  <2>1. Resident(call.key) = {} => Resident(call.key)' = {}
    BY <1>2, <1>4 DEF Resident, occupied
  <2>2. payload_in_use(call.payload)' => payload_in_use(call.payload)
    BY <1>2, <1>4 DEF payload_in_use, occupied, has_residual
  <2>3. CallSound
    BY DEF Inv
  <2>4. CASE call.op = "insert"
    BY <1>2, <2>1, <2>2, <2>3, <2>4 DEF CallSound
  <2>5. CASE call.op = "promote"
    <3>1. call.slot \in Slots \ {v}
      BY <1>1, <2>3, <2>5 DEF CallSound
    <3> QED
      BY <1>2, <1>4, <2>2, <2>3, <2>5, <3>1 DEF CallSound, occupied, has_residual
  <2>6. CASE call.op = "critical"
    BY <1>2, <2>6 DEF CallSound
  <2> QED
    BY <1>2, <2>4, <2>5, <2>6
<1>6. EligibleResiduals = {}
  <2>1. choose_residual = NoSlot /\ NoSlot \notin Slots
    BY ConfigAssumption DEF ReclaimBase, NoSlot, Slots
  <2> QED
    BY <2>1, FirstIsMember DEF choose_residual, EligibleResiduals, Inv
<1> QED
  BY <1>1, <1>2, <1>3, <1>5, <1>6 DEF Inv, DropsEntry

\* A turn of the loop of ecache_destroy drops an entry, and none is pinned.
LEMMA DestroySlotKeeps ==
  ASSUME Inv, DestroySlot
  PROVE  Inv' /\ \E v \in Slots : DropsEntry(v)
<1> DEFINE v == Min(Slots \ free_slots)
<1>1. v \in Slots \ free_slots
  <2>1. Slots \ free_slots \in SUBSET Nat /\ Slots \ free_slots # {}
    BY ConfigAssumption DEF Slots, DestroySlot
  <2> QED
    BY <2>1, MinIsLeast
<1>2. /\ v \in Slots /\ occupied(v) /\ release_base(v) /\ call' = call
      /\ call.op = "destroy" /\ call \in Calls
  BY <1>1 DEF DestroySlot, free_slots, Inv, TypeOK
<1> HIDE DEF v
<1>3. \A s \in Slots : occupied(s) => entries[s].pins = 0
  BY <1>2 DEF Inv, CallSound
<1>4. /\ TypeOK' /\ SlotsSound' /\ NoAliases' /\ OwnershipExact'
      /\ entries' = [entries EXCEPT ![v] = Blank]
  BY <1>2, ReleaseBaseKeeps DEF Inv
<1>5. /\ \A s \in Slots \ {v} : entries'[s] = entries[s]
      /\ entries'[v].occupied = FALSE
  BY <1>2, <1>4 DEF Inv, TypeOK, Blank
<1>6. CallSound'
  BY <1>2, <1>3, <1>5 DEF CallSound, occupied
<1> QED
  BY <1>2, <1>3, <1>4, <1>6 DEF Inv, DropsEntry

\* What an admission does to the entries: a free slot is filled, or a residual is
\* added to an entry that had none; all other slots keep their planes and pins.
Others(v) ==
    \A s \in Slots \ {v} : /\ entries'[s].occupied = entries[s].occupied
                           /\ entries'[s].key = entries[s].key
                           /\ entries'[s].base = entries[s].base
                           /\ entries'[s].residual = entries[s].residual
                           /\ entries'[s].base_charge = entries[s].base_charge
                           /\ entries'[s].residual_charge = entries[s].residual_charge
                           /\ entries'[s].pins = entries[s].pins
                           /\ ~occupied(s) => entries'[s] = entries[s]

\* An insertion fills a free slot.
LEMMA InsertFinishKeeps ==
  ASSUME Inv, InsertFinish
  PROVE  Inv' /\ \E v \in Slots : ~occupied(v) /\ Others(v)
<1> USE ConfigAssumption
<1> DEFINE v == Min(free_slots)
           e == [Blank EXCEPT !.occupied = TRUE, !.key = call.key, !.base = call.payload,
                              !.base_charge = call.amount, !.last_access = next_clock,
                              !.admission_order = next_clock]
<1>0. TypeOK /\ SlotsSound /\ NoAliases /\ OwnershipExact
  BY DEF Inv
<1>1. v \in free_slots
  <2>1. free_slots \in SUBSET Nat /\ free_slots # {}
    BY DEF Slots, InsertFinish, free_slots
  <2> QED
    BY <2>1, MinIsLeast
<1>2. v \in Slots /\ ~occupied(v)
  BY <1>1 DEF free_slots
<1>3. /\ call.key \in Keys /\ call.payload \in Payloads /\ call.amount \in Nat
      /\ Resident(call.key) = {} /\ ~payload_in_use(call.payload)
  BY DEF InsertFinish, Inv, CallSound, TypeOK, Calls
<1>4. entries' = [t \in Slots |-> IF t = v THEN e ELSE Aged(entries[t])]
  BY DEF InsertFinish
<1>5. /\ next_clock \in Nat /\ next_clock \in 0 .. ClockMax
      /\ \A s \in Slots : /\ Aged(entries[s]) \in Entries
                          /\ Aged(entries[s]).occupied = entries[s].occupied
                          /\ Aged(entries[s]).key = entries[s].key
                          /\ Aged(entries[s]).base = entries[s].base
                          /\ Aged(entries[s]).residual = entries[s].residual
                          /\ Aged(entries[s]).base_charge = entries[s].base_charge
                          /\ Aged(entries[s]).residual_charge = entries[s].residual_charge
                          /\ Aged(entries[s]).pins = entries[s].pins
                          /\ ~occupied(s) => Aged(entries[s]) = entries[s]
  BY <1>0, ClockType
<1>6. /\ e \in Entries /\ e.occupied = TRUE /\ e.key = call.key /\ e.base = call.payload
      /\ e.residual = NoPayload
  BY <1>3, <1>5 DEF Blank, Entries
<1> HIDE DEF v, e
<1>7. entries' \in [Slots -> Entries] /\ entries'[v] = e
  BY <1>2, <1>4, <1>5, <1>6
<1>8. Others(v)
  BY <1>4, <1>5 DEF Others
<1>9. TypeOK'
  <2>1. layers' \in [Layers -> LayerCounters]
    BY <1>0, <1>3 DEF InsertFinish, TypeOK, LayerCounters, Keys
  <2>2. call' \in Calls
    BY DEF InsertFinish, Idle, Request, Calls, Ops
  <2> QED
    BY <1>0, <1>3, <1>5, <1>7, <2>1, <2>2 DEF TypeOK, InsertFinish, Raise
<1>10. SlotsSound'
  BY <1>0, <1>3, <1>6, <1>7, <1>8 DEF SlotsSound, Others, occupied
<1>11. Used' = Used \cup {v} /\ Residuals' = Residuals /\ v \notin Used
  BY <1>2, <1>6, <1>7, <1>8 DEF Used, Residuals, Others, occupied, has_residual
<1>12. NoAliases'
  <2>1. \A s \in Used : /\ entries[s].key # call.key
                        /\ entries[s].base # call.payload
                        /\ has_residual(s) => entries[s].residual # call.payload
    BY <1>3 DEF Used, Resident, payload_in_use
  <2>2. call.payload # NoPayload
    BY <1>3
  <2>3. \A s \in Used : s \in Slots \ {v}
    BY <1>11 DEF Used
  <2> QED
    BY <1>0, <1>6, <1>7, <1>8, <1>11, <2>1, <2>2, <2>3 DEF NoAliases, Others, has_residual
<1>13. OwnershipExact'
  <2>1. held' = held \cup {call.payload}
    BY DEF InsertFinish
  <2>2. Residuals \subseteq Used /\ \A s \in Used : s \in Slots \ {v}
    BY <1>11 DEF Used, Residuals
  <2> QED
    BY <1>0, <1>6, <1>7, <1>8, <1>11, <2>1, <2>2 DEF OwnershipExact, Others
<1>14. CallSound'
  BY DEF InsertFinish, Idle, Request, CallSound
<1> QED
  BY <1>2, <1>8, <1>9, <1>10, <1>12, <1>13, <1>14 DEF Inv

\* A promotion adds a residual to an entry that had none.
LEMMA PromoteFinishKeeps ==
  ASSUME Inv, PromoteFinish
  PROVE  /\ Inv'
         /\ \E v \in Slots : /\ ~has_residual(v) /\ Others(v)
                             /\ entries'[v].occupied = entries[v].occupied
                             /\ entries'[v].key = entries[v].key
                             /\ entries'[v].base = entries[v].base
<1> USE ConfigAssumption
<1> DEFINE v == call.slot
           e == [entries[v] EXCEPT !.residual = call.payload, !.residual_charge = call.amount]
<1>0. TypeOK /\ SlotsSound /\ NoAliases /\ OwnershipExact
  BY DEF Inv
<1>1. /\ call.key \in Keys /\ call.payload \in Payloads /\ call.amount \in Nat
      /\ v \in Slots /\ occupied(v) /\ entries[v].key = call.key
      /\ ~has_residual(v) /\ ~payload_in_use(call.payload)
  BY DEF PromoteFinish, Inv, CallSound, TypeOK, Calls
<1>2. entries' = [entries EXCEPT ![v] = e]
  BY <1>0, <1>1 DEF PromoteFinish, TypeOK
<1>3. /\ e \in Entries /\ e.occupied = entries[v].occupied /\ e.key = entries[v].key
      /\ e.base = entries[v].base /\ e.residual = call.payload
  <2>1. entries[v] \in Entries
    BY <1>0, <1>1 DEF TypeOK
  <2> HIDE DEF v
  <2>2. e \in Entries
    BY <1>1, <2>1 DEF Entries
  <2> QED
    BY <2>1, <2>2 DEF Entries
<1> HIDE DEF v, e
<1>4. entries' \in [Slots -> Entries] /\ entries'[v] = e /\ Others(v)
  BY <1>0, <1>1, <1>2, <1>3 DEF TypeOK, Others
<1>5. TypeOK'
  <2>1. layers' \in [Layers -> LayerCounters]
    BY <1>0, <1>1 DEF PromoteFinish, TypeOK, LayerCounters, Keys
  <2>2. call' \in Calls
    BY DEF PromoteFinish, Idle, Request, Calls, Ops
  <2> QED
    BY <1>0, <1>1, <1>4, <2>1, <2>2 DEF TypeOK, PromoteFinish, Raise
<1>6. SlotsSound'
  BY <1>0, <1>1, <1>3, <1>4 DEF SlotsSound, Others, occupied
<1>7. call.payload # NoPayload
  BY <1>1
<1>8. Used' = Used /\ Residuals' = Residuals \cup {v} /\ v \notin Residuals /\ v \in Used
  <2>1. \A s \in Slots : /\ entries'[s].occupied = entries[s].occupied
                         /\ s # v => entries'[s].residual = entries[s].residual
    BY <1>3, <1>4 DEF Others
  <2>2. entries'[v].residual # NoPayload
    BY <1>3, <1>4, <1>7
  <2> QED
    BY <1>1, <2>1, <2>2 DEF Used, Residuals, occupied, has_residual
<1>9. \A s \in Used : /\ s \in Slots
                      /\ entries'[s].key = entries[s].key
                      /\ entries'[s].base = entries[s].base
                      /\ s # v => entries'[s].residual = entries[s].residual
  BY <1>3, <1>4 DEF Used, Others
<1>10. NoAliases'
  <2>1. \A s \in Used : /\ entries[s].base # call.payload
                        /\ has_residual(s) => entries[s].residual # call.payload
    BY <1>1 DEF Used, payload_in_use
  <2> QED
    BY <1>0, <1>3, <1>4, <1>7, <1>8, <1>9, <2>1 DEF NoAliases, has_residual
<1>11. OwnershipExact'
  <2>1. held' = held \cup {call.payload}
    BY DEF PromoteFinish
  <2>2. Residuals \subseteq Used
    BY DEF Residuals
  <2> QED
    BY <1>0, <1>3, <1>4, <1>8, <1>9, <2>1, <2>2 DEF OwnershipExact
<1>12. CallSound'
  BY DEF PromoteFinish, Idle, Request, CallSound
<1> QED
  BY <1>1, <1>3, <1>4, <1>5, <1>6, <1>10, <1>11, <1>12 DEF Inv

\* A cache is initialised again only when it is empty.
LEMMA ReinitKeeps ==
  ASSUME Inv, ecache_init
  PROVE  Inv' /\ \A s \in Slots : ~occupied(s)
<1> USE ConfigAssumption
<1>1. \A s \in Slots : ~occupied(s)
  BY DEF ecache_init, Inv, CallSound
<1>2. \A s \in Slots : entries'[s] = Blank
  BY DEF ecache_init, NoEntries
<1>3. Blank \in Entries /\ Blank.occupied = FALSE
  BY DEF Blank, Entries
<1>4. TypeOK'
  BY <1>3 DEF Inv, TypeOK, ecache_init, NoEntries, NoCounters, LayerCounters, Idle, Request,
              Calls, Ops
<1>5. SlotsSound' /\ NoAliases'
  BY <1>2, <1>3 DEF SlotsSound, NoAliases, Used, occupied
<1>6. OwnershipExact'
  <2>1. held = {}
    BY <1>1 DEF Inv, OwnershipExact, Used, Residuals
  <2> QED
    BY <1>2, <1>3, <2>1 DEF OwnershipExact, Used, Residuals, occupied, ecache_init
<1>7. CallSound'
  BY DEF CallSound, ecache_init, Idle, Request
<1> QED
  BY <1>1, <1>4, <1>5, <1>6, <1>7 DEF Inv

-----------------------------------------------------------------------------
\* Every step keeps the invariant: one case per action of Next.
LEMMA NextInv == Inv /\ [Next]_vars => Inv'
<1> SUFFICES ASSUME Inv, [Next]_vars PROVE Inv'
  OBVIOUS
<1>1. ASSUME NEW key \in Keys,
             ecache_get(key) \/ ecache_pin(key) \/ ecache_unpin(key) \/ ecache_remove(key)
      PROVE  Inv'
  BY <1>1, GetKeeps, PinsKeep, RemoveKeeps
<1>2. ASSUME \/ \E key \in Keys, p \in Payloads, n \in Sizes :
                   InsertBegin(key, p, n) \/ PromoteBegin(key, p, n)
             \/ \E level \in {"warn", "critical"}, target \in Targets :
                   PressureBegin(level, target)
             \/ DestroyBegin \/ PressureFinish \/ DestroyFinish
      PROVE  Inv'
  BY <1>2, BeginKeeps
<1>3. CASE ReclaimResidual
  BY <1>3, ReclaimResidualKeeps
<1>4. CASE ReclaimBase
  BY <1>4, ReclaimBaseKeeps
<1>5. CASE InsertFinish
  BY <1>5, InsertFinishKeeps
<1>6. CASE PromoteFinish
  BY <1>6, PromoteFinishKeeps
<1>7. CASE DestroySlot
  BY <1>7, DestroySlotKeeps
<1>8. CASE ecache_init
  BY <1>8, ReinitKeeps
<1>9. CASE UNCHANGED vars
  <2>1. call' = call /\ call \in Calls
    BY <1>9 DEF vars, Inv, TypeOK
  <2>2. CallSound'
    BY <1>9 DEF vars, Inv, CallSound, Resident, payload_in_use, occupied, has_residual
  <2> QED
    BY <1>9, <2>1, <2>2, CallOnlyKeeps DEF vars
<1> QED
  BY <1>1, <1>2, <1>3, <1>4, <1>5, <1>6, <1>7, <1>8, <1>9 DEF Next, Step

\* The invariant holds in every reachable state.
LEMMA InvHolds == Spec => []Inv
<1>1. Init => Inv
  BY InitInv
<1>2. Inv /\ [Next]_vars => Inv'
  BY NextInv
<1> QED
  BY <1>1, <1>2, PTL DEF Spec

\* Type correctness, the wrap of next_clock included: the clock never leaves its width.
THEOREM TypeCorrect == Spec => []TypeOK
<1>1. Inv => TypeOK
  BY DEF Inv
<1> QED
  BY <1>1, InvHolds, PTL

\* Ownership of payload handles: what the caller has given away and not got back is
\* exactly what is resident, so no call leaks a handle or releases one twice.
THEOREM OwnershipCorrect == Spec => []OwnershipExact
<1>1. Inv => OwnershipExact
  BY DEF Inv
<1> QED
  BY <1>1, InvHolds, PTL

\* No key is cached twice and no handle backs two planes.
THEOREM AliasFree == Spec => []NoAliases
<1>1. Inv => NoAliases
  BY DEF Inv
<1> QED
  BY <1>1, InvHolds, PTL

\* A step that keeps all planes, drops one unpinned plane or fills a free place
\* keeps the planes of every pinned entry.
LEMMA StepKeepsPinned == Inv /\ [Next]_vars => PinnedKeepPlanes
<1> SUFFICES ASSUME Inv, [Next]_vars PROVE PinnedKeepPlanes
  OBVIOUS
<1>0. /\ \A s \in Slots : entries[s].pins \in Nat
      /\ entries \in [Slots -> Entries]
  BY DEF Inv, TypeOK, Entries
<1>1. ASSUME SamePlanes PROVE PinnedKeepPlanes
  BY <1>1 DEF SamePlanes, PinnedKeepPlanes, occupied, has_residual
<1>2. ASSUME NEW v \in Slots, DropsEntry(v) PROVE PinnedKeepPlanes
  <2>1. \A s \in Slots : entries[s].pins > 0 => s # v
    BY <1>0, <1>2 DEF DropsEntry
  <2> QED
    BY <1>0, <1>2, <2>1 DEF DropsEntry, PinnedKeepPlanes, occupied, has_residual
<1>3. ASSUME NEW v \in Slots, DropsResidual(v) PROVE PinnedKeepPlanes
  <2>1. \A s \in Slots : entries[s].pins > 0 => s # v
    BY <1>0, <1>3 DEF DropsResidual
  <2> QED
    BY <1>0, <1>3, <2>1 DEF DropsResidual, PinnedKeepPlanes, occupied, has_residual
<1>4. ASSUME NEW v \in Slots, ~occupied(v), Others(v) PROVE PinnedKeepPlanes
  BY <1>4 DEF Others, PinnedKeepPlanes, occupied, has_residual
<1>5. ASSUME NEW v \in Slots, ~has_residual(v), Others(v),
             entries'[v].occupied = entries[v].occupied,
             entries'[v].key = entries[v].key, entries'[v].base = entries[v].base
      PROVE  PinnedKeepPlanes
  BY <1>5 DEF Others, PinnedKeepPlanes, occupied, has_residual
<1>6. ASSUME entries' = entries PROVE PinnedKeepPlanes
  BY <1>6 DEF PinnedKeepPlanes, occupied, has_residual
<1>7. ASSUME NEW key \in Keys,
             ecache_get(key) \/ ecache_pin(key) \/ ecache_unpin(key) \/ ecache_remove(key)
      PROVE  PinnedKeepPlanes
  BY <1>1, <1>2, <1>7, GetKeeps, PinsKeep, RemoveKeeps
<1>8. ASSUME \/ \E key \in Keys, p \in Payloads, n \in Sizes :
                   InsertBegin(key, p, n) \/ PromoteBegin(key, p, n)
             \/ \E level \in {"warn", "critical"}, target \in Targets :
                   PressureBegin(level, target)
             \/ DestroyBegin \/ PressureFinish \/ DestroyFinish
      PROVE  PinnedKeepPlanes
  BY <1>6, <1>8, BeginKeeps
<1>9. CASE ReclaimResidual
  BY <1>3, <1>9, ReclaimResidualKeeps
<1>10. CASE ReclaimBase
  BY <1>2, <1>10, ReclaimBaseKeeps
<1>11. CASE InsertFinish
  BY <1>4, <1>11, InsertFinishKeeps
<1>12. CASE PromoteFinish
  BY <1>5, <1>12, PromoteFinishKeeps
<1>13. CASE DestroySlot
  BY <1>2, <1>13, DestroySlotKeeps
<1>14. CASE ecache_init
  BY <1>14, ReinitKeeps DEF PinnedKeepPlanes
<1>15. CASE UNCHANGED vars
  BY <1>6, <1>15 DEF vars
<1> QED
  BY <1>7, <1>8, <1>9, <1>10, <1>11, <1>12, <1>13, <1>14, <1>15 DEF Next, Step

\* Pins protect: no step of any call releases a plane of a pinned entry.
THEOREM PinsCorrect == Spec => PinsProtect
<1>1. Inv /\ [Next]_vars => [PinnedKeepPlanes]_vars
  BY StepKeepsPinned
<1> QED
  BY <1>1, InvHolds, PTL DEF Spec, PinsProtect

\* A base leaves under an admission or a pressure call only through ReclaimBase.
LEMMA StepDropsBasesLast == Inv /\ [Next]_vars => BasesLeaveLast
<1> SUFFICES ASSUME Inv, [Next]_vars PROVE BasesLeaveLast
  OBVIOUS
<1>1. ASSUME \A s \in Used : entries'[s].occupied PROVE BasesLeaveLast
  BY <1>1 DEF BasesLeaveLast
<1>2. ASSUME call.op \in {"none", "destroy", "dead"} PROVE BasesLeaveLast
  BY <1>2 DEF BasesLeaveLast
<1>3. ASSUME NEW key \in Keys,
             ecache_get(key) \/ ecache_pin(key) \/ ecache_unpin(key) \/ ecache_remove(key)
      PROVE  BasesLeaveLast
  <2>1. call = Idle
    BY <1>3 DEF ecache_get, ecache_pin, ecache_unpin, ecache_remove
  <2>2. call.op = "none"
    BY <2>1 DEF Idle, Request
  <2> QED
    BY <1>2, <2>2
<1>4. ASSUME \/ \E key \in Keys, p \in Payloads, n \in Sizes :
                   InsertBegin(key, p, n) \/ PromoteBegin(key, p, n)
             \/ \E level \in {"warn", "critical"}, target \in Targets :
                   PressureBegin(level, target)
             \/ DestroyBegin \/ PressureFinish \/ DestroyFinish
      PROVE  BasesLeaveLast
  <2>1. entries' = entries
    BY <1>4, BeginKeeps
  <2> QED
    BY <1>1, <2>1 DEF Used, occupied
<1>5. CASE ReclaimResidual
  <2>1. PICK v \in Slots : DropsResidual(v)
    BY <1>5, ReclaimResidualKeeps
  <2>2. \A s \in Slots : entries'[s].occupied = entries[s].occupied
    BY <2>1 DEF DropsResidual, Inv, TypeOK, Entries
  <2> QED
    BY <1>1, <2>2 DEF Used, occupied
<1>6. CASE ReclaimBase
  <2>1. call.op \in {"insert", "promote", "critical"} /\ EligibleResiduals = {}
    BY <1>6, ReclaimBaseKeeps
  <2>2. call.op # "warn"
    BY <2>1
  <2> QED
    BY <2>1, <2>2 DEF BasesLeaveLast
<1>7. CASE InsertFinish
  <2>1. PICK v \in Slots : ~occupied(v) /\ Others(v)
    BY <1>7, InsertFinishKeeps
  <2> QED
    BY <1>1, <2>1 DEF Others, Used, occupied
<1>8. CASE PromoteFinish
  <2>1. PICK v \in Slots : Others(v) /\ entries'[v].occupied = entries[v].occupied
    BY <1>8, PromoteFinishKeeps
  <2> QED
    BY <1>1, <2>1 DEF Others, Used, occupied
<1>9. CASE DestroySlot \/ ecache_init
  BY <1>2, <1>9 DEF DestroySlot, ecache_init
<1>10. CASE UNCHANGED vars
  BY <1>1, <1>10 DEF vars, Used, occupied
<1> QED
  BY <1>3, <1>4, <1>5, <1>6, <1>7, <1>8, <1>9, <1>10 DEF Next, Step

\* The reclaim order: WARN never releases a base, and neither an admission nor CRITICAL
\* evicts one while an unpinned residual is resident.
THEOREM ResidualsGoFirst == Spec => ResidualsFirst
<1>1. Inv /\ [Next]_vars => [BasesLeaveLast]_vars
  BY StepDropsBasesLast
<1> QED
  BY <1>1, InvHolds, PTL DEF Spec, ResidualsFirst

(***************************************************************************)
(* Recency.  No stamp is ahead of the clock, and the halving of next_clock *)
(* keeps their order.                                                      *)
(***************************************************************************)
Stamped == \A s \in Slots : occupied(s) => entries[s].last_access <= clock

\* Halving keeps the order of the stamps and leaves all of them behind the new time.
LEMMA AgedStamps ==
  ASSUME TypeOK, Stamped
  PROVE  \A s, t \in Used :
            /\ Aged(entries[s]).last_access \in Nat
            /\ Aged(entries[s]).last_access < next_clock
            /\ entries[s].last_access < entries[t].last_access
                  => Aged(entries[s]).last_access <= Aged(entries[t]).last_access
<1>1. ASSUME NEW s \in Used
      PROVE  /\ entries[s].last_access \in Nat /\ clock \in Nat
             /\ entries[s].last_access <= clock
             /\ Aged(entries[s]).last_access = IF Wrapping THEN entries[s].last_access \div 2 + 1
                                               ELSE entries[s].last_access
  BY DEF Used, TypeOK, Entries, Stamped, Aged, occupied
<1>2. CASE Wrapping
  BY <1>1, <1>2, ConfigAssumption DEF next_clock, Wrapping
<1>3. CASE ~Wrapping
  BY <1>1, <1>3 DEF next_clock
<1> QED
  BY <1>2, <1>3

\* Steps that stamp nothing.
StampsAlone ==
    /\ clock' = clock
    /\ \A s \in Slots : entries'[s].occupied =>
          occupied(s) /\ entries'[s].last_access = entries[s].last_access

\* A step that stamps nothing keeps the order.
LEMMA StampsAloneKeeps ==
  ASSUME Inv, Stamped, StampsAlone
  PROVE  Stamped' /\ RecencyKept
<1>1. Stamped'
  BY DEF Stamped, StampsAlone, occupied
<1>2. RecencyKept
  <2>1. \A s \in Used : s \in Slots /\ entries[s].last_access \in Nat
    BY DEF Used, Inv, TypeOK, Entries
  <2> QED
    BY <2>1 DEF RecencyKept, StampsAlone
<1> QED
  BY <1>1, <1>2

\* A lookup stamps one entry with the new time and ages the others.
LEMMA GetStamps ==
  ASSUME Inv, Stamped, NEW key \in Keys, ecache_get(key)
  PROVE  Stamped' /\ RecencyKept
<1>0. TypeOK /\ clock' = next_clock
  BY DEF Inv, ecache_get
<1>1. PICK v \in Slots : /\ occupied(v)
                         /\ entries' = [t \in Slots |->
                               IF t = v THEN [Aged(entries[v]) EXCEPT !.last_access = next_clock,
                                                                      !.hot = TwoQ \/ @]
                                        ELSE Aged(entries[t])]
  BY DEF ecache_get, Resident
<1>2. next_clock \in Nat /\ \A s \in Slots : Aged(entries[s]) \in Entries
                                     /\ Aged(entries[s]).occupied = entries[s].occupied
  BY <1>0, ClockType
<1>3. entries'[v].last_access = next_clock /\ entries'[v].occupied = entries[v].occupied
  <2>1. Aged(entries[v]) \in Entries /\ Aged(entries[v]).occupied = entries[v].occupied
    BY <1>2
  <2> HIDE DEF Aged
  <2> QED
    BY <1>1, <2>1 DEF Entries
<1>4. \A s \in Slots \ {v} : entries'[s] = Aged(entries[s])
  BY <1>1
<1>5. \A s, t \in Used :
            /\ Aged(entries[s]).last_access \in Nat
            /\ Aged(entries[s]).last_access < next_clock
            /\ entries[s].last_access < entries[t].last_access
                  => Aged(entries[s]).last_access <= Aged(entries[t]).last_access
  BY <1>0, AgedStamps
<1>6. Stamped'
  BY <1>0, <1>2, <1>3, <1>4, <1>5 DEF Stamped, Used, occupied
<1>7. RecencyKept
  <2> SUFFICES ASSUME NEW s \in Used, NEW t \in Used, s # t
               PROVE  /\ (entries[s].last_access < entries[t].last_access
                            /\ entries'[s].last_access # next_clock)
                            => entries'[s].last_access <= entries'[t].last_access
                      /\ entries'[t].last_access = clock' => entries'[s].last_access < clock'
    BY DEF RecencyKept
  <2>1. s \in Slots /\ t \in Slots
    BY DEF Used
  <2>2. CASE s = v
    BY <1>0, <1>2, <1>3, <1>4, <1>5, <2>1, <2>2
  <2>3. CASE t = v
    BY <1>0, <1>2, <1>3, <1>4, <1>5, <2>1, <2>3
  <2>4. CASE s # v /\ t # v
    BY <1>0, <1>2, <1>4, <1>5, <2>1, <2>4
  <2> QED
    BY <2>2, <2>3, <2>4
<1> QED
  BY <1>6, <1>7

\* So does an insertion, into a free slot.
LEMMA InsertStamps ==
  ASSUME Inv, Stamped, InsertFinish
  PROVE  Stamped' /\ RecencyKept
<1>0. TypeOK /\ clock' = next_clock
  BY DEF Inv, InsertFinish
<1> DEFINE v == Min(free_slots)
<1>1. v \in free_slots
  <2>1. free_slots \in SUBSET Nat /\ free_slots # {}
    BY ConfigAssumption DEF Slots, InsertFinish, free_slots
  <2> QED
    BY <2>1, MinIsLeast
<1>2. v \in Slots /\ ~occupied(v)
  BY <1>1 DEF free_slots
<1>3. entries'[v].last_access = next_clock
  BY <1>2 DEF InsertFinish, Blank
<1>4. \A s \in Slots \ {v} : entries'[s] = Aged(entries[s])
  BY DEF InsertFinish
<1> HIDE DEF v
<1>5. next_clock \in Nat /\ \A s \in Slots : Aged(entries[s]).occupied = entries[s].occupied
  BY <1>0, ClockType
<1>6. \A s, t \in Used :
            /\ Aged(entries[s]).last_access \in Nat
            /\ Aged(entries[s]).last_access < next_clock
            /\ entries[s].last_access < entries[t].last_access
                  => Aged(entries[s]).last_access <= Aged(entries[t]).last_access
  BY <1>0, AgedStamps
<1>7. Stamped'
  BY <1>0, <1>3, <1>4, <1>5, <1>6 DEF Stamped, Used, occupied
<1>8. \A s \in Used : s \in Slots \ {v}
  BY <1>2 DEF Used
<1>9. RecencyKept
  BY <1>0, <1>4, <1>5, <1>6, <1>8 DEF RecencyKept
<1> QED
  BY <1>7, <1>9

\* Every step keeps the stamps behind the clock and in order.
LEMMA StepStamps == Inv /\ Stamped /\ [Next]_vars => Stamped' /\ RecencyKept
<1> SUFFICES ASSUME Inv, Stamped, [Next]_vars PROVE Stamped' /\ RecencyKept
  OBVIOUS
<1>0. entries \in [Slots -> Entries]
  BY DEF Inv, TypeOK
<1>1. ASSUME NEW v \in Slots, DropsEntry(v), clock' = clock PROVE StampsAlone
  BY <1>0, <1>1 DEF DropsEntry, StampsAlone, Blank, occupied
<1>2. ASSUME NEW key \in Keys, ecache_pin(key) \/ ecache_unpin(key) PROVE StampsAlone
  <2>1. PICK v \in Slots, n \in Nat : entries' = [entries EXCEPT ![v].pins = n]
    BY <1>2, PinsKeep
  <2>2. clock' = clock
    BY <1>2 DEF ecache_pin, ecache_unpin
  <2> QED
    BY <1>0, <2>1, <2>2 DEF StampsAlone, occupied, Entries
<1>3. ASSUME NEW key \in Keys, ecache_remove(key) PROVE StampsAlone
  BY <1>1, <1>3, RemoveKeeps DEF ecache_remove, release_base
<1>4. ASSUME \/ \E key \in Keys, p \in Payloads, n \in Sizes :
                   InsertBegin(key, p, n) \/ PromoteBegin(key, p, n)
             \/ \E level \in {"warn", "critical"}, target \in Targets :
                   PressureBegin(level, target)
             \/ DestroyBegin \/ PressureFinish \/ DestroyFinish
      PROVE  StampsAlone
  <2>1. entries' = entries /\ clock' = clock
    BY <1>4 DEF InsertBegin, PromoteBegin, PressureBegin, DestroyBegin, PressureFinish,
                DestroyFinish
  <2> QED
    BY <2>1 DEF StampsAlone, occupied
<1>5. CASE ReclaimResidual
  <2>1. PICK v \in Slots : DropsResidual(v)
    BY <1>5, ReclaimResidualKeeps
  <2>2. clock' = clock
    BY <1>5 DEF ReclaimResidual, release_residual
  <2>3. StampsAlone
    BY <1>0, <2>1, <2>2 DEF DropsResidual, StampsAlone, occupied, Entries
  <2> QED
    BY <2>3, StampsAloneKeeps
<1>6. CASE ReclaimBase \/ DestroySlot
  <2>1. clock' = clock
    BY <1>6 DEF ReclaimBase, DestroySlot, release_base
  <2>2. StampsAlone
    BY <1>1, <1>6, <2>1, ReclaimBaseKeeps, DestroySlotKeeps
  <2> QED
    BY <2>2, StampsAloneKeeps
<1>7. CASE PromoteFinish
  <2>1. clock' = clock
    BY <1>7 DEF PromoteFinish
  <2>2. StampsAlone
    BY <1>0, <1>7, <2>1 DEF PromoteFinish, StampsAlone, occupied, Entries
  <2> QED
    BY <2>2, StampsAloneKeeps
<1>8. CASE ecache_init
  <2>1. \A s \in Slots : ~entries'[s].occupied
    BY <1>8 DEF ecache_init, NoEntries, Blank
  <2> QED
    BY <2>1 DEF Stamped, RecencyKept, Used, occupied
<1>9. CASE UNCHANGED vars
  <2>1. StampsAlone
    BY <1>9 DEF vars, StampsAlone, occupied
  <2> QED
    BY <2>1, StampsAloneKeeps
<1>10. ASSUME NEW key \in Keys,
             ecache_get(key) \/ ecache_pin(key) \/ ecache_unpin(key) \/ ecache_remove(key)
      PROVE  Stamped' /\ RecencyKept
  BY <1>2, <1>3, <1>10, GetStamps, StampsAloneKeeps
<1>11. CASE InsertFinish
  BY <1>11, InsertStamps
<1> QED
  BY <1>4, <1>5, <1>6, <1>7, <1>8, <1>9, <1>10, <1>11, StampsAloneKeeps DEF Next, Step

\* Recency survives the wrap: no step inverts the order of two entries it does not touch,
\* and the entry just used or admitted is newer than all others.
THEOREM RecencyCorrect == Spec => RecencyProtect
<1>1. Init => Stamped
  BY DEF Init, NoEntries, Stamped, occupied, Blank
<1>2. Inv /\ Stamped /\ [Next]_vars => Stamped' /\ [RecencyKept]_vars
  BY StepStamps
<1> QED
  BY <1>1, <1>2, InvHolds, PTL DEF Spec, RecencyProtect

(***************************************************************************)
(* Counters.                                                               *)
(***************************************************************************)
\* Sets of slots are finite.
LEMMA SlotsFinite ==
  ASSUME NEW S \in SUBSET Slots
  PROVE  IsFiniteSet(S) /\ Cardinality(S) \in Nat
<1>1. IsFiniteSet(Slots)
  BY ConfigAssumption, FS_Interval DEF Slots
<1> QED
  BY <1>1, FS_Subset, FS_CardinalityType

\* A charge for every slot; two charges that agree on all slots but v.
Charges == [Slots -> Nat]
AgreeBut(c, d, v) == \A s \in Slots \ {v} : d[s] = c[s]

\* What a change of one slot does to the number and the charges of a set of slots.
Tally(c, d, v, S) ==
    /\ SumFunctionOnSet(c, S) \in Int
    /\ Cardinality(S) \in Nat
    /\ v \in S => /\ SumFunctionOnSet(d, S \ {v}) = SumFunctionOnSet(c, S) - c[v]
                  /\ Cardinality(S \ {v}) = Cardinality(S) - 1
    /\ v \notin S => /\ SumFunctionOnSet(d, S) = SumFunctionOnSet(c, S)
                     /\ SumFunctionOnSet(d, S \cup {v}) = SumFunctionOnSet(c, S) + d[v]
                     /\ Cardinality(S \cup {v}) = Cardinality(S) + 1

\* Sums over sets of slots.
LEMMA SlotSums ==
  ASSUME NEW c \in Charges, NEW d \in Charges, NEW v \in Slots, AgreeBut(c, d, v),
         NEW S \in SUBSET Slots
  PROVE  Tally(c, d, v, S)
<1>1. IsFiniteSet(S) /\ Cardinality(S) \in Nat
  BY SlotsFinite
<1>2. \A x \in S : c[x] \in Int
  BY DEF Charges
<1>3. SumFunctionOnSet(c, S) \in Int
  BY <1>1, <1>2, SumType
<1>4. ASSUME v \in S
      PROVE  /\ SumFunctionOnSet(d, S \ {v}) = SumFunctionOnSet(c, S) - c[v]
             /\ Cardinality(S \ {v}) = Cardinality(S) - 1
  <2>1. \A x \in S : x # v => d[x] = c[x]
    BY DEF AgreeBut
  <2>2. Cardinality(S \ {v}) = Cardinality(S) - 1
    BY <1>1, <1>4, FS_RemoveElement
  <2>3. SumFunctionOnSet(d, S \ {v}) = SumFunctionOnSet(c, S) - c[v]
    <3> DEFINE T == S \ {v}
    <3>1. IsFiniteSet(T) /\ \A x \in T : c[x] \in Int /\ c[x] = d[x]
      BY <1>1, <1>2, <2>1, FS_Subset
    <3>2. SumFunctionOnSet(c, S) = c[v] + SumFunctionOnSet(c, T)
      BY <1>1, <1>2, <1>4, SumRemove
    <3>3. c[v] \in Int
      BY <1>2, <1>4
    <3> HIDE DEF T
    <3>4. SumFunctionOnSet(c, T) \in Int
      BY <3>1, SumType
    <3>5. SumFunctionOnSet(c, T) = SumFunctionOnSet(d, T)
      BY <3>1, SumSame
    <3> DEFINE x == SumFunctionOnSet(c, S)
               y == SumFunctionOnSet(c, T)
    <3>6. SumFunctionOnSet(d, T) = x - c[v]
      <4>1. x = c[v] + y /\ y \in Int /\ SumFunctionOnSet(d, T) = y
        BY <3>2, <3>4, <3>5
      <4> HIDE DEF x, y
      <4> QED
        BY <3>3, <4>1
    <3> QED
      BY <3>6 DEF T
  <2> QED
    BY <2>2, <2>3
<1>5. ASSUME v \notin S
      PROVE  /\ SumFunctionOnSet(d, S) = SumFunctionOnSet(c, S)
             /\ SumFunctionOnSet(d, S \cup {v}) = SumFunctionOnSet(c, S) + d[v]
             /\ Cardinality(S \cup {v}) = Cardinality(S) + 1
  <2>1. \A x \in S : c[x] \in Int /\ d[x] = c[x]
    BY <1>5 DEF AgreeBut, Charges
  <2>2. SumFunctionOnSet(d, S) = SumFunctionOnSet(c, S)
    BY <1>1, <2>1, SumSame
  <2>3. SumFunctionOnSet(d, S \cup {v}) = SumFunctionOnSet(c, S) + d[v]
    <3>1. d[v] \in Int
      BY DEF Charges
    <3> QED
      BY <1>1, <1>5, <2>1, <3>1, SumAdd
  <2>4. Cardinality(S \cup {v}) = Cardinality(S) + 1
    BY <1>1, <1>5, FS_AddElement
  <2> QED
    BY <2>2, <2>3, <2>4
<1> QED
  BY <1>1, <1>3, <1>4, <1>5 DEF Tally

\* A plane that is not there is charged nothing.
NoGhost == \A s \in Slots : ~has_residual(s) => entries[s].residual_charge = 0

\* The invariant types the charges and places every occupied slot in a layer.
LEMMA CacheFacts ==
  ASSUME Inv
  PROVE  /\ BaseCharges \in Charges /\ ResidualCharges \in Charges
         /\ Used \subseteq Slots /\ Residuals \subseteq Used
         /\ \A s \in Used : entries[s].key \in Keys /\ entries[s].key[1] \in Layers
         /\ \A S, l : InLayer(S, l) \subseteq S
         /\ layers \in [Layers -> LayerCounters]
<1>1. BaseCharges \in Charges /\ ResidualCharges \in Charges
  BY DEF Inv, TypeOK, Entries, BaseCharges, ResidualCharges, Charges
<1>2. Used \subseteq Slots /\ Residuals \subseteq Used
  BY DEF Used, Residuals
<1>3. \A s \in Used : entries[s].key \in Keys /\ entries[s].key[1] \in Layers
  BY DEF Used, Inv, SlotsSound, Keys
<1>4. \A S, l : InLayer(S, l) \subseteq S
  BY DEF InLayer
<1> QED
  BY <1>1, <1>2, <1>3, <1>4 DEF Inv, TypeOK

\* Calls that change no plane change no counter.
LEMMA SamePlanesCounts ==
  ASSUME NoGhost, CountersExact, SamePlanes,
         UNCHANGED <<entry_count, payload_bytes, layers>>
  PROVE  NoGhost' /\ CountersExact'
<1>1. Used' = Used /\ Residuals' = Residuals /\ Used \subseteq Slots /\ Residuals \subseteq Slots
  BY DEF SamePlanes, Used, Residuals, occupied, has_residual
<1>2. BaseCharges' = BaseCharges /\ ResidualCharges' = ResidualCharges
  BY DEF SamePlanes, BaseCharges, ResidualCharges
<1>3. \A l : InLayer(Used, l)' = InLayer(Used, l) /\ InLayer(Residuals, l)' = InLayer(Residuals, l)
  BY <1>1 DEF SamePlanes, InLayer
<1>4. CountersExact'
  BY <1>1, <1>2, <1>3 DEF CountersExact, BaseBytes, ResidualBytes
<1>5. NoGhost'
  BY DEF NoGhost, SamePlanes, has_residual
<1> QED
  BY <1>4, <1>5

\* Releasing an entry takes its charges off every counter it is part of.
LEMMA ReleaseBaseCounts ==
  ASSUME Inv, Inv', NoGhost, CountersExact, NEW v \in Slots, occupied(v), release_base(v)
  PROVE  NoGhost' /\ CountersExact'
<1> DEFINE e == entries[v]
           k == e.key[1]
<1>1. /\ \A s \in Slots \ {v} : entries'[s] = entries[s]
      /\ entries'[v] = Blank
  BY DEF release_base, Inv, TypeOK
<1>2. Blank.occupied = FALSE /\ Blank.residual = NoPayload /\ Blank.residual_charge = 0
  BY DEF Blank
<1>3. NoGhost'
  BY <1>1, <1>2 DEF NoGhost, has_residual
<1>4. /\ BaseCharges \in Charges /\ ResidualCharges \in Charges
      /\ BaseCharges' \in Charges /\ ResidualCharges' \in Charges
      /\ Used \subseteq Slots /\ Residuals \subseteq Used
      /\ k \in Layers /\ layers \in [Layers -> LayerCounters]
      /\ v \in Used
  <2>1. BaseCharges' \in Charges /\ ResidualCharges' \in Charges
    BY DEF Inv, TypeOK, Entries, BaseCharges, ResidualCharges, Charges
  <2>2. v \in Used
    BY DEF Used
  <2> QED
    BY <2>1, <2>2, CacheFacts
<1>5. /\ AgreeBut(BaseCharges, BaseCharges', v) /\ AgreeBut(ResidualCharges, ResidualCharges', v)
      /\ BaseCharges[v] = e.base_charge /\ ResidualCharges[v] = e.residual_charge
  BY <1>1 DEF BaseCharges, ResidualCharges, AgreeBut
<1>6. Used' = Used \ {v} /\ Residuals' = Residuals \ {v}
  BY <1>1, <1>2 DEF Used, Residuals, occupied, has_residual
<1>7. /\ \A l : /\ InLayer(Used, l)' = InLayer(Used, l) \ {v}
                /\ InLayer(Residuals, l)' = InLayer(Residuals, l) \ {v}
                /\ v \in InLayer(Used, l) <=> l = k
                /\ v \in InLayer(Residuals, l) <=> l = k /\ has_residual(v)
                /\ InLayer(Used, l) \in SUBSET Slots /\ InLayer(Residuals, l) \in SUBSET Slots
      /\ v \in Residuals <=> has_residual(v)
  BY <1>1, <1>4, <1>6 DEF InLayer, Residuals, occupied, Used
<1>8. has_residual(v) \/ e.residual_charge = 0
  BY DEF NoGhost
<1> DEFINE B(S) == SumFunctionOnSet(BaseCharges, S)
           R(S) == SumFunctionOnSet(ResidualCharges, S)
           BP(S) == SumFunctionOnSet(BaseCharges', S)
           RP(S) == SumFunctionOnSet(ResidualCharges', S)
<1>9. ASSUME NEW S \in SUBSET Slots
      PROVE  /\ B(S) \in Int /\ R(S) \in Int /\ Cardinality(S) \in Nat
             /\ v \in S => /\ BP(S \ {v}) = B(S) - e.base_charge
                           /\ RP(S \ {v}) = R(S) - e.residual_charge
                           /\ Cardinality(S \ {v}) = Cardinality(S) - 1
             /\ v \notin S => S \ {v} = S /\ BP(S) = B(S) /\ RP(S) = R(S)
  <2>0. Tally(BaseCharges, BaseCharges', v, S) /\ Tally(ResidualCharges, ResidualCharges', v, S)
    BY <1>4, <1>5, SlotSums
  <2>1. /\ B(S) \in Int /\ Cardinality(S) \in Nat
        /\ v \in S => /\ BP(S \ {v}) = B(S) - BaseCharges[v]
                      /\ Cardinality(S \ {v}) = Cardinality(S) - 1
        /\ v \notin S => BP(S) = B(S)
    BY <2>0 DEF Tally
  <2>2. /\ R(S) \in Int
        /\ v \in S => RP(S \ {v}) = R(S) - ResidualCharges[v]
        /\ v \notin S => RP(S) = R(S)
    BY <2>0 DEF Tally
  <2> HIDE DEF B, R, BP, RP
  <2> QED
    BY <1>5, <2>1, <2>2
<1>10. /\ e.base_charge \in Nat /\ e.residual_charge \in Nat
  BY DEF Inv, TypeOK, Entries
<1> HIDE DEF B, R, BP, RP
<1>11. (entry_count = Cardinality(Used))'
  BY <1>4, <1>6, <1>9 DEF CountersExact, release_base
<1>12. (payload_bytes = BaseBytes(Used) + ResidualBytes(Residuals))'
  <2>1. payload_bytes = B(Used) + R(Residuals)
    BY DEF CountersExact, BaseBytes, ResidualBytes, B, R
  <2>2. payload_bytes' = payload_bytes - e.residual_charge - e.base_charge
    BY DEF release_base
  <2>3. BP(Used \ {v}) = B(Used) - e.base_charge /\ B(Used) \in Int
    BY <1>4, <1>9
  <2>4. RP(Residuals \ {v}) = R(Residuals) - e.residual_charge /\ R(Residuals) \in Int
    <3>1. Residuals \in SUBSET Slots
      BY <1>4
    <3>2. CASE has_residual(v)
      BY <1>7, <1>9, <3>1, <3>2
    <3>3. CASE ~has_residual(v)
      <4>1. Residuals \ {v} = Residuals /\ RP(Residuals) = R(Residuals) /\ R(Residuals) \in Int
        BY <1>7, <1>9, <3>1, <3>3
      <4>2. RP(Residuals \ {v}) = RP(Residuals)
        BY <4>1, Zenon
      <4> QED
        BY <1>8, <3>3, <4>1, <4>2
    <3> QED
      BY <3>2, <3>3
  <2>5. payload_bytes' = BP(Used \ {v}) + RP(Residuals \ {v})
    BY <1>10, <2>1, <2>2, <2>3, <2>4
  <2> QED
    BY <1>6, <2>5 DEF BaseBytes, ResidualBytes, BP, RP
<1>13. ASSUME NEW l \in Layers
       PROVE  layers'[l] = [base_bytes |-> BP(InLayer(Used, l)'),
                            residual_bytes |-> RP(InLayer(Residuals, l)'),
                            base_entries |-> Cardinality(InLayer(Used, l)'),
                            residual_entries |-> Cardinality(InLayer(Residuals, l)')]
  <2>1. layers[l] = [base_bytes |-> B(InLayer(Used, l)), residual_bytes |-> R(InLayer(Residuals, l)),
                     base_entries |-> Cardinality(InLayer(Used, l)),
                     residual_entries |-> Cardinality(InLayer(Residuals, l))]
    BY DEF CountersExact, BaseBytes, ResidualBytes, B, R
  <2>2. CASE l # k
    <3>1. layers'[l] = layers[l]
      BY <1>4, <2>2 DEF release_base
    <3>2. v \notin InLayer(Used, l) /\ v \notin InLayer(Residuals, l)
      BY <1>7, <2>2
    <3> QED
      BY <1>7, <1>9, <2>1, <3>1, <3>2
  <2>3. CASE l = k
    <3>1. layers'[l] = [base_bytes |-> layers[l].base_bytes - e.base_charge,
                        residual_bytes |-> layers[l].residual_bytes - e.residual_charge,
                        base_entries |-> layers[l].base_entries - 1,
                        residual_entries |-> layers[l].residual_entries
                                               - IF has_residual(v) THEN 1 ELSE 0]
      BY <1>4, <2>3 DEF release_base
    <3>2. /\ BP(InLayer(Used, l)') = B(InLayer(Used, l)) - e.base_charge
          /\ Cardinality(InLayer(Used, l)') = Cardinality(InLayer(Used, l)) - 1
      BY <1>7, <1>9, <2>3
    <3>3. /\ RP(InLayer(Residuals, l)') = R(InLayer(Residuals, l)) - e.residual_charge
          /\ Cardinality(InLayer(Residuals, l)') = Cardinality(InLayer(Residuals, l))
                                                     - IF has_residual(v) THEN 1 ELSE 0
      <4>1. CASE has_residual(v)
        BY <1>7, <1>9, <2>3, <4>1
      <4>2. CASE ~has_residual(v)
        BY <1>7, <1>8, <1>9, <1>10, <2>3, <4>2
      <4> QED
        BY <4>1, <4>2
    <3> QED
      BY <2>1, <3>1, <3>2, <3>3
  <2> QED
    BY <2>2, <2>3
<1>14. CountersExact'
  BY <1>11, <1>12, <1>13 DEF CountersExact, BaseBytes, ResidualBytes, BP, RP
<1> QED
  BY <1>3, <1>14

\* Where only residual planes change, the counters of the bases stay right.
LEMMA SameBases ==
  ASSUME \A s \in Slots : /\ entries'[s].occupied = entries[s].occupied
                          /\ entries'[s].key = entries[s].key
                          /\ entries'[s].base_charge = entries[s].base_charge
  PROVE  /\ Used' = Used /\ BaseCharges' = BaseCharges
         /\ \A l : InLayer(Used, l)' = InLayer(Used, l)
<1>1. Used' = Used
  BY DEF Used, occupied
<1>2. BaseCharges' = BaseCharges
  BY DEF BaseCharges
<1>3. \A l : InLayer(Used, l)' = InLayer(Used, l)
  BY <1>1 DEF InLayer, Used
<1> QED
  BY <1>1, <1>2, <1>3

\* Releasing a residual takes its charge off the counters of its layer and the total.
LEMMA ReleaseResidualCounts ==
  ASSUME Inv, Inv', NoGhost, CountersExact, NEW v \in Slots, occupied(v), has_residual(v),
         release_residual(v)
  PROVE  NoGhost' /\ CountersExact'
<1> DEFINE e == entries[v]
           k == e.key[1]
<1>1. /\ \A s \in Slots \ {v} : entries'[s] = entries[s]
      /\ entries'[v].occupied = e.occupied /\ entries'[v].key = e.key
      /\ entries'[v].base_charge = e.base_charge
      /\ entries'[v].residual = NoPayload /\ entries'[v].residual_charge = 0
  BY DEF release_residual, Inv, TypeOK, Entries
<1>2. NoGhost'
  BY <1>1 DEF NoGhost, has_residual
<1>3. \A s \in Slots : /\ entries'[s].occupied = entries[s].occupied
                       /\ entries'[s].key = entries[s].key
                       /\ entries'[s].base_charge = entries[s].base_charge
  BY <1>1
<1>4. /\ Used' = Used /\ BaseCharges' = BaseCharges
      /\ \A l : InLayer(Used, l)' = InLayer(Used, l)
  BY <1>3, SameBases
<1>5. /\ ResidualCharges \in Charges /\ ResidualCharges' \in Charges
      /\ Used \subseteq Slots /\ Residuals \subseteq Used
      /\ k \in Layers /\ layers \in [Layers -> LayerCounters]
      /\ v \in Residuals
  <2>1. ResidualCharges' \in Charges
    BY DEF Inv, TypeOK, Entries, ResidualCharges, Charges
  <2>2. v \in Used /\ v \in Residuals
    BY DEF Used, Residuals
  <2> QED
    BY <2>1, <2>2, CacheFacts
<1>6. AgreeBut(ResidualCharges, ResidualCharges', v) /\ ResidualCharges[v] = e.residual_charge
  BY <1>1 DEF ResidualCharges, AgreeBut
<1>7. Residuals' = Residuals \ {v}
  BY <1>1, <1>4 DEF Used, Residuals, has_residual
<1>8. \A l : /\ InLayer(Residuals, l)' = InLayer(Residuals, l) \ {v}
             /\ v \in InLayer(Residuals, l) <=> l = k
             /\ InLayer(Residuals, l) \in SUBSET Slots
  BY <1>1, <1>5, <1>7 DEF InLayer, occupied
<1> DEFINE R(S) == SumFunctionOnSet(ResidualCharges, S)
           RP(S) == SumFunctionOnSet(ResidualCharges', S)
<1>9. ASSUME NEW S \in SUBSET Slots
      PROVE  /\ R(S) \in Int /\ Cardinality(S) \in Nat
             /\ v \in S => /\ RP(S \ {v}) = R(S) - e.residual_charge
                           /\ Cardinality(S \ {v}) = Cardinality(S) - 1
             /\ v \notin S => S \ {v} = S /\ RP(S) = R(S)
  <2>0. Tally(ResidualCharges, ResidualCharges', v, S)
    BY <1>5, <1>6, SlotSums
  <2>1. /\ R(S) \in Int /\ Cardinality(S) \in Nat
        /\ v \in S => /\ RP(S \ {v}) = R(S) - ResidualCharges[v]
                      /\ Cardinality(S \ {v}) = Cardinality(S) - 1
        /\ v \notin S => RP(S) = R(S)
    BY <2>0 DEF Tally
  <2> HIDE DEF R, RP
  <2> QED
    BY <1>6, <2>1
<1>10. e.residual_charge \in Nat
  BY DEF Inv, TypeOK, Entries
<1> HIDE DEF R, RP
<1>11. (entry_count = Cardinality(Used))'
  BY <1>4 DEF CountersExact, release_residual
<1>12. (payload_bytes = BaseBytes(Used) + ResidualBytes(Residuals))'
  <2>1. payload_bytes = BaseBytes(Used) + R(Residuals)
    BY DEF CountersExact, ResidualBytes, R
  <2>2. BaseBytes(Used)' = BaseBytes(Used) /\ BaseBytes(Used) \in Int
    <3>1. \A s \in Used : BaseCharges[s] \in Int
      BY <1>5 DEF BaseCharges, Inv, TypeOK, Entries
    <3>2. IsFiniteSet(Used)
      BY <1>5, SlotsFinite
    <3>3. SumFunctionOnSet(BaseCharges, Used) \in Int
      BY <3>1, <3>2, SumType
    <3> QED
      BY <1>4, <3>3 DEF BaseBytes
  <2>3. payload_bytes' = payload_bytes - e.residual_charge
    BY DEF release_residual
  <2>4. RP(Residuals \ {v}) = R(Residuals) - e.residual_charge /\ R(Residuals) \in Int
    BY <1>5, <1>9
  <2>5. payload_bytes' = BaseBytes(Used)' + RP(Residuals \ {v})
    BY <1>10, <2>1, <2>2, <2>3, <2>4
  <2> QED
    BY <1>7, <2>5 DEF ResidualBytes, RP
<1>13. ASSUME NEW l \in Layers
       PROVE  layers'[l] = [base_bytes |-> BaseBytes(InLayer(Used, l)),
                            residual_bytes |-> RP(InLayer(Residuals, l)'),
                            base_entries |-> Cardinality(InLayer(Used, l)),
                            residual_entries |-> Cardinality(InLayer(Residuals, l)')]
  <2>1. layers[l] = [base_bytes |-> BaseBytes(InLayer(Used, l)),
                     residual_bytes |-> R(InLayer(Residuals, l)),
                     base_entries |-> Cardinality(InLayer(Used, l)),
                     residual_entries |-> Cardinality(InLayer(Residuals, l))]
    BY DEF CountersExact, ResidualBytes, R
  <2>2. CASE l # k
    <3>1. layers'[l] = layers[l]
      BY <1>5, <2>2 DEF release_residual
    <3>2. v \notin InLayer(Residuals, l)
      BY <1>8, <2>2
    <3> QED
      BY <1>8, <1>9, <2>1, <3>1, <3>2
  <2>3. CASE l = k
    <3>1. layers'[l] = [base_bytes |-> layers[l].base_bytes,
                        residual_bytes |-> layers[l].residual_bytes - e.residual_charge,
                        base_entries |-> layers[l].base_entries,
                        residual_entries |-> layers[l].residual_entries - 1]
      <4>1. layers'[l] = [layers[l] EXCEPT !.residual_bytes = @ - e.residual_charge,
                                           !.residual_entries = @ - 1]
        BY <1>5, <2>3 DEF release_residual
      <4>2. layers[l] \in LayerCounters
        BY <1>5
      <4> QED
        BY <4>1, <4>2 DEF LayerCounters
    <3>2. /\ RP(InLayer(Residuals, l)') = R(InLayer(Residuals, l)) - e.residual_charge
          /\ Cardinality(InLayer(Residuals, l)') = Cardinality(InLayer(Residuals, l)) - 1
      BY <1>8, <1>9, <2>3
    <3> QED
      BY <2>1, <3>1, <3>2
  <2> QED
    BY <2>2, <2>3
<1>14. CountersExact'
  BY <1>4, <1>11, <1>12, <1>13 DEF CountersExact, BaseBytes, ResidualBytes, RP
<1> QED
  BY <1>2, <1>14

\* A promotion adds the charge of the new residual to the same counters.
LEMMA PromoteCounts ==
  ASSUME Inv, Inv', NoGhost, CountersExact, PromoteFinish
  PROVE  NoGhost' /\ CountersExact'
<1> DEFINE v == call.slot
           e == entries[v]
           k == e.key[1]
           n == call.amount
<1>0. /\ v \in Slots /\ occupied(v) /\ e.key = call.key /\ ~has_residual(v) /\ n \in Nat
      /\ call.payload \in Payloads /\ call.payload # NoPayload
  BY ConfigAssumption DEF Inv, CallSound, PromoteFinish, TypeOK, Calls
<1>1. /\ \A s \in Slots \ {v} : entries'[s] = entries[s]
      /\ entries'[v].occupied = e.occupied /\ entries'[v].key = e.key
      /\ entries'[v].base_charge = e.base_charge
      /\ entries'[v].residual = call.payload /\ entries'[v].residual_charge = n
  <2>1. /\ entries' = [entries EXCEPT ![v].residual = call.payload, ![v].residual_charge = n]
        /\ entries \in [Slots -> Entries]
    BY DEF PromoteFinish, Inv, TypeOK
  <2> HIDE DEF v, n
  <2> QED
    BY <1>0, <2>1 DEF Entries
<1>2. NoGhost'
  BY <1>0, <1>1 DEF NoGhost, has_residual
<1>3. \A s \in Slots : /\ entries'[s].occupied = entries[s].occupied
                       /\ entries'[s].key = entries[s].key
                       /\ entries'[s].base_charge = entries[s].base_charge
  BY <1>1
<1>4. /\ Used' = Used /\ BaseCharges' = BaseCharges
      /\ \A l : InLayer(Used, l)' = InLayer(Used, l)
  BY <1>3, SameBases
<1>5. /\ ResidualCharges \in Charges /\ ResidualCharges' \in Charges
      /\ Used \subseteq Slots /\ Residuals \subseteq Used
      /\ k \in Layers /\ layers \in [Layers -> LayerCounters]
      /\ v \notin Residuals /\ v \in Used
  <2>1. ResidualCharges' \in Charges
    BY DEF Inv, TypeOK, Entries, ResidualCharges, Charges
  <2>2. v \in Used /\ v \notin Residuals
    BY <1>0 DEF Used, Residuals
  <2> QED
    BY <2>1, <2>2, CacheFacts
<1>6. AgreeBut(ResidualCharges, ResidualCharges', v) /\ ResidualCharges'[v] = n
  BY <1>0, <1>1 DEF ResidualCharges, AgreeBut
<1>7. Residuals' = Residuals \cup {v}
  <2>1. \A s \in Slots : entries'[s].residual # NoPayload <=> s = v \/ has_residual(s)
    BY <1>0, <1>1 DEF has_residual
  <2>2. Residuals' = {s \in Used : entries'[s].residual # NoPayload}
    BY <1>4 DEF Residuals, has_residual
  <2> QED
    BY <1>5, <2>1, <2>2 DEF Residuals
<1>8. \A l : /\ l = k => InLayer(Residuals, l)' = InLayer(Residuals, l) \cup {v}
             /\ l # k => InLayer(Residuals, l)' = InLayer(Residuals, l)
             /\ v \notin InLayer(Residuals, l)
             /\ InLayer(Residuals, l) \in SUBSET Slots
  <2>1. \A l : InLayer(Residuals, l)' = InLayer(Residuals \cup {v}, l)
    BY <1>3, <1>5, <1>7 DEF InLayer
  <2> SUFFICES ASSUME NEW l
               PROVE  /\ l = k => InLayer(Residuals \cup {v}, l) = InLayer(Residuals, l) \cup {v}
                      /\ l # k => InLayer(Residuals \cup {v}, l) = InLayer(Residuals, l)
                      /\ v \notin InLayer(Residuals, l)
                      /\ InLayer(Residuals, l) \in SUBSET Slots
    BY <2>1
  <2>2. e.occupied
    BY <1>0 DEF occupied
  <2> HIDE DEF v
  <2> QED
    BY <1>5, <2>2 DEF InLayer
<1> DEFINE R(S) == SumFunctionOnSet(ResidualCharges, S)
           RP(S) == SumFunctionOnSet(ResidualCharges', S)
<1>9. ASSUME NEW S \in SUBSET Slots, v \notin S
      PROVE  /\ R(S) \in Int /\ Cardinality(S) \in Nat
             /\ RP(S \cup {v}) = R(S) + n
             /\ Cardinality(S \cup {v}) = Cardinality(S) + 1
             /\ RP(S) = R(S)
  <2> HIDE DEF v, n
  <2>0. Tally(ResidualCharges, ResidualCharges', v, S)
    BY <1>0, <1>5, <1>6, SlotSums
  <2>1. /\ R(S) \in Int /\ Cardinality(S) \in Nat
        /\ RP(S \cup {v}) = R(S) + ResidualCharges'[v]
        /\ Cardinality(S \cup {v}) = Cardinality(S) + 1
        /\ RP(S) = R(S)
    BY <1>9, <2>0 DEF Tally
  <2> HIDE DEF R, RP
  <2> QED
    BY <1>6, <2>1
<1> HIDE DEF R, RP
<1>11. (entry_count = Cardinality(Used))'
  BY <1>4 DEF CountersExact, PromoteFinish
<1>12. (payload_bytes = BaseBytes(Used) + ResidualBytes(Residuals))'
  <2>1. payload_bytes = BaseBytes(Used) + R(Residuals)
    BY DEF CountersExact, ResidualBytes, R
  <2>2. BaseBytes(Used)' = BaseBytes(Used) /\ BaseBytes(Used) \in Int
    <3>1. \A s \in Used : BaseCharges[s] \in Int
      BY <1>5 DEF BaseCharges, Inv, TypeOK, Entries
    <3>2. IsFiniteSet(Used)
      BY <1>5, SlotsFinite
    <3>3. SumFunctionOnSet(BaseCharges, Used) \in Int
      BY <3>1, <3>2, SumType
    <3> QED
      BY <1>4, <3>3 DEF BaseBytes
  <2>3. payload_bytes' = payload_bytes + n
    BY DEF PromoteFinish
  <2>4. RP(Residuals \cup {v}) = R(Residuals) + n /\ R(Residuals) \in Int
    BY <1>5, <1>9
  <2>5. payload_bytes' = BaseBytes(Used)' + RP(Residuals \cup {v})
    BY <1>0, <2>1, <2>2, <2>3, <2>4
  <2> QED
    BY <1>7, <2>5 DEF ResidualBytes, RP
<1>13. ASSUME NEW l \in Layers
       PROVE  layers'[l] = [base_bytes |-> BaseBytes(InLayer(Used, l)),
                            residual_bytes |-> RP(InLayer(Residuals, l)'),
                            base_entries |-> Cardinality(InLayer(Used, l)),
                            residual_entries |-> Cardinality(InLayer(Residuals, l)')]
  <2>1. layers[l] = [base_bytes |-> BaseBytes(InLayer(Used, l)),
                     residual_bytes |-> R(InLayer(Residuals, l)),
                     base_entries |-> Cardinality(InLayer(Used, l)),
                     residual_entries |-> Cardinality(InLayer(Residuals, l))]
    BY DEF CountersExact, ResidualBytes, R
  <2>2. CASE l # k
    <3>1. layers'[l] = layers[l]
      BY <1>0, <1>5, <2>2 DEF PromoteFinish
    <3> QED
      BY <1>8, <1>9, <2>1, <2>2, <3>1
  <2>3. CASE l = k
    <3>1. layers'[l] = [base_bytes |-> layers[l].base_bytes,
                        residual_bytes |-> layers[l].residual_bytes + n,
                        base_entries |-> layers[l].base_entries,
                        residual_entries |-> layers[l].residual_entries + 1]
      <4>1. layers'[l] = [layers[l] EXCEPT !.residual_bytes = @ + n,
                                           !.residual_entries = @ + 1]
        BY <1>0, <1>5, <2>3 DEF PromoteFinish
      <4>2. layers[l] \in LayerCounters
        BY <1>5
      <4> QED
        BY <4>1, <4>2 DEF LayerCounters
    <3>2. /\ RP(InLayer(Residuals, l)') = R(InLayer(Residuals, l)) + n
          /\ Cardinality(InLayer(Residuals, l)') = Cardinality(InLayer(Residuals, l)) + 1
      BY <1>8, <1>9, <2>3
    <3> QED
      BY <2>1, <3>1, <3>2
  <2> QED
    BY <2>2, <2>3
<1>14. CountersExact'
  BY <1>4, <1>11, <1>12, <1>13 DEF CountersExact, BaseBytes, ResidualBytes, RP
<1> QED
  BY <1>2, <1>14

\* An insertion adds the charge of the new base to the counters of its layer and the total.
LEMMA InsertCounts ==
  ASSUME Inv, Inv', NoGhost, CountersExact, InsertFinish
  PROVE  NoGhost' /\ CountersExact'
<1> DEFINE v == Min(free_slots)
           k == call.key[1]
           n == call.amount
<1>0. /\ v \in Slots /\ ~occupied(v) /\ n \in Nat /\ call.key \in Keys /\ k \in Layers
  <2>1. free_slots \in SUBSET Nat /\ free_slots # {}
    BY ConfigAssumption DEF Slots, InsertFinish, free_slots
  <2>2. v \in free_slots
    BY <2>1, MinIsLeast
  <2>3. n \in Nat /\ call.key \in Keys /\ k \in Layers
    BY DEF Inv, CallSound, InsertFinish, TypeOK, Calls, Keys
  <2> QED
    BY <2>2, <2>3 DEF free_slots
<1>1. /\ \A s \in Slots \ {v} : entries'[s] = Aged(entries[s])
      /\ entries'[v].occupied = TRUE /\ entries'[v].key = call.key
      /\ entries'[v].base_charge = n
      /\ entries'[v].residual = NoPayload /\ entries'[v].residual_charge = 0
  BY <1>0 DEF InsertFinish, Blank
<1>a. entries[v].residual = NoPayload /\ entries[v].residual_charge = 0
  <2>1. entries[v] = Blank
    BY <1>0 DEF Inv, SlotsSound
  <2> QED
    BY <2>1 DEF Blank
<1>b. \A s \in Slots \ {v} : /\ entries'[s].occupied = entries[s].occupied
                             /\ entries'[s].key = entries[s].key
                             /\ entries'[s].residual = entries[s].residual
                             /\ entries'[s].base_charge = entries[s].base_charge
                             /\ entries'[s].residual_charge = entries[s].residual_charge
  BY <1>1, ClockType DEF Inv
<1> HIDE DEF v
<1>2. NoGhost'
  BY <1>0, <1>1, <1>b DEF NoGhost, has_residual
<1>4. Used' = Used \cup {v} /\ v \notin Used /\ Residuals' = Residuals /\ v \notin Residuals
  <2>1. Used' = Used \cup {v} /\ v \notin Used
    BY <1>0, <1>1, <1>b DEF Used, occupied
  <2>2. Residuals' = {s \in Used \cup {v} : entries'[s].residual # NoPayload}
    BY <2>1 DEF Residuals, has_residual
  <2>3. Used \subseteq Slots
    BY DEF Used
  <2> QED
    BY <1>1, <1>b, <2>1, <2>2, <2>3 DEF Residuals, has_residual
<1>5. /\ BaseCharges \in Charges /\ BaseCharges' \in Charges /\ ResidualCharges' = ResidualCharges
      /\ Used \subseteq Slots /\ Residuals \subseteq Used
      /\ layers \in [Layers -> LayerCounters]
  <2>1. BaseCharges' \in Charges
    BY DEF Inv, TypeOK, Entries, BaseCharges, Charges
  <2>2. ResidualCharges' = ResidualCharges
    BY <1>1, <1>a, <1>b DEF ResidualCharges
  <2> QED
    BY <2>1, <2>2, CacheFacts
<1>6. AgreeBut(BaseCharges, BaseCharges', v) /\ BaseCharges'[v] = n
  BY <1>0, <1>1, <1>b DEF BaseCharges, AgreeBut
<1>7. \A l : InLayer(Residuals, l)' = InLayer(Residuals, l)
  BY <1>b, <1>4, <1>5 DEF InLayer
<1>8. \A l : /\ l = k => InLayer(Used, l)' = InLayer(Used, l) \cup {v}
             /\ l # k => InLayer(Used, l)' = InLayer(Used, l)
             /\ v \notin InLayer(Used, l)
             /\ InLayer(Used, l) \in SUBSET Slots
  <2> SUFFICES ASSUME NEW l
               PROVE  /\ l = k => InLayer(Used, l)' = InLayer(Used, l) \cup {v}
                      /\ l # k => InLayer(Used, l)' = InLayer(Used, l)
                      /\ v \notin InLayer(Used, l)
                      /\ InLayer(Used, l) \in SUBSET Slots
    OBVIOUS
  <2>1. InLayer(Used, l)' = {s \in Used \cup {v} : entries'[s].occupied /\ entries'[s].key[1] = l}
    BY <1>4 DEF InLayer
  <2>2. \A s \in Used : s \in Slots \ {v}
    BY <1>4, <1>5
  <2> QED
    BY <1>1, <1>b, <1>4, <1>5, <2>1, <2>2 DEF InLayer
<1> DEFINE B(S) == SumFunctionOnSet(BaseCharges, S)
           BP(S) == SumFunctionOnSet(BaseCharges', S)
<1>9. ASSUME NEW S \in SUBSET Slots, v \notin S
      PROVE  /\ B(S) \in Int /\ Cardinality(S) \in Nat
             /\ BP(S \cup {v}) = B(S) + n
             /\ Cardinality(S \cup {v}) = Cardinality(S) + 1
             /\ BP(S) = B(S)
  <2> HIDE DEF n
  <2>0. Tally(BaseCharges, BaseCharges', v, S)
    BY <1>0, <1>5, <1>6, SlotSums
  <2>1. /\ B(S) \in Int /\ Cardinality(S) \in Nat
        /\ BP(S \cup {v}) = B(S) + BaseCharges'[v]
        /\ Cardinality(S \cup {v}) = Cardinality(S) + 1
        /\ BP(S) = B(S)
    BY <1>9, <2>0 DEF Tally
  <2> HIDE DEF B, BP
  <2> QED
    BY <1>6, <2>1
<1> HIDE DEF B, BP
<1>11. (entry_count = Cardinality(Used))'
  BY <1>4, <1>5, <1>9 DEF CountersExact, InsertFinish
<1>12. (payload_bytes = BaseBytes(Used) + ResidualBytes(Residuals))'
  <2>1. payload_bytes = B(Used) + ResidualBytes(Residuals)
    BY DEF CountersExact, BaseBytes, B
  <2>2. ResidualBytes(Residuals)' = ResidualBytes(Residuals) /\ ResidualBytes(Residuals) \in Int
    <3>1. \A s \in Residuals : ResidualCharges[s] \in Int
      BY <1>5 DEF ResidualCharges, Inv, TypeOK, Entries
    <3>2. IsFiniteSet(Residuals)
      BY <1>5, SlotsFinite
    <3>3. SumFunctionOnSet(ResidualCharges, Residuals) \in Int
      BY <3>1, <3>2, SumType
    <3> QED
      BY <1>4, <1>5, <3>3 DEF ResidualBytes
  <2>3. payload_bytes' = payload_bytes + n
    BY DEF InsertFinish
  <2>4. BP(Used \cup {v}) = B(Used) + n /\ B(Used) \in Int
    BY <1>4, <1>5, <1>9
  <2>5. payload_bytes' = BP(Used \cup {v}) + ResidualBytes(Residuals)'
    BY <1>0, <2>1, <2>2, <2>3, <2>4
  <2> QED
    BY <1>4, <2>5 DEF BaseBytes, BP
<1>13. ASSUME NEW l \in Layers
       PROVE  layers'[l] = [base_bytes |-> BP(InLayer(Used, l)'),
                            residual_bytes |-> ResidualBytes(InLayer(Residuals, l)),
                            base_entries |-> Cardinality(InLayer(Used, l)'),
                            residual_entries |-> Cardinality(InLayer(Residuals, l))]
  <2>1. layers[l] = [base_bytes |-> B(InLayer(Used, l)),
                     residual_bytes |-> ResidualBytes(InLayer(Residuals, l)),
                     base_entries |-> Cardinality(InLayer(Used, l)),
                     residual_entries |-> Cardinality(InLayer(Residuals, l))]
    BY DEF CountersExact, BaseBytes, B
  <2>2. CASE l # k
    <3>1. layers'[l] = layers[l]
      BY <1>0, <1>5, <2>2 DEF InsertFinish
    <3> QED
      BY <1>8, <1>9, <2>1, <2>2, <3>1
  <2>3. CASE l = k
    <3>1. layers'[l] = [base_bytes |-> layers[l].base_bytes + n,
                        residual_bytes |-> layers[l].residual_bytes,
                        base_entries |-> layers[l].base_entries + 1,
                        residual_entries |-> layers[l].residual_entries]
      <4>1. layers'[l] = [layers[l] EXCEPT !.base_bytes = @ + n,
                                           !.base_entries = @ + 1]
        BY <1>0, <1>5, <2>3 DEF InsertFinish
      <4>2. layers[l] \in LayerCounters
        BY <1>5
      <4> QED
        BY <4>1, <4>2 DEF LayerCounters
    <3>2. /\ BP(InLayer(Used, l)') = B(InLayer(Used, l)) + n
          /\ Cardinality(InLayer(Used, l)') = Cardinality(InLayer(Used, l)) + 1
      BY <1>8, <1>9, <2>3
    <3> QED
      BY <2>1, <3>1, <3>2
  <2> QED
    BY <2>2, <2>3
<1>14. CountersExact'
  <2>1. \A l : ResidualBytes(InLayer(Residuals, l))' = ResidualBytes(InLayer(Residuals, l))
    BY <1>5, <1>7 DEF ResidualBytes
  <2> QED
    BY <1>7, <1>11, <1>12, <1>13, <2>1 DEF CountersExact, BaseBytes, BP
<1> QED
  BY <1>2, <1>14

\* An empty cache counts nothing.
LEMMA EmptyCounts ==
  ASSUME \A s \in Slots : entries[s] = Blank,
         entry_count = 0, payload_bytes = 0, layers = NoCounters
  PROVE  NoGhost /\ CountersExact
<1>1. NoGhost
  BY DEF NoGhost, Blank
<1>2. Used = {} /\ Residuals = {} /\ \A l : InLayer(Used, l) = {} /\ InLayer(Residuals, l) = {}
  BY DEF Used, Residuals, InLayer, occupied, Blank
<1>3. /\ BaseBytes({}) = 0 /\ ResidualBytes({}) = 0 /\ Cardinality({}) = 0
  BY SumEmpty, FS_EmptySet DEF BaseBytes, ResidualBytes
<1>4. BaseBytes(Used) = 0 /\ ResidualBytes(Residuals) = 0 /\ Cardinality(Used) = 0
  BY <1>2, <1>3, Zenon
<1>5. \A l : /\ BaseBytes(InLayer(Used, l)) = 0 /\ ResidualBytes(InLayer(Residuals, l)) = 0
             /\ Cardinality(InLayer(Used, l)) = 0 /\ Cardinality(InLayer(Residuals, l)) = 0
  BY <1>2, <1>3, Zenon
<1>6. CountersExact
  BY <1>4, <1>5 DEF CountersExact, NoCounters
<1> QED
  BY <1>1, <1>6

EmptyFact == (\A s \in Slots : entries[s] = Blank) /\ entry_count = 0 /\ payload_bytes = 0
                 /\ layers = NoCounters => NoGhost /\ CountersExact
\* The same for a cache that a step empties.
LEMMA EmptyCountsNext == EmptyFact'
<1>1. EmptyFact
  BY EmptyCounts DEF EmptyFact
<1> QED
  BY <1>1, PTL

\* Every step keeps the counters exact.
LEMMA StepCounts == Inv /\ NoGhost /\ CountersExact /\ [Next]_vars => NoGhost' /\ CountersExact'
<1> SUFFICES ASSUME Inv, NoGhost, CountersExact, [Next]_vars PROVE NoGhost' /\ CountersExact'
  OBVIOUS
<1>0. Inv'
  BY NextInv
<1>1. ASSUME NEW key \in Keys, ecache_get(key) \/ ecache_pin(key) \/ ecache_unpin(key)
      PROVE  NoGhost' /\ CountersExact'
  <2>1. SamePlanes
    BY <1>1, GetKeeps, PinsKeep
  <2>2. UNCHANGED <<entry_count, payload_bytes, layers>>
    BY <1>1 DEF ecache_get, ecache_pin, ecache_unpin
  <2> QED
    BY <2>1, <2>2, SamePlanesCounts
<1>2. ASSUME NEW key \in Keys, ecache_remove(key)
      PROVE  NoGhost' /\ CountersExact'
  BY <1>0, <1>2, ReleaseBaseCounts DEF ecache_remove, Resident
<1>3. ASSUME UNCHANGED <<entries, entry_count, payload_bytes, layers>>
      PROVE  NoGhost' /\ CountersExact'
  <2>1. SamePlanes
    BY <1>3 DEF SamePlanes
  <2> QED
    BY <1>3, <2>1, SamePlanesCounts
<1>4. ASSUME \/ \E key \in Keys, p \in Payloads, n \in Sizes :
                   InsertBegin(key, p, n) \/ PromoteBegin(key, p, n)
             \/ \E level \in {"warn", "critical"}, target \in Targets :
                   PressureBegin(level, target)
             \/ DestroyBegin \/ PressureFinish \/ DestroyFinish
      PROVE  NoGhost' /\ CountersExact'
  <2>1. UNCHANGED <<entries, entry_count, payload_bytes, layers>>
    BY <1>4 DEF InsertBegin, PromoteBegin, PressureBegin, DestroyBegin, PressureFinish,
                DestroyFinish
  <2> QED
    BY <1>3, <2>1
<1>5. CASE ReclaimResidual
  <2>1. /\ choose_residual \in Slots /\ occupied(choose_residual) /\ has_residual(choose_residual)
        /\ release_residual(choose_residual)
    BY <1>5, ResidualVictim DEF Inv, ReclaimResidual, EligibleResiduals
  <2> QED
    BY <1>0, <2>1, ReleaseResidualCounts
<1>6. CASE ReclaimBase
  <2> DEFINE v == choose_base(call.slot, {})
  <2>1. v \in Slots /\ occupied(v) /\ release_base(v)
    BY <1>6, BaseVictim DEF Inv, ReclaimBase, Evictable, base_floor_allows
  <2> HIDE DEF v
  <2> QED
    BY <1>0, <2>1, ReleaseBaseCounts
<1>7. CASE DestroySlot
  <2> DEFINE v == Min(Slots \ free_slots)
  <2>1. Slots \ free_slots \in SUBSET Nat /\ Slots \ free_slots # {}
    BY <1>7, ConfigAssumption DEF Slots, DestroySlot
  <2>2. v \in Slots /\ occupied(v) /\ release_base(v)
    BY <1>7, <2>1, MinIsLeast DEF DestroySlot, free_slots
  <2> HIDE DEF v
  <2> QED
    BY <1>0, <2>2, ReleaseBaseCounts
<1>8. CASE ecache_init
  BY <1>8, EmptyCountsNext DEF EmptyFact, ecache_init, NoEntries
<1>9. CASE InsertFinish
  BY <1>0, <1>9, InsertCounts
<1>10. CASE PromoteFinish
  BY <1>0, <1>10, PromoteCounts
<1>11. CASE UNCHANGED vars
  BY <1>3, <1>11 DEF vars
<1> QED
  BY <1>1, <1>2, <1>4, <1>5, <1>6, <1>7, <1>8, <1>9, <1>10, <1>11 DEF Next, Step

\* The counters are exact in every reachable state.
LEMMA CountsHold == Spec => [](NoGhost /\ CountersExact)
<1>1. Init => NoGhost /\ CountersExact
  BY EmptyCounts DEF Init, NoEntries
<1>2. Inv /\ (NoGhost /\ CountersExact) /\ [Next]_vars => (NoGhost /\ CountersExact)'
  BY StepCounts
<1> QED
  BY <1>1, <1>2, InvHolds, PTL DEF Spec

\* The incremental counters (entries, bytes, and both per layer) equal what the entries add
\* up to, at every callback and between calls: what ecache_validate checks never fails.
THEOREM CountersCorrect == Spec => []CountersExact
BY CountsHold, PTL

\* The steps of a call in progress that leave it in progress are turns of its loop.
LEMMA LoopTurns ==
  ASSUME Inv, Next, call.op # "none", call'.op = call.op
  PROVE  /\ ReclaimResidual \/ ReclaimBase \/ DestroySlot
         /\ DestroySlot => call.op = "destroy"
<1>1. Idle.op = "none" /\ call # Idle
  BY DEF Idle, Request
<1>2. ~ \E key \in Keys : \/ ecache_get(key) \/ ecache_pin(key) \/ ecache_unpin(key)
                          \/ ecache_remove(key)
  BY <1>1 DEF ecache_get, ecache_pin, ecache_unpin, ecache_remove
<1>3. ~ \E key \in Keys, p \in Payloads, n \in Sizes :
            InsertBegin(key, p, n) \/ PromoteBegin(key, p, n)
  BY <1>1 DEF InsertBegin, PromoteBegin
<1>4. ~ \E level \in {"warn", "critical"}, target \in Targets : PressureBegin(level, target)
  BY <1>1 DEF PressureBegin
<1>5. ~DestroyBegin /\ ~InsertFinish /\ ~PromoteFinish /\ ~PressureFinish /\ ~ecache_init
  BY <1>1 DEF DestroyBegin, InsertFinish, PromoteFinish, PressureFinish, ecache_init
<1>6. ~DestroyFinish
  BY DEF DestroyFinish, Request
<1>7. DestroySlot => call.op = "destroy"
  BY DEF DestroySlot
<1> QED
  BY <1>2, <1>3, <1>4, <1>5, <1>6, <1>7 DEF Next, Step

\* Evicting a base that base_floor_allows leaves its layer at or above its floors.
LEMMA ReclaimKeepsFloors ==
  ASSUME Inv, CountersExact, Inv', CountersExact', ReclaimResidual \/ ReclaimBase
  PROVE  FloorsKept
<1> SUFFICES ASSUME NEW l \in Layers, LayerBases(l)' < LayerBases(l)
             PROVE  LayerBases(l)' >= MinBaseEntries[l] /\ LayerBaseBytes(l)' >= MinBaseBytes[l]
  BY DEF FloorsKept
<1>1. /\ LayerBases(l) = layers[l].base_entries /\ LayerBaseBytes(l) = layers[l].base_bytes
  <2>1. layers[l] = [base_bytes |-> LayerBaseBytes(l),
                     residual_bytes |-> ResidualBytes(InLayer(Residuals, l)),
                     base_entries |-> LayerBases(l),
                     residual_entries |-> Cardinality(InLayer(Residuals, l))]
    BY DEF CountersExact, LayerBases, LayerBaseBytes
  <2> QED
    BY <2>1
<1>2. /\ LayerBases(l)' = layers'[l].base_entries /\ LayerBaseBytes(l)' = layers'[l].base_bytes
  <2>1. layers'[l] = [base_bytes |-> LayerBaseBytes(l)',
                      residual_bytes |-> ResidualBytes(InLayer(Residuals, l))',
                      base_entries |-> LayerBases(l)',
                      residual_entries |-> Cardinality(InLayer(Residuals, l))']
    BY DEF CountersExact, LayerBases, LayerBaseBytes
  <2> QED
    BY <2>1
<1>3. layers \in [Layers -> LayerCounters] /\ entries \in [Slots -> Entries]
  BY DEF Inv, TypeOK
<1>4. layers[l] \in LayerCounters
  BY <1>3
<1>5. layers[l].base_entries \in Int /\ layers[l].base_bytes \in Int
  BY <1>4 DEF LayerCounters
<1>6. CASE ReclaimResidual
  <2> DEFINE k == entries[choose_residual].key[1]
             m == entries[choose_residual].residual_charge
  <2>1. layers' = [layers EXCEPT ![k].residual_bytes = @ - m, ![k].residual_entries = @ - 1]
    BY <1>6 DEF ReclaimResidual, release_residual
  <2> HIDE DEF k, m
  <2>2. layers'[l].base_entries = layers[l].base_entries
    BY <1>3, <1>4, <2>1 DEF LayerCounters
  <2> QED
    BY <1>1, <1>2, <1>5, <2>2
<1>7. CASE ReclaimBase
  <2> DEFINE v == choose_base(call.slot, {})
             k == entries[v].key[1]
  <2>1. v \in Slots /\ occupied(v) /\ release_base(v) /\ base_floor_allows(v, {})
    BY <1>7, BaseVictim DEF Inv, ReclaimBase, Evictable, base_floor_allows
  <2> HIDE DEF v
  <2>2. k \in Layers /\ entries[v].base_charge \in Nat
    BY <1>3, <2>1 DEF Inv, SlotsSound, Keys, Entries
  <2>3. /\ BaseBytes(InLayer({}, k)) = 0 /\ Cardinality(InLayer({}, k)) = 0
    <3>1. InLayer({}, k) = {}
      BY DEF InLayer
    <3>2. BaseBytes({}) = 0 /\ Cardinality({}) = 0
      BY SumEmpty, FS_EmptySet DEF BaseBytes
    <3> QED
      BY <3>1, <3>2, Zenon
  <2>4. /\ l # k => layers'[l] = layers[l]
        /\ l = k => /\ layers'[l].base_bytes = layers[l].base_bytes - entries[v].base_charge
                    /\ layers'[l].base_entries = layers[l].base_entries - 1
    BY <1>3, <2>1, <2>2 DEF release_base
  <2>5. l = k
    BY <1>1, <1>2, <1>5, <2>4
  <2>6. /\ (layers[k].base_entries - 0) - 1 >= MinBaseEntries[k]
        /\ (layers[k].base_bytes - 0) - entries[v].base_charge >= MinBaseBytes[k]
    BY <2>1, <2>3 DEF base_floor_allows
  <2> QED
    BY <1>2, <1>5, <2>2, <2>4, <2>5, <2>6
<1> QED
  BY <1>6, <1>7

\* Only a turn of a loop can take a base under an admission or CRITICAL.
LEMMA StepKeepsFloors ==
  Inv /\ CountersExact /\ Inv' /\ CountersExact' /\ [Next]_vars => [FloorsKept]_vars
<1> SUFFICES ASSUME Inv, CountersExact, Inv', CountersExact', Next PROVE FloorsKept
  OBVIOUS
<1>1. CASE call.op \in {"insert", "promote", "critical"} /\ call'.op = call.op
  BY <1>1, LoopTurns, ReclaimKeepsFloors
<1>2. CASE ~(call.op \in {"insert", "promote", "critical"} /\ call'.op = call.op)
  BY <1>2 DEF FloorsKept
<1> QED
  BY <1>1, <1>2

\* The floors protect: no eviction by an admission or by CRITICAL pressure takes a layer's
\* bases, counted from the entries, below its configured minimum of entries or bytes.
THEOREM FloorsCorrect == Spec => FloorsProtect
<1>1. Inv /\ CountersExact /\ Inv' /\ CountersExact' /\ [Next]_vars => [FloorsKept]_vars
  BY StepKeepsFloors
<1> QED
  BY <1>1, InvHolds, CountersCorrect, PTL DEF Spec, FloorsProtect

\* A turn of a loop takes a plane out of a finite cache.
LEMMA StepShrinks == Inv /\ [Next]_vars => [TurnsShrink]_vars
<1> SUFFICES ASSUME Inv, Next, call.op # "none", call' = call PROVE Planes' < Planes
  BY DEF TurnsShrink
<1>0. entries \in [Slots -> Entries] /\ Used \subseteq Slots /\ Residuals \subseteq Used
  BY DEF Inv, TypeOK, Used, Residuals
<1>1. ReclaimResidual \/ ReclaimBase \/ DestroySlot
  BY LoopTurns
<1>2. \A S \in SUBSET Slots : IsFiniteSet(S) /\ Cardinality(S) \in Nat
  BY SlotsFinite
<1>3. \A S \in SUBSET Slots : \A v : /\ v \in S => Cardinality(S \ {v}) = Cardinality(S) - 1
                                     /\ Cardinality(S \ {v}) <= Cardinality(S)
  <2> SUFFICES ASSUME NEW S \in SUBSET Slots, NEW v
               PROVE  /\ v \in S => Cardinality(S \ {v}) = Cardinality(S) - 1
                      /\ Cardinality(S \ {v}) <= Cardinality(S)
    OBVIOUS
  <2>1. CASE v \in S
    BY <1>2, <2>1, FS_RemoveElement
  <2>2. CASE v \notin S
    <3>1. S \ {v} = S
      BY <2>2
    <3>2. Cardinality(S \ {v}) = Cardinality(S)
      BY <3>1, Zenon
    <3> QED
      BY <1>2, <2>2, <3>2
  <2> QED
    BY <2>1, <2>2
<1>4. /\ Cardinality(Used) \in Nat /\ Cardinality(Residuals) \in Nat
  BY <1>0, <1>2
<1>5. CASE ReclaimResidual
  <2>1. PICK v \in Slots : DropsResidual(v)
    BY <1>5, ReclaimResidualKeeps
  <2>2. /\ \A s \in Slots : entries'[s].occupied = entries[s].occupied
        /\ \A s \in Slots \ {v} : entries'[s] = entries[s]
        /\ entries'[v].residual = NoPayload /\ occupied(v) /\ has_residual(v)
    BY <1>0, <2>1 DEF DropsResidual, Entries
  <2>3. Used' = Used /\ Residuals' = Residuals \ {v} /\ v \in Residuals
    BY <2>2 DEF Used, Residuals, occupied, has_residual
  <2>4. Cardinality(Residuals \ {v}) = Cardinality(Residuals) - 1
    BY <1>0, <1>3, <2>3
  <2> QED
    BY <1>4, <2>3, <2>4 DEF Planes
<1>6. CASE ReclaimBase \/ DestroySlot
  <2>1. PICK v \in Slots : DropsEntry(v)
    BY <1>6, ReclaimBaseKeeps, DestroySlotKeeps
  <2>2. /\ \A s \in Slots \ {v} : entries'[s] = entries[s]
        /\ entries'[v].occupied = FALSE /\ occupied(v)
    BY <1>0, <2>1 DEF DropsEntry, Blank
  <2>3. Used' = Used \ {v} /\ Residuals' = Residuals \ {v} /\ v \in Used
    BY <2>2 DEF Used, Residuals, occupied, has_residual
  <2>4. /\ Cardinality(Used \ {v}) = Cardinality(Used) - 1
        /\ Cardinality(Residuals \ {v}) <= Cardinality(Residuals)
        /\ Cardinality(Residuals \ {v}) \in Nat
    BY <1>0, <1>2, <1>3, <2>3
  <2> QED
    BY <1>4, <2>3, <2>4 DEF Planes
<1> QED
  BY <1>1, <1>5, <1>6

\* The loops of make_room, ecache_apply_pressure and ecache_destroy end: every turn takes a
\* plane out of a finite cache and puts none in.
THEOREM LoopsCorrect == Spec => LoopsEnd
<1>1. Inv /\ [Next]_vars => [TurnsShrink]_vars
  BY StepShrinks
<1> QED
  BY <1>1, InvHolds, PTL DEF Spec, LoopsEnd

(***************************************************************************)
(* The plan of an admission.  can_make_room walks from the empty set of    *)
(* victims to a set that frees enough, one choose_base at a time.  The     *)
(* walk is stated without its length: every family of sets of slots that   *)
(* holds the empty set and is closed under the choices of choose_base      *)
(* holds a set that frees enough.                                          *)
(***************************************************************************)
IsFirst(a, C) == a \in C /\ \A b \in C \ {a} : candidate_precedes(a, b)

\* choose_base finds no victim, or the one that precedes all others.
Chosen(slot, P) ==
    \/ Evictable(slot, P) = {} /\ choose_base(slot, P) = NoSlot
    \/ \E a : choose_base(slot, P) = a /\ IsFirst(a, Evictable(slot, P))

\* First picks the candidate that precedes all others.
LEMMA FirstIsFirst ==
  ASSUME TypeOK, NEW C \in SUBSET Slots, C # {}
  PROVE  IsFirst(First(C), C)
<1>1. \E a \in C : \A b \in C \ {a} : candidate_precedes(a, b)
  BY FirstExists
<1> QED
  BY <1>1 DEF First, IsFirst

\* There is only one such candidate: candidate_precedes is antisymmetric.
LEMMA FirstUnique ==
  ASSUME TypeOK, NEW C \in SUBSET Slots, NEW a, NEW b, IsFirst(a, C), IsFirst(b, C)
  PROVE  a = b
<1> SUFFICES ASSUME a # b PROVE FALSE
  OBVIOUS
<1>1. a \in Slots /\ b \in Slots /\ candidate_precedes(a, b) /\ candidate_precedes(b, a)
  BY DEF IsFirst
<1>2. /\ entries[a].hot \in BOOLEAN /\ entries[b].hot \in BOOLEAN /\ TwoQ \in BOOLEAN
      /\ entries[a].last_access \in Nat /\ entries[b].last_access \in Nat
      /\ entries[a].admission_order \in Nat /\ entries[b].admission_order \in Nat
      /\ a \in Nat /\ b \in Nat
  <2>1. entries[a] \in Entries /\ entries[b] \in Entries
    BY <1>1 DEF TypeOK
  <2>2. a \in Nat /\ b \in Nat /\ TwoQ \in BOOLEAN
    BY <1>1, ConfigAssumption DEF Slots
  <2> QED
    BY <2>1, <2>2 DEF Entries
<1>3. CASE TwoQ /\ entries[a].hot # entries[b].hot
  BY <1>1, <1>2, <1>3, Zenon DEF candidate_precedes
<1>4. CASE ~(TwoQ /\ entries[a].hot # entries[b].hot)
  <2> DEFINE stamp(e) == IF TwoQ /\ ~e.hot THEN e.admission_order ELSE e.last_access
             x == stamp(entries[a])
             y == stamp(entries[b])
  <2>1. /\ IF x # y THEN x < y ELSE a < b
        /\ IF y # x THEN y < x ELSE b < a
    BY <1>1, <1>4, Zenon DEF candidate_precedes
  <2>2. x \in Nat /\ y \in Nat
    BY <1>2
  <2> HIDE DEF x, y
  <2> QED
    BY <1>2, <2>1, <2>2
<1> QED
  BY <1>3, <1>4

\* choose_base is this scan.
LEMMA ChooseBase ==
  ASSUME TypeOK, NEW slot, NEW P
  PROVE  Chosen(slot, P)
<1>1. Evictable(slot, P) \in SUBSET Slots
  BY DEF Evictable
<1> QED
  BY <1>1, FirstIsFirst DEF Chosen, choose_base

ChoiceFact == TypeOK => \A slot, P : Chosen(slot, P)
\* The same after a step.
LEMMA ChooseBaseNext == ChoiceFact'
<1>1. ChoiceFact
  BY ChooseBase DEF ChoiceFact
<1> QED
  BY <1>1, PTL

\* A victim is a slot that the plan has not given up yet.
LEMMA VictimIsNew ==
  ASSUME TypeOK, NEW slot, NEW P, choose_base(slot, P) # NoSlot
  PROVE  choose_base(slot, P) \in Slots \ P
<1>1. Chosen(slot, P)
  BY ChooseBase
<1> QED
  BY <1>1 DEF Chosen, IsFirst, Evictable, base_floor_allows

\* A plan that takes one more slot has one fewer left.
LEMMA OneLessLeft ==
  ASSUME NEW P \in SUBSET Slots, NEW s \in Slots \ P
  PROVE  /\ P \cup {s} \in SUBSET Slots
         /\ Cardinality(Slots \ (P \cup {s})) = Cardinality(Slots \ P) - 1
<1> DEFINE R == Slots \ P
<1>1. IsFiniteSet(R) /\ s \in R
  BY SlotsFinite
<1>2. Slots \ (P \cup {s}) = R \ {s}
  OBVIOUS
<1>3. Cardinality(Slots \ (P \cup {s})) = Cardinality(R \ {s})
  BY <1>2, Zenon
<1> HIDE DEF R
<1>4. Cardinality(R \ {s}) = Cardinality(R) - 1
  BY <1>1, FS_RemoveElement
<1> QED
  BY <1>3, <1>4 DEF R

\* The recursive function of can_make_room exists: each call has fewer slots left.
PlanStep(f, goals, slot, D) ==
    [P \in D |-> \/ P \in goals
                 \/ /\ choose_base(slot, P) # NoSlot
                    /\ f[P \cup {choose_base(slot, P)}]]

\* By induction on the number of slots left.
LEMMA PlanExists ==
  ASSUME TypeOK, NEW goals, NEW slot
  PROVE  \E f : f = PlanStep(f, goals, slot, SUBSET Slots)
<1> DEFINE D(n) == {P \in SUBSET Slots : Cardinality(Slots \ P) < n}
           Has(n) == \E f : f = PlanStep(f, goals, slot, D(n))
           Bad == {n \in Nat : ~Has(n)}
           v(P) == choose_base(slot, P)
<1>1. \A P \in SUBSET Slots : Slots \ P \in SUBSET Slots /\ Cardinality(Slots \ P) \in Nat
  BY SlotsFinite
<1>2. ASSUME NEW P \in SUBSET Slots, v(P) # NoSlot
      PROVE  /\ P \cup {v(P)} \in SUBSET Slots
             /\ Cardinality(Slots \ (P \cup {v(P)})) = Cardinality(Slots \ P) - 1
  <2>1. v(P) \in Slots \ P
    BY <1>2, VictimIsNew
  <2> HIDE DEF v
  <2> QED
    BY <2>1, OneLessLeft
<1>3. Has(0)
  <2>1. D(0) = {}
    BY <1>1
  <2> DEFINE f == [P \in D(0) |-> FALSE]
  <2>2. f = PlanStep(f, goals, slot, D(0))
    BY <2>1 DEF PlanStep
  <2> QED
    BY <2>2
<1>4. ASSUME NEW n \in Nat, Has(n) PROVE Has(n + 1)
  <2>1. PICK f : f = PlanStep(f, goals, slot, D(n))
    BY <1>4
  <2> DEFINE h == PlanStep(f, goals, slot, D(n + 1))
  <2>2. ASSUME NEW P \in D(n) PROVE P \in D(n + 1) /\ h[P] = f[P]
    <3>1. P \in D(n + 1)
      BY <1>1
    <3>2. h[P] = (P \in goals \/ (v(P) # NoSlot /\ f[P \cup {v(P)}]))
      BY <3>1, Zenon DEF PlanStep
    <3>3. f[P] = (P \in goals \/ (v(P) # NoSlot /\ f[P \cup {v(P)}]))
      <4>1. f[P] = PlanStep(f, goals, slot, D(n))[P]
        BY <2>1, Zenon
      <4> QED
        BY <4>1, Zenon DEF PlanStep
    <3> QED
      BY <3>1, <3>2, <3>3, Zenon
  <2>3. ASSUME NEW P \in D(n + 1), v(P) # NoSlot PROVE h[P \cup {v(P)}] = f[P \cup {v(P)}]
    <3>1. P \cup {v(P)} \in D(n)
      BY <1>1, <1>2, <2>3
    <3> QED
      BY <3>1, <2>2, Zenon
  <2>4. \A P \in D(n + 1) :
            (\/ P \in goals \/ (choose_base(slot, P) # NoSlot /\ f[P \cup {choose_base(slot, P)}]))
          = (\/ P \in goals \/ (choose_base(slot, P) # NoSlot /\ h[P \cup {choose_base(slot, P)}]))
    <3> HIDE DEF D, h
    <3> QED
      BY <2>3, Zenon
  <2>5. h = PlanStep(h, goals, slot, D(n + 1))
    <3> HIDE DEF D
    <3> SUFFICES PlanStep(f, goals, slot, D(n + 1)) = PlanStep(h, goals, slot, D(n + 1))
      OBVIOUS
    <3> HIDE DEF h
    <3> QED
      BY <2>4, Zenon DEF PlanStep
  <2> QED
    BY <2>5
<1> HIDE DEF Has
<1>5. Bad = {}
  <2> SUFFICES ASSUME Bad # {} PROVE FALSE
    OBVIOUS
  <2>1. PICK x \in Bad : \A y \in Bad : x <= y
    BY NatHasLeast
  <2>2. x # 0 /\ x \in Nat
    BY <1>3
  <2>3. x - 1 \in Nat /\ x - 1 \notin Bad
    BY <2>1, <2>2
  <2> QED
    BY <2>3, <1>4, <2>2
<1>6. Cardinality(Slots) \in Nat /\ Has(Cardinality(Slots) + 1)
  BY <1>5, SlotsFinite
<1>7. D(Cardinality(Slots) + 1) = SUBSET Slots
  <2>1. \A P \in SUBSET Slots : Cardinality(Slots \ P) <= Cardinality(Slots)
    BY SlotsFinite, FS_Subset
  <2> QED
    BY <1>1, <1>6, <2>1
<1> QED
  BY <1>6, <1>7 DEF Has

\* A family of sets of victims that the choices of can_make_room do not leave.
PlanClosed(X, slot) ==
    \A P \in X : choose_base(slot, P) # NoSlot => P \cup {choose_base(slot, P)} \in X

\* The reclaimable residuals and the bases of P free enough for n bytes.
Enough(n, P) == ResidualBytes(EligibleResiduals) + BaseBytes(P) >= required_reclaim(n)

\* What can_make_room proves.
LEMMA PlanReaches ==
  ASSUME TypeOK, NEW n, NEW need, NEW slot, can_make_room(n, need, slot),
         NEW X \in SUBSET SUBSET Slots, {} \in X, PlanClosed(X, slot)
  PROVE  \/ ~(need /\ entry_count >= MaxEntries) /\ ResidualBytes(EligibleResiduals) >= required_reclaim(n)
         \/ \E P \in X : Enough(n, P) /\ (need => P # {})
<1> DEFINE needed == required_reclaim(n)
           residuals == ResidualBytes(EligibleResiduals)
           Body(f) == [planned \in SUBSET Slots |->
               \/ /\ residuals + BaseBytes(planned) >= needed
                  /\ need => planned # {}
               \/ LET s == choose_base(slot, planned)
                  IN  s # NoSlot /\ f[planned \cup {s}]]
           plan == CHOOSE plan : plan = Body(plan)
           goals == {P \in SUBSET Slots : Enough(n, P) /\ (need => P # {})}
<1>1. \/ ~(need /\ entry_count >= MaxEntries) /\ residuals >= needed
      \/ plan[{}]
  BY Zenon DEF can_make_room
<1>2. \A f : PlanStep(f, goals, slot, SUBSET Slots) = Body(f)
  BY Zenon DEF PlanStep, Enough
<1>3. plan = Body(plan)
  <2>1. \E f : f = Body(f)
    <3> HIDE DEF Body, goals
    <3>1. \E f : f = PlanStep(f, goals, slot, SUBSET Slots)
      BY PlanExists
    <3> QED
      BY <1>2, <3>1, Zenon
  <2> HIDE DEF Body
  <2> QED
    BY <2>1
<1>4. \A P \in SUBSET Slots :
          plan[P] = (\/ P \in goals
                     \/ choose_base(slot, P) # NoSlot /\ plan[P \cup {choose_base(slot, P)}])
  <2>1. plan = PlanStep(plan, goals, slot, SUBSET Slots)
    <3> HIDE DEF Body, plan, goals
    <3> QED
      BY <1>2, <1>3, Zenon
  <2> HIDE DEF Body, plan, goals
  <2> SUFFICES ASSUME NEW P \in SUBSET Slots
               PROVE  plan[P] = (\/ P \in goals
                                 \/ /\ choose_base(slot, P) # NoSlot
                                    /\ plan[P \cup {choose_base(slot, P)}])
    BY Zenon
  <2>2. plan[P] = PlanStep(plan, goals, slot, SUBSET Slots)[P]
    BY <2>1, Zenon
  <2> QED
    BY <2>2, Zenon DEF PlanStep
<1> HIDE DEF plan, goals
<1>5. CASE plan[{}]
  <2> SUFFICES ASSUME \A P \in X : P \notin goals PROVE FALSE
    BY DEF goals
  <2> DEFINE Left == {Cardinality(Slots \ P) : P \in {Q \in X : plan[Q]}}
  <2>1. Left \in SUBSET Nat /\ Left # {}
    <3>1. \A P \in X : Cardinality(Slots \ P) \in Nat
      BY SlotsFinite
    <3> QED
      BY <1>5, <3>1
  <2>2. PICK m \in Left : \A k \in Left : m <= k
    BY <2>1, NatHasLeast
  <2>3. PICK P \in X : plan[P] /\ m = Cardinality(Slots \ P)
    OBVIOUS
  <2> DEFINE s == choose_base(slot, P)
  <2>4. P \in SUBSET Slots
    OBVIOUS
  <2>5. s # NoSlot /\ plan[P \cup {s}]
    BY <1>4, <2>3, <2>4, Zenon
  <2>6. P \cup {s} \in X /\ s \in Slots \ P
    BY <2>5, VictimIsNew DEF PlanClosed
  <2> HIDE DEF s
  <2>7. Cardinality(Slots \ (P \cup {s})) = Cardinality(Slots \ P) - 1
    BY <2>4, <2>6, OneLessLeft
  <2>8. Cardinality(Slots \ (P \cup {s})) \in Left
    BY <2>5, <2>6, Zenon
  <2>9. m \in Nat /\ m <= Cardinality(Slots \ (P \cup {s}))
    BY <2>1, <2>2, <2>8, Zenon
  <2> QED
    BY <2>3, <2>7, <2>9
<1> QED
  BY <1>1, <1>5

\* An admission in progress can still reach what it needs.
Possible(slot, n) ==
    \A X \in SUBSET SUBSET Slots :
        {} \in X /\ PlanClosed(X, slot) => \E P \in X : Enough(n, P) /\ (SlotNeeded => P # {})

Room == \A slot, n : (call.op \in {"insert", "promote"} /\ call.slot = slot /\ call.amount = n)
                        => Possible(slot, n)

SameRank(s) == /\ entries'[s].hot = entries[s].hot
               /\ entries'[s].last_access = entries[s].last_access
               /\ entries'[s].admission_order = entries[s].admission_order

\* choose_base depends on the candidates and their order only.
LEMMA SameChoice ==
  ASSUME TypeOK, TypeOK', NEW slot, NEW P, NEW Q,
         \A s \in Slots : base_floor_allows(s, P)' <=> base_floor_allows(s, Q),
         \A s \in Slots : base_floor_allows(s, Q) => SameRank(s)
  PROVE  choose_base(slot, P)' = choose_base(slot, Q)
<1> DEFINE E == Evictable(slot, Q)
<1>1. Evictable(slot, P)' = E
  BY DEF Evictable
<1>2. Chosen(slot, P)' /\ Chosen(slot, Q)
  BY ChooseBase, ChooseBaseNext DEF ChoiceFact
<1>3. ASSUME NEW a \in E, NEW b \in E
      PROVE  candidate_precedes(a, b)' <=> candidate_precedes(a, b)
  <2>1. SameRank(a) /\ SameRank(b)
    BY DEF Evictable
  <2> QED
    BY <2>1, Zenon DEF SameRank, candidate_precedes
<1>4. E \in SUBSET Slots
  BY DEF Evictable
<1>5. CASE E = {}
  BY <1>1, <1>2, <1>5 DEF Chosen, IsFirst
<1>6. CASE E # {}
  <2>1. PICK a : choose_base(slot, P)' = a /\ IsFirst(a, Evictable(slot, P))'
    BY <1>1, <1>2, <1>6 DEF Chosen
  <2>2. PICK b : choose_base(slot, Q) = b /\ IsFirst(b, E)
    BY <1>2, <1>6 DEF Chosen
  <2> HIDE DEF E
  <2>3. a \in E /\ \A c \in E \ {a} : candidate_precedes(a, c)'
    BY <1>1, <2>1 DEF IsFirst
  <2>4. IsFirst(a, E)
    BY <1>3, <2>3 DEF IsFirst
  <2>5. a = b
    BY <1>4, <2>2, <2>4, FirstUnique
  <2> QED
    BY <2>1, <2>2, <2>5
<1> QED
  BY <1>5, <1>6

\* Byte totals of sets of slots are natural numbers.
LEMMA BytesType ==
  ASSUME TypeOK, NEW S \in SUBSET Slots
  PROVE  BaseBytes(S) \in Nat /\ ResidualBytes(S) \in Nat
<1>1. IsFiniteSet(S)
  BY SlotsFinite
<1>2. \A s \in S : BaseCharges[s] \in Nat /\ ResidualCharges[s] \in Nat
  BY DEF TypeOK, Entries, BaseCharges, ResidualCharges
<1>3. SumFunctionOnSet(BaseCharges, S) \in Nat
  BY <1>1, <1>2, SumNatural
<1>4. SumFunctionOnSet(ResidualCharges, S) \in Nat
  BY <1>1, <1>2, SumNatural
<1> QED
  BY <1>3, <1>4 DEF BaseBytes, ResidualBytes

\* A loop that still wants something has a victim.
LEMMA RoomHasVictim ==
  ASSUME Inv, Room, call.op \in {"insert", "promote"}, Wanting
  PROVE  choose_residual # NoSlot \/ choose_base(call.slot, {}) # NoSlot
<1> SUFFICES ASSUME choose_residual = NoSlot, choose_base(call.slot, {}) = NoSlot
             PROVE  FALSE
  OBVIOUS
<1>1. EligibleResiduals = {}
  <2>1. NoSlot \notin Slots
    BY ConfigAssumption DEF NoSlot, Slots
  <2> QED
    BY <2>1, FirstIsMember DEF choose_residual, EligibleResiduals, Inv
<1>2. PICK slot, n : call.slot = slot /\ call.amount = n
  OBVIOUS
<1>3. Possible(slot, n)
  BY <1>2 DEF Room
<1> DEFINE X == {{}}
<1>4. X \in SUBSET SUBSET Slots /\ {} \in X /\ PlanClosed(X, slot)
  BY <1>2 DEF PlanClosed
<1>5. Enough(n, {}) /\ ~SlotNeeded
  BY <1>3, <1>4 DEF Possible
<1>6. BaseBytes({}) = 0 /\ ResidualBytes({}) = 0
  BY SumEmpty DEF BaseBytes, ResidualBytes
<1>7. ResidualBytes(EligibleResiduals) = 0
  BY <1>1, <1>6, Zenon
<1>8. ~(required_reclaim(n) > 0)
  <2>1. 0 + 0 >= required_reclaim(n)
    BY <1>5, <1>6, <1>7 DEF Enough
  <2>2. required_reclaim(n) \in Int
    BY <1>2, ConfigAssumption DEF required_reclaim, Inv, TypeOK, Calls
  <2> QED
    BY <2>1, <2>2
<1> QED
  BY <1>2, <1>5, <1>8 DEF Wanting

\* A step that leaves the cache alone changes neither choices nor totals.
LEMMA SameCache ==
  ASSUME TypeOK, TypeOK', UNCHANGED <<entries, entry_count, payload_bytes, layers>>,
         NEW slot, NEW n, NEW P
  PROVE  choose_base(slot, P)' = choose_base(slot, P) /\ (Enough(n, P)' <=> Enough(n, P))
<1>1. \A s \in Slots : base_floor_allows(s, P)' <=> base_floor_allows(s, P)
  BY DEF base_floor_allows, BaseBytes, BaseCharges, InLayer, occupied
<1>2. \A s \in Slots : base_floor_allows(s, P) => SameRank(s)
  BY DEF SameRank
<1>3. choose_base(slot, P)' = choose_base(slot, P)
  BY <1>1, <1>2, SameChoice
<1>4. Enough(n, P)' <=> Enough(n, P)
  BY DEF Enough, BaseBytes, BaseCharges, ResidualBytes, ResidualCharges, EligibleResiduals,
         occupied, has_residual, required_reclaim
<1> QED
  BY <1>3, <1>4

\* The reclaimable residual bytes are a natural number after a step too.
LEMMA BytesTypeNext ==
  ASSUME TypeOK'
  PROVE  ResidualBytes(EligibleResiduals)' \in Nat
<1>1. \A s \in Slots : ResidualCharges'[s] \in Nat
  BY DEF TypeOK, Entries, ResidualCharges
<1>2. EligibleResiduals' \in SUBSET Slots
  BY DEF EligibleResiduals
<1> DEFINE S == EligibleResiduals'
           d == ResidualCharges'
<1>3. IsFiniteSet(S) /\ \A s \in S : d[s] \in Nat
  BY <1>1, <1>2, SlotsFinite
<1> HIDE DEF S, d
<1>4. SumFunctionOnSet(d, S) \in Nat
  BY <1>3, SumNatural
<1> QED
  BY <1>4 DEF S, d, ResidualBytes

\* An admission that begins has a plan.
LEMMA BeginRoom ==
  ASSUME Inv, Inv', NEW key \in Keys, NEW p \in Payloads, NEW m \in Sizes,
         InsertBegin(key, p, m) \/ PromoteBegin(key, p, m)
  PROVE  Room'
<1> SUFFICES ASSUME NEW slot, NEW n, call'.slot = slot, call'.amount = n,
                    NEW X \in SUBSET SUBSET Slots, {} \in X, PlanClosed(X, slot)'
             PROVE  \E P \in X : Enough(n, P)' /\ (SlotNeeded' => P # {})
  BY DEF Room, Possible
<1>1. /\ UNCHANGED <<entries, entry_count, payload_bytes, layers>>
      /\ TypeOK /\ TypeOK'
  BY DEF InsertBegin, PromoteBegin, Inv
<1>2. \A P : choose_base(slot, P)' = choose_base(slot, P) /\ (Enough(n, P)' <=> Enough(n, P))
  BY <1>1, SameCache
<1>3. PlanClosed(X, slot)
  BY <1>2 DEF PlanClosed
<1>4. PICK need \in BOOLEAN : /\ can_make_room(n, need, slot)
                              /\ SlotNeeded' => need /\ entry_count >= MaxEntries
  <2>1. CASE InsertBegin(key, p, m)
    <3>1. can_make_room(n, TRUE, slot)
      BY <2>1 DEF InsertBegin, Request
    <3> QED
      BY <1>1, <3>1 DEF SlotNeeded
  <2>2. CASE PromoteBegin(key, p, m)
    <3>0. PICK t \in Slots : /\ can_make_room(payload_charge(m), FALSE, t)
                             /\ call' = Request("promote", key, p, payload_charge(m), t)
      BY <2>2 DEF PromoteBegin, Resident
    <3>1. can_make_room(n, FALSE, slot) /\ call'.op = "promote"
      <4>1. t = slot /\ payload_charge(m) = n /\ call'.op = "promote"
        BY <3>0 DEF Request
      <4> QED
        BY <3>0, <4>1, Zenon
    <3> QED
      BY <3>1 DEF SlotNeeded
  <2> QED
    BY <2>1, <2>2
<1>5. \/ ~(need /\ entry_count >= MaxEntries) /\ ResidualBytes(EligibleResiduals) >= required_reclaim(n)
      \/ \E P \in X : Enough(n, P) /\ (need => P # {})
  BY <1>1, <1>3, <1>4, PlanReaches
<1>6. CASE ~(need /\ entry_count >= MaxEntries) /\ ResidualBytes(EligibleResiduals) >= required_reclaim(n)
  <2>1. BaseBytes({}) = 0
    BY SumEmpty DEF BaseBytes
  <2>2. ResidualBytes(EligibleResiduals) \in Nat
    BY <1>1, BytesType DEF EligibleResiduals
  <2>3. Enough(n, {})
    BY <1>6, <2>1, <2>2 DEF Enough
  <2> QED
    BY <1>2, <1>4, <1>6, <2>3
<1>7. CASE \E P \in X : Enough(n, P) /\ (need => P # {})
  BY <1>2, <1>4, <1>7
<1> QED
  BY <1>5, <1>6, <1>7

\* Less is needed when as much as was counted on has been released.
LEMMA LessNeeded ==
  ASSUME TypeOK, NEW n \in Nat, NEW c \in Nat, NEW r \in Nat, NEW b \in Nat,
         NEW r2 \in Nat, NEW b2 \in Nat,
         payload_bytes' <= payload_bytes - c, payload_bytes' \in Int,
         r + b >= required_reclaim(n), r2 + b2 >= r + b - c
  PROVE  r2 + b2 >= required_reclaim(n)'
<1>1. Budget \in Nat /\ payload_bytes \in Int
  BY ConfigAssumption DEF TypeOK
<1>2. PICK p \in Int, q \in Int : payload_bytes = p /\ payload_bytes' = q
  BY <1>1
<1>3. q <= p - c
  BY <1>2
<1>4. required_reclaim(n) = IF n > Budget - p THEN n - (Budget - p) ELSE 0
  BY <1>2 DEF required_reclaim
<1>5. required_reclaim(n)' = IF n > Budget - q THEN n - (Budget - q) ELSE 0
  BY <1>2 DEF required_reclaim
<1>6. r + b >= IF n > Budget - p THEN n - (Budget - p) ELSE 0
  BY <1>4
<1>7. r2 + b2 >= IF n > Budget - q THEN n - (Budget - q) ELSE 0
  <2>1. Budget \in Nat /\ p \in Int /\ q \in Int
    BY <1>1
  <2> QED
    BY <1>3, <1>6, <2>1
<1> QED
  BY <1>5, <1>7

\* Releasing a residual leaves the plan for the bases as it was.
LEMMA ResidualRoom ==
  ASSUME Inv, Inv', Room, ReclaimResidual
  PROVE  Room'
<1> DEFINE v == choose_residual
           c == entries[v].residual_charge
<1>1. v \in EligibleResiduals /\ release_residual(v) /\ call' = call
  BY ResidualVictim DEF Inv, ReclaimResidual
<1>2. v \in Slots /\ occupied(v) /\ has_residual(v)
  BY <1>1 DEF EligibleResiduals
<1>0. TypeOK /\ TypeOK'
  BY DEF Inv
<1> HIDE DEF v
<1>3. /\ \A s \in Slots \ {v} : entries'[s] = entries[s]
      /\ entries'[v].occupied = entries[v].occupied /\ entries'[v].key = entries[v].key
      /\ entries'[v].base_charge = entries[v].base_charge /\ entries'[v].pins = entries[v].pins
      /\ entries'[v].residual = NoPayload /\ entries'[v].residual_charge = 0
      /\ entries'[v].hot = entries[v].hot
      /\ entries'[v].last_access = entries[v].last_access
      /\ entries'[v].admission_order = entries[v].admission_order
  BY <1>1, <1>2 DEF release_residual, Inv, TypeOK, Entries
<1>4. \A s \in Slots : /\ entries'[s].occupied = entries[s].occupied
                       /\ entries'[s].key = entries[s].key
                       /\ entries'[s].base_charge = entries[s].base_charge
                       /\ entries'[s].pins = entries[s].pins
                       /\ SameRank(s)
  BY <1>3 DEF SameRank
<1>5. BaseCharges' = BaseCharges
  BY <1>4 DEF BaseCharges
<1>6. \A l \in Layers : /\ layers'[l].base_entries = layers[l].base_entries
                        /\ layers'[l].base_bytes = layers[l].base_bytes
  <2> DEFINE k == entries[v].key[1]
  <2>1. layers' = [layers EXCEPT ![k].residual_bytes = @ - c, ![k].residual_entries = @ - 1]
    BY <1>1 DEF release_residual
  <2>2. layers \in [Layers -> LayerCounters]
    BY DEF Inv, TypeOK
  <2> HIDE DEF k, c
  <2> QED
    BY <2>1, <2>2 DEF LayerCounters
<1>7. ASSUME NEW P \in SUBSET Slots, NEW s \in Slots
      PROVE  base_floor_allows(s, P)' <=> base_floor_allows(s, P)
  <2>1. \A l : InLayer(P, l)' = InLayer(P, l)
    BY <1>4 DEF InLayer
  <2>2. \A l : BaseBytes(InLayer(P, l))' = BaseBytes(InLayer(P, l))
    BY <1>5, <2>1 DEF BaseBytes
  <2>3. CASE occupied(s)
    <3>1. PICK l \in Layers : entries[s].key[1] = l
      BY <2>3 DEF Inv, SlotsSound, Keys
    <3>2. /\ entries'[s].key[1] = l
          /\ layers'[l].base_entries = layers[l].base_entries
          /\ layers'[l].base_bytes = layers[l].base_bytes
          /\ BaseBytes(InLayer(P, l))' = BaseBytes(InLayer(P, l))
          /\ Cardinality(InLayer(P, l))' = Cardinality(InLayer(P, l))
      BY <1>4, <1>6, <2>1, <2>2, <3>1
    <3> QED
      BY <1>4, <3>2 DEF base_floor_allows, occupied
  <2>4. CASE ~occupied(s)
    BY <1>4, <2>4 DEF base_floor_allows, occupied
  <2> QED
    BY <2>3, <2>4
<1>8. EligibleResiduals' = EligibleResiduals \ {v} /\ EligibleResiduals \in SUBSET Slots
  BY <1>3, <1>4 DEF EligibleResiduals, occupied, has_residual
<1>9. ResidualBytes(EligibleResiduals)' = ResidualBytes(EligibleResiduals) - c
  <2>1. ResidualCharges \in Charges /\ ResidualCharges' \in Charges
    BY DEF Inv, TypeOK, Entries, ResidualCharges, Charges
  <2>2. AgreeBut(ResidualCharges, ResidualCharges', v) /\ ResidualCharges[v] = c
    BY <1>2, <1>3 DEF ResidualCharges, AgreeBut
  <2>3. Tally(ResidualCharges, ResidualCharges', v, EligibleResiduals)
    BY <1>2, <1>8, <2>1, <2>2, SlotSums
  <2>4. SumFunctionOnSet(ResidualCharges', EligibleResiduals \ {v})
           = SumFunctionOnSet(ResidualCharges, EligibleResiduals) - ResidualCharges[v]
    BY <1>1, <2>3 DEF Tally
  <2> QED
    BY <1>8, <2>2, <2>4 DEF ResidualBytes
<1>10. SUFFICES ASSUME NEW slot, NEW n, call.op \in {"insert", "promote"},
                       call.slot = slot, call.amount = n,
                       NEW X \in SUBSET SUBSET Slots, {} \in X, PlanClosed(X, slot)'
                PROVE  \E P \in X : Enough(n, P)' /\ (SlotNeeded' => P # {})
  BY <1>1 DEF Room, Possible
<1>11. \A P \in SUBSET Slots : choose_base(slot, P)' = choose_base(slot, P)
  <2> SUFFICES ASSUME NEW P \in SUBSET Slots PROVE choose_base(slot, P)' = choose_base(slot, P)
    OBVIOUS
  <2>1. /\ \A s \in Slots : base_floor_allows(s, P)' <=> base_floor_allows(s, P)
        /\ \A s \in Slots : base_floor_allows(s, P) => SameRank(s)
    BY <1>4, <1>7
  <2> QED
    BY <1>0, <2>1, SameChoice
<1>12. PlanClosed(X, slot)
  BY <1>10, <1>11 DEF PlanClosed
<1>13. PICK P \in X : Enough(n, P) /\ (SlotNeeded => P # {})
  BY <1>10, <1>12 DEF Room, Possible
<1>14. SlotNeeded' = SlotNeeded
  BY <1>1 DEF SlotNeeded, release_residual
<1>15. Enough(n, P)'
  <2> DEFINE r == ResidualBytes(EligibleResiduals)
             r2 == ResidualBytes(EligibleResiduals)'
             b == BaseBytes(P)
  <2>1. r \in Nat /\ b \in Nat
    BY <1>0, <1>8, BytesType
  <2>2. r2 \in Nat
    BY <1>0, BytesTypeNext
  <2>3. BaseBytes(P)' = b
    BY <1>5 DEF BaseBytes
  <2>4. c \in Nat /\ n \in Nat /\ payload_bytes' = payload_bytes - c /\ payload_bytes \in Int
    BY <1>1, <1>2, <1>10 DEF release_residual, Inv, TypeOK, Entries, Calls
  <2>5. r + b >= required_reclaim(n) /\ r2 = r - c
    BY <1>9, <1>13 DEF Enough
  <2> HIDE DEF r, r2, b, c
  <2>6. r2 + b >= required_reclaim(n)'
    <3>1. payload_bytes' <= payload_bytes - c /\ payload_bytes' \in Int /\ r2 + b >= r + b - c
      BY <2>1, <2>2, <2>4, <2>5
    <3> QED
      BY <1>0, <2>1, <2>2, <2>4, <2>5, <3>1, LessNeeded
  <2> QED
    BY <2>3, <2>6 DEF Enough, r2
<1> QED
  BY <1>13, <1>14, <1>15

\* Releasing the entry v does to the floors what planning to release it did.
LEMMA FloorShift ==
  ASSUME Inv, Inv', NEW v \in Slots, occupied(v), release_base(v),
         NEW P \in SUBSET Slots, NEW s \in Slots
  PROVE  base_floor_allows(s, P)' <=> base_floor_allows(s, P \cup {v})
<1> DEFINE c == entries[v].base_charge
           Q == P \cup {v}
<1>1. /\ \A t \in Slots \ {v} : entries'[t] = entries[t]
      /\ entries'[v].occupied = FALSE
  BY DEF release_base, Inv, TypeOK, Blank
<1>2. CASE s = v
  BY <1>1, <1>2 DEF base_floor_allows, occupied
<1>3. CASE s # v /\ ~occupied(s)
  BY <1>1, <1>3 DEF base_floor_allows, occupied
<1>4. CASE s # v /\ occupied(s)
  <2>1. PICK l \in Layers : entries[s].key[1] = l
    BY <1>4 DEF Inv, SlotsSound, Keys
  <2>2. PICK k \in Layers : entries[v].key[1] = k
    BY DEF Inv, SlotsSound, Keys
  <2>3. entries'[s] = entries[s]
    BY <1>1, <1>4
  <2> DEFINE S == InLayer(Q, l)
  <2>4. InLayer(P, l)' = S \ {v}
    BY <1>1 DEF InLayer
  <2>5. S \in SUBSET Slots /\ (v \in S <=> l = k)
    BY <2>2 DEF InLayer, occupied
  <2>6. Tally(BaseCharges, BaseCharges', v, S) /\ BaseCharges[v] = c
    <3>1. BaseCharges \in Charges /\ BaseCharges' \in Charges
      BY DEF Inv, TypeOK, Entries, BaseCharges, Charges
    <3>2. AgreeBut(BaseCharges, BaseCharges', v) /\ BaseCharges[v] = c
      BY <1>1 DEF BaseCharges, AgreeBut
    <3> HIDE DEF S, c
    <3> QED
      BY <2>5, <3>1, <3>2, SlotSums
  <2> DEFINE b == BaseBytes(S)
             b2 == BaseBytes(InLayer(P, l))'
             m == Cardinality(S)
             m2 == Cardinality(InLayer(P, l))'
  <2>7. b \in Int /\ m \in Int /\ c \in Int
        /\ layers[l].base_bytes \in Int /\ layers[l].base_entries \in Int
    <3>1. layers[l] \in LayerCounters
      BY DEF Inv, TypeOK
    <3>2. layers[l].base_bytes \in Int /\ layers[l].base_entries \in Int
      BY <3>1 DEF LayerCounters
    <3>3. c \in Int
      BY DEF Inv, TypeOK, Entries
    <3> HIDE DEF S
    <3> QED
      BY <2>6, <3>2, <3>3 DEF Tally, BaseBytes
  <2>8. /\ layers'[l].base_bytes - b2 = layers[l].base_bytes - b
        /\ layers'[l].base_entries - m2 = layers[l].base_entries - m
    <3>1. b2 = SumFunctionOnSet(BaseCharges', S \ {v}) /\ m2 = Cardinality(S \ {v})
      BY <2>4, Zenon DEF BaseBytes
    <3> HIDE DEF S
    <3>2. CASE l = k
      <4>1. b2 = b - c /\ m2 = m - 1
        BY <2>5, <2>6, <3>1, <3>2 DEF Tally, BaseBytes
      <4>2. /\ layers'[l].base_bytes = layers[l].base_bytes - c
            /\ layers'[l].base_entries = layers[l].base_entries - 1
        BY <2>2, <3>2 DEF release_base, Inv, TypeOK
      <4> HIDE DEF b, b2, m, m2, c
      <4> QED
        BY <2>7, <4>1, <4>2
    <3>3. CASE l # k
      <4>1. S \ {v} = S
        BY <2>5, <3>3
      <4>2. b2 = SumFunctionOnSet(BaseCharges', S) /\ m2 = m
        BY <3>1, <4>1, Zenon
      <4>3. b2 = b
        BY <2>5, <2>6, <3>3, <4>2 DEF Tally, BaseBytes
      <4>4. layers'[l] = layers[l]
        BY <2>2, <3>3 DEF release_base, Inv, TypeOK
      <4> QED
        BY <4>2, <4>3, <4>4
    <3> QED
      BY <3>2, <3>3
  <2>9. base_floor_allows(s, P)' <=>
           /\ s \notin P /\ entries[s].pins = 0
           /\ layers'[l].base_entries - m2 > 0
           /\ layers'[l].base_bytes - b2 >= entries[s].base_charge
           /\ layers'[l].base_entries - m2 - 1 >= MinBaseEntries[l]
           /\ layers'[l].base_bytes - b2 - entries[s].base_charge >= MinBaseBytes[l]
    BY <1>4, <2>1, <2>3, Zenon DEF base_floor_allows, occupied
  <2>10. base_floor_allows(s, Q) <=>
           /\ s \notin Q /\ entries[s].pins = 0
           /\ layers[l].base_entries - m > 0
           /\ layers[l].base_bytes - b >= entries[s].base_charge
           /\ layers[l].base_entries - m - 1 >= MinBaseEntries[l]
           /\ layers[l].base_bytes - b - entries[s].base_charge >= MinBaseBytes[l]
    BY <1>4, <2>1, Zenon DEF base_floor_allows, occupied
  <2>11. s \notin Q <=> s \notin P
    BY <1>4
  <2> HIDE DEF b, b2, m, m2, Q
  <2> QED
    BY <2>8, <2>9, <2>10, <2>11, Zenon DEF Q
<1> QED
  BY <1>2, <1>3, <1>4

\* Evicting the base that choose_base picks is the first step of the plan: what is left of
\* it is a plan for the new state.
LEMMA BaseRoom ==
  ASSUME Inv, Inv', CountersExact, Room, ReclaimBase
  PROVE  Room'
<1>0. TypeOK /\ TypeOK'
  BY DEF Inv
<1>1. PICK v \in Slots : /\ choose_base(call.slot, {}) = v
                         /\ occupied(v) /\ release_base(v)
  BY BaseVictim DEF Inv, ReclaimBase, Evictable, base_floor_allows
<1>2. call' = call /\ Wanting /\ EligibleResiduals = {}
  BY ReclaimBaseKeeps DEF ReclaimBase
<1>3. SUFFICES ASSUME NEW slot, NEW n, call.op \in {"insert", "promote"},
                      call.slot = slot, call.amount = n,
                      NEW X \in SUBSET SUBSET Slots, {} \in X, PlanClosed(X, slot)'
               PROVE  \E P \in X : Enough(n, P)' /\ (SlotNeeded' => P # {})
  BY <1>2 DEF Room, Possible
<1>4. /\ \A t \in Slots \ {v} : entries'[t] = entries[t]
      /\ entries'[v] = Blank
  BY <1>1 DEF release_base, Inv, TypeOK
<1>5. ASSUME NEW P \in SUBSET Slots
      PROVE  choose_base(slot, P)' = choose_base(slot, P \cup {v})
  <2>1. \A s \in Slots : base_floor_allows(s, P)' <=> base_floor_allows(s, P \cup {v})
    BY <1>1, FloorShift
  <2>2. \A s \in Slots : base_floor_allows(s, P \cup {v}) => SameRank(s)
    BY <1>4 DEF base_floor_allows, SameRank
  <2> QED
    BY <1>0, <2>1, <2>2, SameChoice
<1> DEFINE Z == {P \in X : v \notin P}
           Y == {{}} \cup {P \cup {v} : P \in Z}
<1>6. Y \in SUBSET SUBSET Slots /\ {} \in Y
  OBVIOUS
<1>7. PlanClosed(Y, slot)
  <2> SUFFICES ASSUME NEW Q \in Y, choose_base(slot, Q) # NoSlot
               PROVE  Q \cup {choose_base(slot, Q)} \in Y
    BY Zenon DEF PlanClosed
  <2>1. CASE Q = {}
    <3>1. choose_base(slot, Q) = v
      BY <1>1, <1>3, <2>1
    <3>2. Q \cup {choose_base(slot, Q)} = {} \cup {v}
      BY <2>1, <3>1, Zenon
    <3>3. {} \in Z
      BY <1>3
    <3> QED
      BY <3>2, <3>3, Zenon
  <2>2. CASE Q # {}
    <3>1. PICK P \in Z : Q = P \cup {v}
      BY <2>2
    <3>2. PICK w : choose_base(slot, Q) = w
      OBVIOUS
    <3>3. choose_base(slot, P)' = w /\ w # NoSlot
      <4>1. P \in SUBSET Slots
        OBVIOUS
      <4>2. choose_base(slot, P)' = choose_base(slot, P \cup {v})
        BY <1>5, <4>1
      <4> QED
        BY <3>1, <3>2, <4>2, Zenon
    <3>4. w \notin Q
      BY <1>0, <3>2, <3>3, VictimIsNew
    <3>5. P \cup {w} \in X
      BY <1>3, <3>3 DEF PlanClosed
    <3>6. P \cup {w} \in Z
      BY <3>1, <3>4, <3>5
    <3>7. (P \cup {w}) \cup {v} \in Y
      BY <3>6, Zenon
    <3>8. Q \cup {w} = (P \cup {w}) \cup {v}
      BY <3>1
    <3> QED
      BY <3>2, <3>7, <3>8, Zenon
  <2> QED
    BY <2>1, <2>2
<1> HIDE DEF Y
<1>8. PICK Q \in Y : Enough(n, Q) /\ (SlotNeeded => Q # {})
  BY <1>3, <1>6, <1>7 DEF Room, Possible
<1>9. n \in Nat /\ required_reclaim(n) \in Int
  <2>1. n \in Nat
    BY <1>3 DEF Inv, TypeOK, Calls
  <2> QED
    BY <2>1, ConfigAssumption DEF required_reclaim, Inv, TypeOK
<1>10. BaseBytes({}) = 0 /\ ResidualBytes(EligibleResiduals) = 0
  <2>1. BaseBytes({}) = 0 /\ ResidualBytes({}) = 0
    BY SumEmpty DEF BaseBytes, ResidualBytes
  <2> QED
    BY <1>2, <2>1, Zenon
<1>11. Q # {}
  <2> SUFFICES ASSUME Q = {} PROVE FALSE
    OBVIOUS
  <2>1. ~SlotNeeded /\ Enough(n, {})
    BY <1>8
  <2>2. ~(required_reclaim(n) > 0)
    <3>1. 0 + 0 >= required_reclaim(n)
      BY <1>10, <2>1 DEF Enough
    <3> QED
      BY <1>9, <3>1
  <2> QED
    BY <1>2, <1>3, <2>1, <2>2 DEF Wanting
<1>12. PICK P \in Z : Q = P \cup {v}
  BY <1>11 DEF Y
<1>13. P \in X /\ P \in SUBSET Slots /\ v \notin P
  BY <1>3
<1>14. Enough(n, P)'
  <2> DEFINE b == BaseBytes(P \cup {v})
             b2 == BaseBytes(P)'
             r2 == ResidualBytes(EligibleResiduals)'
             c == entries[v].base_charge
  <2>1. b \in Nat /\ c \in Nat
    BY <1>0, <1>13, BytesType DEF TypeOK, Entries
  <2>2. b2 = b - c
    <3>1. BaseCharges \in Charges /\ BaseCharges' \in Charges
      BY DEF Inv, TypeOK, Entries, BaseCharges, Charges
    <3>2. AgreeBut(BaseCharges, BaseCharges', v) /\ BaseCharges[v] = c
      BY <1>4 DEF BaseCharges, AgreeBut
    <3>3. Tally(BaseCharges, BaseCharges', v, P \cup {v})
      BY <1>13, <3>1, <3>2, SlotSums
    <3>4. SumFunctionOnSet(BaseCharges', (P \cup {v}) \ {v})
             = SumFunctionOnSet(BaseCharges, P \cup {v}) - BaseCharges[v]
      BY <3>3 DEF Tally
    <3>5. (P \cup {v}) \ {v} = P
      BY <1>13
    <3>6. SumFunctionOnSet(BaseCharges', P)
             = SumFunctionOnSet(BaseCharges, P \cup {v}) - BaseCharges[v]
      BY <3>4, <3>5, Zenon
    <3> QED
      BY <3>2, <3>6 DEF BaseBytes
  <2>3. r2 \in Nat
    BY <1>0, BytesTypeNext
  <2>4. b2 \in Nat
    <3>1. \A s \in Slots : BaseCharges'[s] \in Nat
      BY DEF Inv, TypeOK, Entries, BaseCharges
    <3> DEFINE d == BaseCharges'
    <3>2. IsFiniteSet(P) /\ \A s \in P : d[s] \in Nat
      BY <1>13, <3>1, SlotsFinite
    <3> HIDE DEF d
    <3>3. SumFunctionOnSet(d, P) \in Nat
      BY <3>2, SumNatural
    <3> QED
      BY <3>3 DEF d, BaseBytes
  <2>5. payload_bytes' <= payload_bytes - c /\ payload_bytes' \in Int
    <3>1. payload_bytes' = payload_bytes - entries[v].residual_charge - c
      BY <1>1 DEF release_base
    <3>2. entries[v].residual_charge \in Nat /\ payload_bytes \in Int
      BY <1>0 DEF TypeOK, Entries
    <3> QED
      BY <2>1, <3>1, <3>2
  <2>6. 0 + b >= required_reclaim(n)
    <3>1. b = BaseBytes(Q)
      BY <1>12, Zenon
    <3>2. 0 + BaseBytes(Q) >= required_reclaim(n)
      BY <1>8, <1>10 DEF Enough
    <3> QED
      BY <3>1, <3>2, Zenon
  <2> HIDE DEF b, b2, r2, c
  <2>7. r2 + b2 >= 0 + b - c
    BY <2>1, <2>2, <2>3, <2>4
  <2>8. r2 + b2 >= required_reclaim(n)'
    BY <1>0, <1>9, <2>1, <2>3, <2>4, <2>5, <2>6, <2>7, LessNeeded
  <2> QED
    BY <2>8 DEF Enough, r2, b2
<1>15. ~SlotNeeded'
  <2>1. entry_count = Cardinality(Used) /\ Used \in SUBSET Slots
    BY DEF CountersExact, Used
  <2>2. Cardinality(Slots) = MaxEntries /\ IsFiniteSet(Slots)
    BY ConfigAssumption, FS_Interval DEF Slots
  <2>3. Cardinality(Used) <= Cardinality(Slots) /\ Cardinality(Used) \in Nat
    BY <2>1, <2>2, FS_Subset, SlotsFinite
  <2>4. entry_count' = entry_count - 1
    BY <1>1 DEF release_base
  <2>5. MaxEntries \in Nat
    BY ConfigAssumption
  <2>6. ~(entry_count' >= MaxEntries)
    BY <2>1, <2>2, <2>3, <2>4, <2>5
  <2> QED
    BY <2>6 DEF SlotNeeded
<1> QED
  BY <1>13, <1>14, <1>15

\* Room is established when an admission begins and kept by the turns of its loop.
LEMMA StepRoom == Inv /\ CountersExact /\ Room /\ [Next]_vars => Room'
<1> SUFFICES ASSUME Inv, CountersExact, Room, [Next]_vars PROVE Room'
  OBVIOUS
<1>0. Inv'
  BY NextInv
<1>1. CASE call'.op \notin {"insert", "promote"}
  BY <1>1 DEF Room
<1>2. CASE call'.op \in {"insert", "promote"} /\ call.op # call'.op
  <2>1. \E key \in Keys, p \in Payloads, m \in Sizes :
            InsertBegin(key, p, m) \/ PromoteBegin(key, p, m)
    <3>1. Idle.op = "none"
      BY DEF Idle, Request
    <3>2. ~UNCHANGED vars
      BY <1>2 DEF vars
    <3>3. ~ \E key \in Keys : \/ ecache_get(key) \/ ecache_pin(key) \/ ecache_unpin(key)
                              \/ ecache_remove(key)
      BY <1>2 DEF ecache_get, ecache_pin, ecache_unpin, ecache_remove
    <3>4. ~ \E level \in {"warn", "critical"}, target \in Targets : PressureBegin(level, target)
      BY <1>2 DEF PressureBegin, Request
    <3>5. ~DestroyBegin /\ ~DestroyFinish
      BY <1>2 DEF DestroyBegin, DestroyFinish, Request
    <3>6. ~InsertFinish /\ ~PromoteFinish /\ ~PressureFinish /\ ~ecache_init
      BY <1>2, <3>1 DEF InsertFinish, PromoteFinish, PressureFinish, ecache_init
    <3>7. ~ReclaimResidual /\ ~ReclaimBase /\ ~DestroySlot
      BY <1>2 DEF ReclaimResidual, ReclaimBase, DestroySlot
    <3> QED
      BY <3>2, <3>3, <3>4, <3>5, <3>6, <3>7 DEF Next, Step
  <2> QED
    BY <1>0, <2>1, BeginRoom
<1>3. CASE call'.op \in {"insert", "promote"} /\ call.op = call'.op /\ Next
  BY <1>0, <1>3, LoopTurns, ResidualRoom, BaseRoom
<1>4. CASE UNCHANGED vars
  <2>1. UNCHANGED <<entries, entry_count, payload_bytes, layers>> /\ call' = call
        /\ TypeOK /\ TypeOK'
    BY <1>0, <1>4 DEF vars, Inv
  <2> SUFFICES ASSUME NEW slot, NEW n, call.op \in {"insert", "promote"},
                      call.slot = slot, call.amount = n,
                      NEW X \in SUBSET SUBSET Slots, {} \in X, PlanClosed(X, slot)'
               PROVE  \E P \in X : Enough(n, P)' /\ (SlotNeeded' => P # {})
    BY <2>1 DEF Room, Possible
  <2>2. \A P : choose_base(slot, P)' = choose_base(slot, P) /\ (Enough(n, P)' <=> Enough(n, P))
    BY <2>1, SameCache
  <2>3. PlanClosed(X, slot)
    BY <2>2 DEF PlanClosed
  <2>4. PICK P \in X : Enough(n, P) /\ (SlotNeeded => P # {})
    BY <2>3 DEF Room, Possible
  <2>5. SlotNeeded' = SlotNeeded
    BY <2>1 DEF SlotNeeded
  <2> QED
    BY <2>2, <2>4, <2>5
<1> QED
  BY <1>1, <1>2, <1>3, <1>4

\* Room holds in every reachable state.
LEMMA RoomHolds == Spec => []Room
<1>1. Init => Room
  BY DEF Init, Idle, Request, Room
<1>2. Inv /\ CountersExact /\ Room /\ [Next]_vars => Room'
  BY StepRoom
<1> QED
  BY <1>1, <1>2, InvHolds, CountersCorrect, PTL DEF Spec

\* make_room never runs out of victims: what can_make_room planned without changing anything,
\* the loop finds again step by step, on counters, pins and recency that it changes itself.
THEOREM PlanCorrect == Spec => []PlanHonoured
<1>1. Inv /\ Room => PlanHonoured
  <2> SUFFICES ASSUME Inv, Room PROVE PlanHonoured
    OBVIOUS
  <2>1. call.op \in {"insert", "promote"} /\ Wanting =>
            choose_residual # NoSlot \/ choose_base(call.slot, {}) # NoSlot
    BY RoomHasVictim
  <2>2. call.op = "promote" => /\ occupied(call.slot)
                               /\ entries[call.slot].key = call.key
                               /\ ~has_residual(call.slot)
    BY DEF Inv, CallSound
  <2> QED
    BY <2>1, <2>2 DEF PlanHonoured
<1> QED
  BY <1>1, InvHolds, RoomHolds, PTL

\* An admission that leaves its loop fits.
LEMMA StepBudget == Inv /\ Room /\ BudgetHeld /\ [Next]_vars => BudgetHeld'
<1> SUFFICES ASSUME Inv, Room, BudgetHeld, [Next]_vars PROVE BudgetHeld'
  OBVIOUS
<1>0. Budget \in Nat /\ payload_bytes \in Int /\ peak \in Int
      /\ entries \in [Slots -> Entries] /\ call \in Calls
  BY ConfigAssumption DEF Inv, TypeOK
<1>1. ASSUME payload_bytes' = payload_bytes, peak' = peak PROVE BudgetHeld'
  BY <1>1 DEF BudgetHeld
<1>2. ASSUME NEW v \in Slots, release_base(v) PROVE BudgetHeld'
  <2>1. entries[v].base_charge \in Nat /\ entries[v].residual_charge \in Nat
    BY <1>0 DEF Entries
  <2>2. peak' = peak /\ payload_bytes' = payload_bytes - entries[v].residual_charge
                                                        - entries[v].base_charge
    BY <1>2 DEF release_base
  <2> QED
    BY <1>0, <2>1, <2>2 DEF BudgetHeld
<1>3. ASSUME NEW v \in Slots, release_residual(v) PROVE BudgetHeld'
  <2>1. entries[v].residual_charge \in Nat
    BY <1>0 DEF Entries
  <2>2. peak' = peak /\ payload_bytes' = payload_bytes - entries[v].residual_charge
    BY <1>3 DEF release_residual
  <2> QED
    BY <1>0, <2>1, <2>2 DEF BudgetHeld
<1>4. CASE InsertFinish \/ PromoteFinish
  <2>1. /\ call.op \in {"insert", "promote"} /\ LoopDone
        /\ payload_bytes' = payload_bytes + call.amount /\ peak' = Raise(payload_bytes')
    BY <1>4 DEF InsertFinish, PromoteFinish
  <2>2. ~Wanting
    <3>1. MayEvictBase
      BY <2>1 DEF MayEvictBase
    <3> QED
      BY <2>1, <3>1, RoomHasVictim DEF LoopDone
  <2>3. ~(required_reclaim(call.amount) > 0) /\ call.amount \in Nat
    BY <1>0, <2>1, <2>2 DEF Wanting, Calls
  <2>4. payload_bytes + call.amount <= Budget
    BY <1>0, <2>3 DEF required_reclaim
  <2> QED
    BY <1>0, <2>1, <2>3, <2>4 DEF BudgetHeld, Raise
<1>5. ASSUME NEW key \in Keys,
             ecache_get(key) \/ ecache_pin(key) \/ ecache_unpin(key) \/ ecache_remove(key)
      PROVE  BudgetHeld'
  <2>1. CASE ecache_remove(key)
    BY <1>2, <2>1 DEF ecache_remove, Resident
  <2>2. CASE ecache_get(key) \/ ecache_pin(key) \/ ecache_unpin(key)
    BY <1>1, <2>2 DEF ecache_get, ecache_pin, ecache_unpin
  <2> QED
    BY <1>5, <2>1, <2>2
<1>6. ASSUME \/ \E key \in Keys, p \in Payloads, n \in Sizes :
                   InsertBegin(key, p, n) \/ PromoteBegin(key, p, n)
             \/ \E level \in {"warn", "critical"}, target \in Targets :
                   PressureBegin(level, target)
             \/ DestroyBegin \/ PressureFinish \/ DestroyFinish
      PROVE  BudgetHeld'
  <2>1. payload_bytes' = payload_bytes /\ peak' = peak
    BY <1>6 DEF InsertBegin, PromoteBegin, PressureBegin, DestroyBegin, PressureFinish,
                DestroyFinish
  <2> QED
    BY <1>1, <2>1
<1>7. CASE ReclaimResidual
  BY <1>3, <1>7, ResidualVictim DEF Inv, ReclaimResidual, EligibleResiduals
<1>8. CASE ReclaimBase
  BY <1>2, <1>8, BaseVictim DEF Inv, ReclaimBase, Evictable
<1>9. CASE DestroySlot
  <2>1. Slots \ free_slots \in SUBSET Nat /\ Slots \ free_slots # {}
    BY <1>9, ConfigAssumption DEF Slots, DestroySlot
  <2>2. Min(Slots \ free_slots) \in Slots
    BY <2>1, MinIsLeast
  <2> QED
    BY <1>2, <1>9, <2>2 DEF DestroySlot
<1>10. CASE ecache_init
  BY <1>0, <1>10 DEF ecache_init, BudgetHeld
<1>11. CASE UNCHANGED vars
  BY <1>1, <1>11 DEF vars
<1> QED
  BY <1>4, <1>5, <1>6, <1>7, <1>8, <1>9, <1>10, <1>11 DEF Next, Step

\* The budget is a hard limit: no admission takes the charged bytes, or their recorded peak,
\* above budget_bytes.
THEOREM BudgetCorrect == Spec => []BudgetHeld
<1>1. Init => BudgetHeld
  BY ConfigAssumption DEF Init, BudgetHeld
<1>2. Inv /\ Room /\ BudgetHeld /\ [Next]_vars => BudgetHeld'
  BY StepBudget
<1> QED
  BY <1>1, <1>2, InvHolds, RoomHolds, PTL DEF Spec
=============================================================================
