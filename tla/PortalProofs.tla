---------------------------- MODULE PortalProofs ----------------------------
(***************************************************************************)
(* waitForAll() is right for any finite number of journeys, portals take   *)
(* their journeys back, exceptions are counted, and nothing of it disturbs *)
(* waitForAll().                                                           *)
(*                                                                         *)
(* A thread's count goes wrong when a Portal carries an exception away, so *)
(* that no count by itself is an invariant.  Their sum is one, modulo the  *)
(* range of a count, and what sums and remainders are has to be said       *)
(* first.  The library defines a sum as a fold along CHOOSE; the induction *)
(* it needs is that of a set of natural numbers having a smallest element. *)
(***************************************************************************)
EXTENDS Portal, FiniteSetTheorems, WellFoundedInduction, TLAPS

(* waitForAll() by itself: the counters differ by the number of living journeys, *)
(* and the value of the counter that is read first is not ahead of it.           *)

Difference == created = destroyed + Cardinality(alive)

NotAhead == main = "between" /\ first = "destroyed" => seen <= destroyed

WaitInv == WaitTypeOK /\ Difference /\ NotAhead /\ AllAreOver /\ alive \cap unborn = {}

\* The living journeys are finitely many.
LEMMA AliveIsFinite == WaitTypeOK => IsFiniteSet(alive) /\ Cardinality(alive) \in Nat
<1> SUFFICES ASSUME WaitTypeOK PROVE IsFiniteSet(alive) /\ Cardinality(alive) \in Nat
  OBVIOUS
<1>1. IsFiniteSet(alive)
  BY WaitForAllAssumption, FS_Subset DEF WaitTypeOK
<1> QED BY <1>1, FS_CardinalityType

LEMMA WaitInvInit == WaitInit => WaitInv
<1> SUFFICES ASSUME WaitInit PROVE WaitInv
  OBVIOUS
<1>1. Cardinality(alive) = 0
  BY FS_EmptySet DEF WaitInit
<1> QED
  BY <1>1 DEF WaitInit, WaitInv, WaitTypeOK, Difference, NotAhead, AllAreOver,
              MainPlaces, Counters

\* A new journey: one more is alive, and one more is counted.
LEMMA CreateKeeps ==
  ASSUME WaitInv, NEW j \in Journeys, main = "busy" \/ alive # {}, Create(j)
  PROVE  WaitInv'
<1>1. IsFiniteSet(alive) /\ Cardinality(alive) \in Nat
  BY AliveIsFinite DEF WaitInv
<1>2. j \notin alive
  BY DEF WaitInv, Create
<1>3. Cardinality(alive') = Cardinality(alive) + 1
  BY <1>1, <1>2, FS_AddElement DEF Create
<1>4. WaitTypeOK'
  BY DEF WaitInv, WaitTypeOK, Create
<1>5. Difference'
  BY <1>1, <1>3 DEF WaitInv, WaitTypeOK, Difference, Create
<1>6. NotAhead' /\ AllAreOver' /\ (alive \cap unborn = {})'
  BY DEF WaitInv, NotAhead, AllAreOver, Create
<1> QED BY <1>4, <1>5, <1>6 DEF WaitInv

LEMMA DestroyKeeps ==
  ASSUME WaitInv, NEW j \in Journeys, Destroy(j)
  PROVE  WaitInv'
<1>1. IsFiniteSet(alive) /\ Cardinality(alive) \in Nat
  BY AliveIsFinite DEF WaitInv
<1>2. Cardinality(alive') = Cardinality(alive) - 1
  BY <1>1, FS_RemoveElement DEF Destroy
<1>3. WaitTypeOK'
  BY DEF WaitInv, WaitTypeOK, Destroy
<1>4. Difference'
  BY <1>1, <1>2 DEF WaitInv, WaitTypeOK, Difference, Destroy
<1>5. NotAhead'
  BY DEF WaitInv, WaitTypeOK, NotAhead, Destroy
<1>6. AllAreOver' /\ (alive \cap unborn = {})'
  BY DEF WaitInv, AllAreOver, Destroy
<1> QED BY <1>3, <1>4, <1>5, <1>6 DEF WaitInv

\* The second counter has the value of the first: nobody is alive.
LEMMA CompareKeeps ==
  ASSUME WaitInv, Compare
  PROVE  WaitInv'
<1>1. IsFiniteSet(alive) /\ Cardinality(alive) \in Nat
  BY AliveIsFinite DEF WaitInv
<1>2. AllAreOver'
  <2> SUFFICES ASSUME main' = "returned", first' = "destroyed" PROVE alive' = {}
    BY DEF AllAreOver
  <2>1. created = seen /\ seen <= destroyed
    BY DEF Compare, Counter, Counters, WaitInv, NotAhead
  <2>2. Cardinality(alive) = 0
    BY <1>1, <2>1 DEF WaitInv, WaitTypeOK, Difference
  <2> QED BY <1>1, <2>2, FS_EmptySet DEF Compare
<1>3. WaitTypeOK' /\ Difference' /\ NotAhead' /\ (alive \cap unborn = {})'
  BY DEF WaitInv, WaitTypeOK, Difference, NotAhead, Compare, MainPlaces
<1> QED BY <1>2, <1>3 DEF WaitInv

LEMMA WaitInvNext == WaitInv /\ [WaitNext]_waitVars => WaitInv'
<1> SUFFICES ASSUME WaitInv, [WaitNext]_waitVars PROVE WaitInv'
  OBVIOUS
<1> USE DEF WaitInv, WaitTypeOK, Difference, NotAhead, AllAreOver
<1>1. CASE \E j \in Journeys : (main = "busy" \/ alive # {}) /\ Create(j)
  BY <1>1, CreateKeeps
<1>2. CASE \E j \in Journeys : Destroy(j)
  BY <1>2, DestroyKeeps
<1>3. CASE CallWait
  BY <1>3 DEF CallWait, MainPlaces
<1>4. CASE ReadFirst
  BY <1>4 DEF ReadFirst, Counter, Counters, MainPlaces
<1>5. CASE Compare
  BY <1>5, CompareKeeps
<1>6. CASE UNCHANGED waitVars
  BY <1>6 DEF waitVars
<1> QED BY <1>1, <1>2, <1>3, <1>4, <1>5, <1>6 DEF WaitNext

\* The counters differ by the number of living journeys, at every moment.
THEOREM WaitInvariant == WaitSpec => []WaitInv
<1> QED BY WaitInvInit, WaitInvNext, PTL DEF WaitSpec

\* When waitForAll() has returned, no journey is left (journey.cpp:186-191), if
\* this build reads the counter of destroyed journeys first.
THEOREM WaitsForAll == WaitSpec => []AllAreOver
<1>1. WaitInv => AllAreOver
  BY DEF WaitInv
<1> QED BY <1>1, WaitInvariant, PTL

\* What is left when the values are equal, whichever counter was read first: the
\* journeys created since, if the first was that of the created, else nobody.
LEMMA LeftBehind ==
  ASSUME WaitInv, Compare, main' = "returned"
  PROVE  Cardinality(alive) = IF first = "created" THEN created - seen ELSE 0
<1>1. Cardinality(alive) \in Nat
  BY AliveIsFinite DEF WaitInv
<1>2. CASE first = "created"
  <2>1. destroyed = seen
    BY <1>2 DEF Compare, Counter, Counters
  <2> QED BY <1>1, <1>2, <2>1 DEF WaitInv, WaitTypeOK, Difference
<1>3. CASE first = "destroyed"
  <2>1. created = seen /\ seen <= destroyed
    BY <1>3 DEF Compare, Counter, Counters, WaitInv, NotAhead
  <2> QED BY <1>1, <1>3, <2>1 DEF WaitInv, WaitTypeOK, Difference
<1> QED BY <1>2, <1>3 DEF WaitInv, WaitTypeOK, Counters

\* Whichever counter a build reads first, waitForAll() returns with as many
\* journeys left as were created between its reads, or none (journey.cpp:189).
THEOREM CountsMeanReturn == WaitSpec => ReturnsByCount
<1> DEFINE P == main = "between" /\ main' = "returned"
       => Cardinality(alive) = IF first = "created" THEN created - seen ELSE 0
<1>1. WaitInv /\ [WaitNext]_waitVars => [P]_waitVars
  <2> SUFFICES ASSUME WaitInv, WaitNext, main = "between", main' = "returned"
               PROVE  Cardinality(alive) = IF first = "created" THEN created - seen ELSE 0
    OBVIOUS
  <2>1. Compare
    BY DEF WaitNext, Create, Destroy, CallWait, ReadFirst
  <2> QED BY <2>1, LeftBehind
<1> QED BY <1>1, WaitInvariant, PTL DEF WaitSpec, ReturnsByCount

-----------------------------------------------------------------------------
(* Sums *)

\* The smallest element of a set of natural numbers.
LEMMA Smallest ==
  ASSUME NEW N, N \subseteq Nat, N # {}
  PROVE  \E n \in N : \A m \in N : n <= m
<1>1. PICK n \in N : \A m \in N : ~(<<m, n>> \in OpToRel(<, Nat))
  BY NatLessThanWellFounded, WFMin
<1>2. \A m, k \in Nat : m < k => <<m, k>> \in OpToRel(<, Nat)
  BY DEF OpToRel
<1>3. \A m \in N : m \in Nat
  OBVIOUS
<1>4. \A m \in N : ~(m < n)
  BY <1>1, <1>2, <1>3, Zenon
<1> QED BY <1>3, <1>4

\* The order in which a sum takes its elements.
Pick(s) == CHOOSE x \in s : TRUE

\* What is chosen is there.
LEMMA PickIn == \A s : s # {} => Pick(s) \in s
  BY DEF Pick

\* Induction over the subsets of a finite set, with the sets it holds for as a set.
LEMMA SubsetInduction ==
  ASSUME NEW S, IsFiniteSet(S), NEW T, {} \in T,
         \A s \in SUBSET S : s # {} /\ s \ {Pick(s)} \in T => s \in T
  PROVE  SUBSET S \subseteq T
<1> DEFINE Bad == {n \in Nat : \E s \in SUBSET S : s \notin T /\ Cardinality(s) = n}
<1>1. \A s \in SUBSET S : IsFiniteSet(s) /\ Cardinality(s) \in Nat
  BY FS_Subset, FS_CardinalityType
<1> SUFFICES ASSUME Bad # {} PROVE FALSE
  BY <1>1
<1>2. PICK n \in Bad : \A m \in Bad : n <= m
  BY Smallest, Bad \subseteq Nat
<1>3. PICK s \in SUBSET S : s \notin T /\ Cardinality(s) = n
  BY <1>2
<1> DEFINE x == Pick(s)
<1>4. x \in s
  BY <1>3, PickIn
<1>5. Cardinality(s \ {x}) = n - 1
  BY <1>1, <1>3, <1>4, FS_RemoveElement
<1>6. s \ {x} \in SUBSET S /\ s \ {x} \notin T
  BY <1>3, <1>4
<1>7. n - 1 \in Bad
  BY <1>1, <1>5, <1>6
<1> QED BY <1>2, <1>7

\* g is the function whose value for S the library calls the sum of f.
IsSum(f, S, g) ==
  g = [s \in SUBSET S |-> IF s = {} THEN 0 ELSE f[Pick(s)] + g[s \ {Pick(s)}]]

\* The function a fold chooses.
LEMMA SumIsChosen ==
  ASSUME NEW S, NEW f \in [S -> Int]
  PROVE  SumFunction(f) = (CHOOSE g : IsSum(f, S, g))[S]
<1>1. DOMAIN f = S
  OBVIOUS
<1> QED
  BY <1>1 DEF SumFunction, SumFunctionOnSet, FoldFunctionOnSet, MapThenFoldSet, IsSum, Pick

\* g sums up the subsets of at most n elements.
SumsUpTo(f, S, n, g) ==
  /\ g \in [SUBSET S -> Int]
  /\ \A s \in SUBSET S : Cardinality(s) <= n =>
       g[s] = IF s = {} THEN 0 ELSE f[Pick(s)] + g[s \ {Pick(s)}]

\* However many elements there are, there is a function that sums them up.
LEMMA SumsAreDefined ==
  ASSUME NEW S, IsFiniteSet(S), NEW f \in [S -> Int], NEW n \in Nat
  PROVE  \E g : SumsUpTo(f, S, n, g)
<1> DEFINE Bad == {m \in Nat : ~\E g : SumsUpTo(f, S, m, g)}
<1> SUFFICES ASSUME Bad # {} PROVE FALSE
  OBVIOUS
<1>1. \A s \in SUBSET S : IsFiniteSet(s) /\ Cardinality(s) \in Nat
  BY FS_Subset, FS_CardinalityType
<1>2. PICK m \in Bad : \A k \in Bad : m <= k
  BY Smallest, Bad \subseteq Nat
<1>3. m # 0
  <2> DEFINE zero == [s \in SUBSET S |-> 0]
  <2>1. \A s \in SUBSET S : Cardinality(s) <= 0 => s = {}
    BY <1>1, FS_EmptySet
  <2>2. SumsUpTo(f, S, 0, zero)
    BY <2>1 DEF SumsUpTo
  <2> QED BY <1>2, <2>2
<1>4. m - 1 \in Nat /\ m - 1 \notin Bad
  BY <1>2, <1>3
<1>5. PICK g : SumsUpTo(f, S, m - 1, g)
  BY <1>4
<1> DEFINE h == [s \in SUBSET S |-> IF s = {} THEN 0 ELSE f[Pick(s)] + g[s \ {Pick(s)}]]
<1>6. \A s \in SUBSET S : s # {} => Pick(s) \in s /\ Pick(s) \in S
  BY PickIn
<1>7. h \in [SUBSET S -> Int]
  BY <1>5, <1>6 DEF SumsUpTo
<1>8. ASSUME NEW s \in SUBSET S, Cardinality(s) <= m, s # {}
      PROVE  h[s] = f[Pick(s)] + h[s \ {Pick(s)}]
  <2> DEFINE r == s \ {Pick(s)}
  <2>1. r \in SUBSET S /\ Cardinality(r) <= m - 1
    BY <1>1, <1>2, <1>6, <1>8, FS_RemoveElement
  <2>2. g[r] = h[r]
    BY <1>5, <2>1 DEF SumsUpTo
  <2>3. h[s] = f[Pick(s)] + g[r]
    BY <1>8
  <2> QED BY <2>2, <2>3
<1>9. h[{}] = 0
  OBVIOUS
<1>10. SumsUpTo(f, S, m, h)
  BY <1>7, <1>8, <1>9, Zenon DEF SumsUpTo
<1> QED BY <1>2, <1>10

\* g holds the sums over all the subsets of S.
PartialSums(f, S, g) ==
  /\ g \in [SUBSET S -> Int]
  /\ SumFunction(f) = g[S] /\ g[{}] = 0
  /\ \A s \in SUBSET S : s # {} => g[s] = f[Pick(s)] + g[s \ {Pick(s)}]

\* A sum is the sum of its parts.
LEMMA SumFacts ==
  ASSUME NEW S, IsFiniteSet(S), NEW f \in [S -> Int]
  PROVE  \E g : PartialSums(f, S, g)
<1> DEFINE n == Cardinality(S)
<1>1. \A s \in SUBSET S : Cardinality(s) <= n /\ n \in Nat
  BY FS_Subset, FS_CardinalityType
<1>2. PICK h : SumsUpTo(f, S, n, h)
  BY <1>1, SumsAreDefined, S \in SUBSET S
<1>3. h \in [SUBSET S -> Int]
  BY <1>2 DEF SumsUpTo
<1>4. \A s \in SUBSET S : h[s] = IF s = {} THEN 0 ELSE f[Pick(s)] + h[s \ {Pick(s)}]
  BY <1>1, <1>2 DEF SumsUpTo
<1>5. h = [s \in SUBSET S |-> IF s = {} THEN 0 ELSE f[Pick(s)] + h[s \ {Pick(s)}]]
  BY <1>3, <1>4
<1>6. IsSum(f, S, h)
  BY <1>5 DEF IsSum
<1> DEFINE g == CHOOSE g : IsSum(f, S, g)
<1>7. IsSum(f, S, g)
  BY <1>6
<1>8. SumFunction(f) = g[S]
  BY SumIsChosen
<1> HIDE DEF g
<1>9. g = [s \in SUBSET S |-> IF s = {} THEN 0 ELSE f[Pick(s)] + g[s \ {Pick(s)}]]
  BY <1>7 DEF IsSum
<1>10. /\ g[{}] = 0
       /\ \A s \in SUBSET S : s # {} => g[s] = f[Pick(s)] + g[s \ {Pick(s)}]
  <2>1. \A s \in SUBSET S : g[s] = IF s = {} THEN 0 ELSE f[Pick(s)] + g[s \ {Pick(s)}]
    BY <1>9, Zenon
  <2> QED BY <2>1
<1>11. \A s \in SUBSET S : g[s] \in Int
  <2> DEFINE T == {s \in SUBSET S : g[s] \in Int}
  <2>1. {} \in T
    BY <1>10
  <2>2. ASSUME NEW s \in SUBSET S, s # {}, s \ {Pick(s)} \in T PROVE s \in T
    <3>1. f[Pick(s)] \in Int
      BY <2>2, PickIn
    <3>2. g[s \ {Pick(s)}] \in Int
      BY <2>2
    <3>3. g[s] = f[Pick(s)] + g[s \ {Pick(s)}]
      BY <1>10, <2>2
    <3> QED BY <3>1, <3>2, <3>3
  <2>3. SUBSET S \subseteq T
    <3> HIDE DEF T
    <3> QED BY <2>1, <2>2, SubsetInduction
  <2> QED BY <2>3
<1>12. DOMAIN g = SUBSET S
  BY <1>9
<1>13. g \in [SUBSET S -> Int]
  BY <1>9, <1>11, <1>12
<1> QED BY <1>8, <1>10, <1>13, Zenon DEF PartialSums

\* A sum of nothing.
LEMMA SumOfZeros ==
  ASSUME NEW S, IsFiniteSet(S)
  PROVE  SumFunction([x \in S |-> 0]) = 0
<1> DEFINE f == [x \in S |-> 0]
<1>1. f \in [S -> Int] /\ \A x \in S : f[x] = 0
  OBVIOUS
<1> HIDE DEF f
<1>2. PICK g : PartialSums(f, S, g)
  BY <1>1, SumFacts
<1> DEFINE T == {s \in SUBSET S : g[s] = 0}
<1>3. {} \in T
  BY <1>2 DEF PartialSums
<1>4. ASSUME NEW s \in SUBSET S, s # {}, s \ {Pick(s)} \in T PROVE s \in T
  <2>1. f[Pick(s)] = 0
    BY <1>1, <1>4, PickIn
  <2>2. g[s] = f[Pick(s)] + g[s \ {Pick(s)}]
    BY <1>2, <1>4 DEF PartialSums
  <2> QED BY <1>4, <2>1, <2>2
<1>5. SUBSET S \subseteq T
  <2> HIDE DEF T
  <2> QED BY <1>3, <1>4, SubsetInduction DEF PartialSums
<1>6. g[S] = 0
  BY <1>5
<1> QED BY <1>2, <1>6 DEF f, PartialSums

\* One summand changes.
LEMMA SumExcept ==
  ASSUME NEW S, IsFiniteSet(S), NEW f \in [S -> Int], NEW x \in S, NEW v \in Int,
         NEW h, h = [f EXCEPT ![x] = v]
  PROVE  /\ SumFunction(f) \in Int
         /\ SumFunction(h) = SumFunction(f) - f[x] + v
<1>1. h \in [S -> Int] /\ h[x] = v /\ \A y \in S \ {x} : h[y] = f[y]
  <2>1. \A y \in S : h[y] = IF y = x THEN v ELSE f[y]
    OBVIOUS
  <2>2. h \in [S -> Int]
    OBVIOUS
  <2> QED BY <2>1, <2>2
<1>2. PICK g : PartialSums(f, S, g)
  BY SumFacts
<1>3. PICK k : PartialSums(h, S, k)
  BY <1>1, SumFacts
<1> DEFINE T == {s \in SUBSET S : k[s] = IF x \in s THEN g[s] - f[x] + v ELSE g[s]}
<1>4. {} \in T
  BY <1>2, <1>3 DEF PartialSums
<1>5. ASSUME NEW s \in SUBSET S, s # {}, s \ {Pick(s)} \in T PROVE s \in T
  <2> DEFINE p == Pick(s)  r == s \ {p}
  <2>1. p \in S /\ p \in s /\ r \in SUBSET S /\ p \notin r
    BY <1>5, PickIn
  <2>2. /\ g[s] = f[p] + g[r] /\ k[s] = h[p] + k[r]
        /\ k[r] = IF x \in r THEN g[r] - f[x] + v ELSE g[r]
    BY <1>2, <1>3, <1>5 DEF PartialSums
  <2>3. /\ g[s] \in Int /\ g[r] \in Int /\ k[r] \in Int /\ f[p] \in Int /\ f[x] \in Int
    BY <1>2, <1>3, <2>1 DEF PartialSums
  <2> HIDE DEF p
  <2>4. CASE p = x
    <3>1. x \notin r /\ x \in s
      BY <2>1, <2>4
    <3> QED BY <1>1, <2>2, <2>3, <2>4, <3>1
  <2>5. CASE p # x
    <3>1. (x \in r <=> x \in s) /\ h[p] = f[p]
      BY <1>1, <2>1, <2>5
    <3>2. CASE x \in s
      BY <2>2, <2>3, <3>1, <3>2
    <3>3. CASE x \notin s
      BY <2>2, <2>3, <3>1, <3>3
    <3> QED BY <3>2, <3>3
  <2> QED BY <2>4, <2>5
<1>6. SUBSET S \subseteq T
  <2> HIDE DEF T
  <2> QED BY <1>4, <1>5, SubsetInduction
<1>7. k[S] = g[S] - f[x] + v
  BY <1>6
<1>8. g[S] \in Int
  BY <1>2 DEF PartialSums
<1> QED BY <1>2, <1>3, <1>7, <1>8 DEF PartialSums

\* To sum up how many are where is to count them.
LEMMA SumOfCounts ==
  ASSUME NEW S, IsFiniteSet(S), NEW f \in [S -> Int], NEW U, IsFiniteSet(U), NEW where,
         \A t \in S : f[t] = Cardinality({u \in U : where[u] = t})
  PROVE  SumFunction(f) = Cardinality({u \in U : where[u] \in S})
<1> DEFINE In(s) == {u \in U : where[u] \in s}
<1>1. \A s : IsFiniteSet(In(s)) /\ Cardinality(In(s)) \in Nat
  BY FS_Subset, FS_CardinalityType
<1>2. PICK g : PartialSums(f, S, g)
  BY SumFacts
<1> DEFINE T == {s \in SUBSET S : g[s] = Cardinality(In(s))}
<1>3. {} \in T
  <2>1. In({}) = {}
    OBVIOUS
  <2>2. Cardinality(In({})) = 0
    BY <2>1, FS_EmptySet
  <2> HIDE DEF In
  <2> QED BY <1>2, <2>2 DEF PartialSums
<1>4. ASSUME NEW s \in SUBSET S, s # {}, s \ {Pick(s)} \in T PROVE s \in T
  <2> DEFINE p == Pick(s)  r == s \ {p}  At == {u \in U : where[u] = p}
  <2>1. p \in S /\ p \in s /\ r \in SUBSET S /\ p \notin r
    BY <1>4, PickIn
  <2>2. In(s) = In(r) \cup At /\ In(r) \cap At = {}
    BY <2>1
  <2>3. IsFiniteSet(At) /\ Cardinality(At) \in Nat
    BY FS_Subset, FS_CardinalityType
  <2>4. Cardinality(In(s)) = Cardinality(In(r)) + Cardinality(At)
    <3>1. Cardinality(In(r) \cap At) = 0
      BY <2>2, FS_EmptySet
    <3>2. Cardinality(In(r) \cup At)
            = Cardinality(In(r)) + Cardinality(At) - Cardinality(In(r) \cap At)
      <4> HIDE DEF In, At
      <4> QED BY <1>1, <2>3, FS_Union
    <3> HIDE DEF In, At
    <3> QED BY <1>1, <2>2, <2>3, <3>1, <3>2
  <2>5. f[p] = Cardinality(At)
    BY <2>1
  <2>6. g[s] = f[p] + g[r] /\ g[r] = Cardinality(In(r))
    BY <1>2, <1>4 DEF PartialSums
  <2>7. g[s] = Cardinality(In(s))
    <3> HIDE DEF In, At, p
    <3> QED BY <1>1, <2>3, <2>4, <2>5, <2>6
  <2> QED BY <2>7
<1>5. SUBSET S \subseteq T
  <2> HIDE DEF T
  <2> QED BY <1>3, <1>4, SubsetInduction DEF PartialSums
<1>6. g[S] = Cardinality(In(S))
  BY <1>5
<1> QED BY <1>2, <1>6 DEF PartialSums

-----------------------------------------------------------------------------
(* Remainders *)

\* A multiple of n is not less than n.
LEMMA MultipleIsLarge ==
  ASSUME NEW n \in Nat, NEW a \in Int, a >= 1
  PROVE  a * n >= n
  BY SMT

\* A number has one remainder.
LEMMA RemainderIsUnique ==
  ASSUME NEW n \in Nat \ {0}, NEW q \in 0 .. n - 1, NEW r \in 0 .. n - 1,
         NEW k \in Int, q = k * n + r
  PROVE  q = r
<1>1. CASE k = 0
  BY <1>1
<1>2. CASE k >= 1
  BY <1>2, k * n >= n, MultipleIsLarge
<1>3. CASE k <= -1
  BY <1>3, (-k) * n >= n, MultipleIsLarge
<1> QED BY <1>1, <1>2, <1>3

\* Numbers that differ by a multiple of n have the same remainder.
LEMMA MultiplesVanish ==
  ASSUME NEW n \in Nat \ {0}, NEW a \in Int, NEW b \in Int, NEW k \in Int, a = b + k * n
  PROVE  a % n = b % n
<1> DEFINE p == a \div n  q == a % n  r == b \div n  s == b % n
<1>1. p \in Int /\ r \in Int /\ a = p * n + q /\ b = r * n + s
  OBVIOUS
<1>2. q \in 0 .. n - 1 /\ s \in 0 .. n - 1
  OBVIOUS
<1> HIDE DEF p, q, r, s
<1>3. q = (r + k - p) * n + s
  BY <1>1, <1>2
<1>4. r + k - p \in Int
  BY <1>1
<1> QED BY <1>2, <1>3, <1>4, RemainderIsUnique DEF q, s


-----------------------------------------------------------------------------
(* The inductive invariant *)

UnwindingOnes == {j \in Journeys : Unwinding(j)}

\* TypeOK without the variables of waitForAll(), and the domains it leaves out.
Types ==
  /\ sched \in [Journeys -> Schedulers]
  /\ thread \in [Journeys -> Threads \cup {None}]
  /\ doing \in [Journeys -> Doings]
  /\ portals \in [Journeys -> Seq(Schedulers)]
  /\ catchAt \in [Journeys -> Nat \cup {None}]
  /\ \A j \in Journeys : Unwinding(j) => catchAt[j] \in 0 .. Len(portals[j])
  /\ pending \in [Journeys -> BOOLEAN]
  /\ uncaught \in [Threads -> 0 .. Counts - 1]
  /\ terminated \in BOOLEAN
  /\ calls \in [Journeys -> Nat] /\ \A j \in Journeys : calls[j] <= MaxCalls[j]

\* A thread executes one journey, which is alive and does not travel.
Exclusive ==
  /\ \A j \in Journeys : thread[j] # None => j \in alive /\ doing[j] = "teleport"
  /\ \A i, j \in Journeys : thread[i] = thread[j] /\ thread[i] # None => i = j

\* The Portal whose constructor or destructor travels is on the stack; an
\* exception travels only with a Portal that is left.
Travelling ==
  \A j \in Journeys : thread[j] = None =>
    /\ Unwinding(j) => doing[j] = "~Portal" /\ catchAt[j] < Len(portals[j])
    /\ doing[j] = "Portal" => portals[j] # <<>>
    /\ doing[j] = "~Portal" => portals[j] # <<>> /\ sched[j] = Innermost(j)

\* Without events a journey is where it is recorded.
Uninterrupted ==
  \A j \in Journeys \ Interruptible :
    ~pending[j] /\ (thread[j] # None => PoolOf[thread[j]] = sched[j])

\* The counts of the threads may have wrapped around.
Balance ==
  \E k \in Int : SumFunction(uncaught) = Cardinality(UnwindingOnes) + k * Counts

\* Where the journeys and their portals and exceptions are.
PlaceInv == Types /\ Exclusive /\ Travelling /\ Uninterrupted

LEMMA PlaceInvInit == Init => PlaceInv
<1> SUFFICES ASSUME Init PROVE PlaceInv
  OBVIOUS
<1>1. Types
  <2>1. 0 \in 0 .. Counts - 1
    BY PortalAssumption
  <2>2. sched \in [Journeys -> Schedulers] /\ thread \in [Journeys -> Threads \cup {None}]
    BY DEF Init
  <2>3. doing \in [Journeys -> Doings] /\ portals \in [Journeys -> Seq(Schedulers)]
    BY DEF Init, Doings
  <2>4. /\ catchAt \in [Journeys -> Nat \cup {None}]
        /\ \A j \in Journeys : Unwinding(j) => catchAt[j] \in 0 .. Len(portals[j])
    BY DEF Init, Unwinding
  <2>5. pending \in [Journeys -> BOOLEAN]
    BY Zenon DEF Init
  <2>6. uncaught \in [Threads -> 0 .. Counts - 1] /\ terminated \in BOOLEAN
    BY <2>1 DEF Init
  <2>7. calls \in [Journeys -> Nat] /\ \A j \in Journeys : calls[j] <= MaxCalls[j]
    BY PortalAssumption DEF Init
  <2> QED BY <2>2, <2>3, <2>4, <2>5, <2>6, <2>7 DEF Types
<1> QED
  BY <1>1 DEF Init, PlaceInv, Exclusive, Travelling, Uninterrupted, Unwinding

-----------------------------------------------------------------------------
(* Stacks of portals and counts of exceptions *)

\* What Append, Front and Last do to the stack of a journey.
LEMMA PortalFacts ==
  ASSUME NEW S, NEW s \in Seq(S)
  PROVE  /\ Len(s) \in Nat
         /\ \A x \in S : /\ Append(s, x) \in Seq(S) /\ Append(s, x) # <<>>
                         /\ Len(Append(s, x)) = Len(s) + 1
         /\ s # <<>> => /\ Front(s) \in Seq(S) /\ Len(Front(s)) = Len(s) - 1
                        /\ Len(s) > 0 /\ Last(s) \in S
<1>1. Len(s) \in Nat /\ DOMAIN s = 1 .. Len(s)
  OBVIOUS
<1>2. ASSUME NEW x \in S
      PROVE  /\ Append(s, x) \in Seq(S) /\ Append(s, x) # <<>>
             /\ Len(Append(s, x)) = Len(s) + 1
  <2>1. Append(s, x) \in Seq(S)
    OBVIOUS
  <2>2. Len(Append(s, x)) = Len(s) + 1
    OBVIOUS
  <2>3. Len(<<>>) = 0
    OBVIOUS
  <2> QED BY <1>1, <2>1, <2>2, <2>3
<1>3. ASSUME s # <<>>
      PROVE  /\ Front(s) \in Seq(S) /\ Len(Front(s)) = Len(s) - 1
             /\ Len(s) > 0 /\ Last(s) \in S
  <2>1. Len(s) > 0
    BY <1>3
  <2> QED BY <1>1, <2>1 DEF Front, Last
<1> QED BY <1>1, <1>2, <1>3

\* Counting up and down, around the end.
LEMMA CountFacts ==
  ASSUME NEW n \in 0 .. Counts - 1
  PROVE  /\ (n + 1) % Counts \in 0 .. Counts - 1 /\ (n - 1) % Counts \in 0 .. Counts - 1
         /\ (n + 1) % Counts = IF n = Counts - 1 THEN 0 ELSE n + 1
         /\ (n - 1) % Counts = IF n = 0 THEN Counts - 1 ELSE n - 1
<1> DEFINE N == Counts
<1>1. N \in Nat \ {0, 1}
  BY PortalAssumption
<1>2. CASE n = N - 1
  <2>1. (n + 1) % N = 0
    <3>1. N % N = 0 % N
      BY <1>1, MultiplesVanish, N = 0 + 1 * N
    <3>2. 0 % N = 0
      BY <1>1
    <3> QED BY <1>1, <1>2, <3>1, <3>2
  <2>2. (n - 1) % N = n - 1
    BY <1>1, <1>2
  <2> QED BY <1>1, <1>2, <2>1, <2>2
<1>3. CASE n = 0
  <2>1. (n - 1) % N = N - 1
    <3>1. (0 - 1) % N = (N - 1) % N
      <4>1. 0 - 1 \in Int /\ N - 1 \in Int /\ -1 \in Int /\ 0 - 1 = (N - 1) + (-1) * N
        BY <1>1
      <4> HIDE DEF N
      <4> QED BY <1>1, <4>1, MultiplesVanish
    <3>2. (N - 1) % N = N - 1
      BY <1>1
    <3> QED BY <1>3, <3>1, <3>2
  <2>2. (n + 1) % N = n + 1
    BY <1>1, <1>3
  <2> QED BY <1>1, <1>3, <2>1, <2>2
<1>4. CASE n # 0 /\ n # N - 1
  <2>1. (n + 1) % N = n + 1
    BY <1>1, <1>4
  <2>2. (n - 1) % N = n - 1
    BY <1>1, <1>4
  <2> QED BY <1>1, <1>4, <2>1, <2>2
<1> QED BY <1>2, <1>3, <1>4

\* An exception is thrown: it has a catch, and the count stays in its range.
LEMMA RaiseFacts ==
  ASSUME PlaceInv, NEW j \in Journeys, NEW t \in Threads, Raise(j, t),
         portals' \in [Journeys -> Seq(Schedulers)]
  PROVE  /\ uncaught' \in [Threads -> 0 .. Counts - 1]
         /\ catchAt' \in [Journeys -> Nat \cup {None}]
         /\ catchAt'[j] \in 0 .. Len(portals'[j]) /\ catchAt'[j] # None
         /\ \A i \in Journeys \ {j} : catchAt'[i] = catchAt[i]
<1>1. Len(portals'[j]) \in Nat
  BY PortalFacts
<1>2. PICK d \in 0 .. Len(portals'[j]) : catchAt' = [catchAt EXCEPT ![j] = d]
  BY DEF Raise
<1>3. d \in Nat /\ d # None
  BY <1>1, <1>2, PortalAssumption
<1>4. /\ catchAt' \in [Journeys -> Nat \cup {None}] /\ catchAt'[j] = d
      /\ \A i \in Journeys \ {j} : catchAt'[i] = catchAt[i]
  BY <1>2, <1>3 DEF PlaceInv, Types
<1>5. uncaught[t] \in 0 .. Counts - 1
  BY DEF PlaceInv, Types
<1>6. (uncaught[t] + 1) % Counts \in 0 .. Counts - 1
  BY <1>5, CountFacts
<1>7. uncaught' \in [Threads -> 0 .. Counts - 1]
  BY <1>6 DEF Raise, PlaceInv, Types
<1> QED BY <1>2, <1>3, <1>4, <1>7

-----------------------------------------------------------------------------
(* One lemma per action *)

\* What is to be shown of a step that only one journey takes part in.
LEMMA LocalStep ==
  ASSUME PlaceInv, Types', NEW j \in Journeys,
         \A i \in Journeys \ {j} :
           /\ i \in alive => i \in alive'
           /\ sched'[i] = sched[i] /\ thread'[i] = thread[i] /\ doing'[i] = doing[i]
           /\ portals'[i] = portals[i] /\ catchAt'[i] = catchAt[i] /\ pending'[i] = pending[i],
         thread'[j] # None =>
           /\ j \in alive' /\ doing'[j] = "teleport"
           /\ \A i \in Journeys \ {j} : thread[i] # thread'[j],
         thread'[j] = None =>
           /\ catchAt'[j] # None => doing'[j] = "~Portal" /\ catchAt'[j] < Len(portals'[j])
           /\ doing'[j] = "Portal" => portals'[j] # <<>>
           /\ doing'[j] = "~Portal" => portals'[j] # <<>> /\ sched'[j] = Last(portals'[j]),
         j \notin Interruptible =>
           ~pending'[j] /\ (thread'[j] # None => PoolOf[thread'[j]] = sched'[j])
  PROVE  PlaceInv'
<1>1. Exclusive'
  BY DEF PlaceInv, Exclusive
<1>2. Travelling'
  <2> SUFFICES ASSUME NEW i \in Journeys, thread'[i] = None
               PROVE  /\ catchAt'[i] # None => doing'[i] = "~Portal" /\ catchAt'[i] < Len(portals'[i])
                      /\ doing'[i] = "Portal" => portals'[i] # <<>>
                      /\ doing'[i] = "~Portal" => portals'[i] # <<>> /\ sched'[i] = Last(portals'[i])
    BY DEF Travelling, Unwinding, Innermost
  <2>1. CASE i = j
    BY <2>1
  <2>2. CASE i # j
    BY <2>2 DEF PlaceInv, Travelling, Unwinding, Innermost
  <2> QED BY <2>1, <2>2
<1>3. Uninterrupted'
  BY DEF PlaceInv, Uninterrupted
<1> QED BY <1>1, <1>2, <1>3 DEF PlaceInv

\* An executing journey is on a thread.
LEMMA ExecutingFacts ==
  ASSUME PlaceInv, NEW j \in Journeys, Executing(j)
  PROVE  /\ thread[j] \in Threads /\ thread[j] # None /\ j \in alive /\ doing[j] = "teleport"
         /\ \A i \in Journeys \ {j} : thread[i] # thread[j]
         /\ j \notin Interruptible => ~pending[j] /\ PoolOf[thread[j]] = sched[j]
  BY DEF PlaceInv, Types, Exclusive, Uninterrupted, Executing

\* The call is counted.
LEMMA CallFacts ==
  ASSUME PlaceInv, NEW j \in Journeys, Call(j)
  PROVE  /\ Executing(j) /\ catchAt[j] = None
         /\ calls' \in [Journeys -> Nat] /\ \A i \in Journeys : calls'[i] <= MaxCalls[i]
<1>1. Executing(j) /\ catchAt[j] = None /\ calls[j] < MaxCalls[j]
  BY DEF Call, InUserCode, Unwinding
<1>2. calls \in [Journeys -> Nat] /\ \A i \in Journeys : calls[i] <= MaxCalls[i]
  BY DEF PlaceInv, Types
<1>3. MaxCalls[j] \in Nat
  BY PortalAssumption
<1>4. /\ calls' \in [Journeys -> Nat] /\ calls'[j] = calls[j] + 1
      /\ \A i \in Journeys \ {j} : calls'[i] = calls[i]
  BY <1>2 DEF Call
<1> QED BY <1>1, <1>2, <1>3, <1>4

LEMMA ThrowKeeps ==
  ASSUME PlaceInv, NEW j \in Journeys, Throw(j)
  PROVE  PlaceInv'
<1>1. /\ Executing(j) /\ calls' \in [Journeys -> Nat]
      /\ \A i \in Journeys : calls'[i] <= MaxCalls[i]
  BY CallFacts DEF Throw
<1>2. UNCHANGED <<alive, portals, sched, thread, doing, pending, terminated>>
  BY DEF Throw, waitVars
<1>3. /\ uncaught' \in [Threads -> 0 .. Counts - 1]
      /\ catchAt' \in [Journeys -> Nat \cup {None}]
      /\ catchAt'[j] \in 0 .. Len(portals'[j]) /\ catchAt'[j] # None
      /\ \A i \in Journeys \ {j} : catchAt'[i] = catchAt[i]
  BY <1>1, <1>2, ExecutingFacts, RaiseFacts DEF Throw, PlaceInv, Types
<1>4. Types'
  BY <1>1, <1>2, <1>3 DEF PlaceInv, Types, Unwinding
<1>5. /\ thread[j] # None /\ j \in alive /\ doing[j] = "teleport"
      /\ \A i \in Journeys \ {j} : thread[i] # thread[j]
      /\ j \notin Interruptible => ~pending[j] /\ PoolOf[thread[j]] = sched[j]
  BY <1>1, ExecutingFacts
<1> QED BY <1>2, <1>3, <1>4, <1>5, LocalStep

LEMMA CatchKeeps ==
  ASSUME PlaceInv, NEW j \in Journeys, Catch(j)
  PROVE  PlaceInv'
<1>1. Executing(j) /\ UNCHANGED <<alive, portals, sched, thread, doing, pending, terminated, calls>>
  BY DEF Catch, waitVars
<1>2. /\ catchAt' \in [Journeys -> Nat \cup {None}] /\ catchAt'[j] = None
      /\ \A i \in Journeys \ {j} : catchAt'[i] = catchAt[i]
  BY DEF Catch, PlaceInv, Types
<1>3. uncaught' \in [Threads -> 0 .. Counts - 1]
  <2>1. thread[j] \in Threads
    BY <1>1, ExecutingFacts
  <2>2. uncaught[thread[j]] \in 0 .. Counts - 1
    BY <2>1 DEF PlaceInv, Types
  <2>3. (uncaught[thread[j]] - 1) % Counts \in 0 .. Counts - 1
    BY <2>2, CountFacts
  <2> QED BY <2>3 DEF Catch, PlaceInv, Types
<1>4. Types'
  BY <1>1, <1>2, <1>3 DEF PlaceInv, Types, Unwinding
<1>5. /\ thread[j] # None /\ j \in alive /\ doing[j] = "teleport"
      /\ \A i \in Journeys \ {j} : thread[i] # thread[j]
      /\ j \notin Interruptible => ~pending[j] /\ PoolOf[thread[j]] = sched[j]
  BY <1>1, ExecutingFacts
<1> QED BY <1>1, <1>2, <1>4, <1>5, LocalStep

LEMMA CancelKeeps ==
  ASSUME PlaceInv, NEW j \in Journeys, Cancel(j)
  PROVE  PlaceInv'
<1>1. /\ UNCHANGED <<alive, sched, thread, doing, portals, catchAt, uncaught, terminated, calls>>
      /\ j \in Interruptible
  BY DEF Cancel, waitVars
<1>2. /\ pending' \in [Journeys -> BOOLEAN]
      /\ \A i \in Journeys \ {j} : pending'[i] = pending[i]
  BY DEF Cancel, PlaceInv, Types
<1>3. Types'
  BY <1>1, <1>2 DEF PlaceInv, Types, Unwinding
<1>4. Exclusive' /\ Travelling'
  BY <1>1 DEF PlaceInv, Exclusive, Travelling, Unwinding, Innermost
<1>5. Uninterrupted'
  BY <1>1, <1>2 DEF PlaceInv, Uninterrupted
<1> QED BY <1>3, <1>4, <1>5 DEF PlaceInv

\* What an event does that is thrown: into the journey, or out of a destructor.
LEMMA RaiseEventFacts ==
  ASSUME PlaceInv, NEW j \in Journeys, NEW t \in Threads, NEW what, RaiseEvent(j, t, what),
         what = "Portal" /\ doing[j] = "Portal" => portals[j] # <<>>
  PROVE  /\ pending' \in [Journeys -> BOOLEAN] /\ ~pending'[j]
         /\ portals' \in [Journeys -> Seq(Schedulers)]
         /\ catchAt' \in [Journeys -> Nat \cup {None}]
         /\ uncaught' \in [Threads -> 0 .. Counts - 1] /\ terminated' \in BOOLEAN
         /\ \A i \in Journeys \ {j} : /\ pending'[i] = pending[i] /\ portals'[i] = portals[i]
                                      /\ catchAt'[i] = catchAt[i]
         /\ IF what = "~Portal" THEN UNCHANGED <<portals, catchAt>>
            ELSE catchAt'[j] \in 0 .. Len(portals'[j]) /\ catchAt'[j] # None
         /\ doing[j] # "Portal" => UNCHANGED portals
<1>1. /\ pending' \in [Journeys -> BOOLEAN] /\ ~pending'[j]
      /\ \A i \in Journeys \ {j} : pending'[i] = pending[i]
  BY DEF RaiseEvent, PlaceInv, Types
<1>2. CASE what = "~Portal"
  BY <1>1, <1>2 DEF RaiseEvent, NoException, PlaceInv, Types
<1>3. CASE what # "~Portal"
  <2>1. portals' = IF what = "Portal" /\ doing[j] = "Portal"
                   THEN [portals EXCEPT ![j] = Front(@)] ELSE portals
    BY <1>3 DEF RaiseEvent
  <2>2. Raise(j, t) /\ UNCHANGED terminated
    BY <1>3 DEF RaiseEvent
  <2>3. /\ portals' \in [Journeys -> Seq(Schedulers)]
        /\ \A i \in Journeys \ {j} : portals'[i] = portals[i]
        /\ doing[j] # "Portal" => UNCHANGED portals
    <3>1. CASE what = "Portal" /\ doing[j] = "Portal"
      <4>1. Front(portals[j]) \in Seq(Schedulers)
        BY <3>1, PortalFacts DEF PlaceInv, Types
      <4> QED BY <2>1, <3>1, <4>1 DEF PlaceInv, Types
    <3>2. CASE ~(what = "Portal" /\ doing[j] = "Portal")
      BY <2>1, <3>2 DEF PlaceInv, Types
    <3> QED BY <3>1, <3>2
  <2>4. /\ uncaught' \in [Threads -> 0 .. Counts - 1]
        /\ catchAt' \in [Journeys -> Nat \cup {None}]
        /\ catchAt'[j] \in 0 .. Len(portals'[j]) /\ catchAt'[j] # None
        /\ \A i \in Journeys \ {j} : catchAt'[i] = catchAt[i]
    BY <2>2, <2>3, RaiseFacts
  <2>5. terminated' \in BOOLEAN
    BY <2>2 DEF PlaceInv, Types
  <2> QED BY <1>1, <1>3, <2>3, <2>4, <2>5
<1> QED BY <1>2, <1>3

LEMMA HandleEventsKeeps ==
  ASSUME PlaceInv, NEW j \in Journeys, HandleEvents(j)
  PROVE  PlaceInv'
<1>1. /\ Executing(j) /\ calls' \in [Journeys -> Nat]
      /\ \A i \in Journeys : calls'[i] <= MaxCalls[i]
  BY CallFacts DEF HandleEvents
<1>2. UNCHANGED <<alive, sched, thread, doing>>
  BY DEF HandleEvents, waitVars
<1>3. /\ thread[j] \in Threads /\ thread[j] # None /\ j \in alive /\ doing[j] = "teleport"
      /\ \A i \in Journeys \ {j} : thread[i] # thread[j]
      /\ j \notin Interruptible => ~pending[j] /\ PoolOf[thread[j]] = sched[j]
  BY <1>1, ExecutingFacts
<1>4. RaiseEvent(j, thread[j], "teleport")
  BY DEF HandleEvents
<1>5. /\ pending' \in [Journeys -> BOOLEAN] /\ ~pending'[j]
      /\ portals' \in [Journeys -> Seq(Schedulers)]
      /\ catchAt' \in [Journeys -> Nat \cup {None}]
      /\ uncaught' \in [Threads -> 0 .. Counts - 1] /\ terminated' \in BOOLEAN
      /\ \A i \in Journeys \ {j} : /\ pending'[i] = pending[i] /\ portals'[i] = portals[i]
                                   /\ catchAt'[i] = catchAt[i]
      /\ catchAt'[j] \in 0 .. Len(portals'[j]) /\ catchAt'[j] # None
      /\ UNCHANGED portals
  BY <1>3, <1>4, RaiseEventFacts
<1>6. Types'
  BY <1>1, <1>2, <1>5 DEF PlaceInv, Types, Unwinding
<1> QED BY <1>2, <1>3, <1>5, <1>6, LocalStep

\* teleport: thrown out of at once, or on the way.
LEMMA DepartKeeps ==
  ASSUME PlaceInv, NEW j \in Journeys, NEW s \in Schedulers, NEW what \in Doings \ {"start"},
         Executing(j), Depart(j, s, what), UNCHANGED alive,
         calls' \in [Journeys -> Nat], \A i \in Journeys : calls'[i] <= MaxCalls[i],
         what # "~Portal" => catchAt[j] = None,
         what = "~Portal" => /\ portals[j] # <<>> /\ s = Innermost(j)
                             /\ catchAt[j] # None => catchAt[j] < Len(portals[j])
  PROVE  PlaceInv'
<1>1. /\ thread[j] \in Threads /\ thread[j] # None /\ j \in alive /\ doing[j] = "teleport"
      /\ \A i \in Journeys \ {j} : thread[i] # thread[j]
      /\ j \notin Interruptible => ~pending[j] /\ PoolOf[thread[j]] = sched[j]
  BY ExecutingFacts
<1>2. /\ sched' \in [Journeys -> Schedulers] /\ sched'[j] = s
      /\ \A i \in Journeys \ {j} : sched'[i] = sched[i]
  BY DEF Depart, PlaceInv, Types
<1>3. CASE EventThrown(j, thread[j])
  <2>1. RaiseEvent(j, thread[j], what) /\ UNCHANGED <<thread, doing>>
    BY <1>3 DEF Depart
  <2>2. /\ pending' \in [Journeys -> BOOLEAN] /\ ~pending'[j]
        /\ portals' \in [Journeys -> Seq(Schedulers)]
        /\ catchAt' \in [Journeys -> Nat \cup {None}]
        /\ uncaught' \in [Threads -> 0 .. Counts - 1] /\ terminated' \in BOOLEAN
        /\ \A i \in Journeys \ {j} : /\ pending'[i] = pending[i] /\ portals'[i] = portals[i]
                                     /\ catchAt'[i] = catchAt[i]
        /\ IF what = "~Portal" THEN UNCHANGED <<portals, catchAt>>
           ELSE catchAt'[j] \in 0 .. Len(portals'[j]) /\ catchAt'[j] # None
        /\ UNCHANGED portals
    BY <1>1, <2>1, RaiseEventFacts
  <2>3. catchAt'[j] # None => catchAt'[j] \in 0 .. Len(portals'[j])
    BY <2>2 DEF PlaceInv, Types, Unwinding
  <2>4. Types'
    BY <1>2, <2>1, <2>2, <2>3 DEF PlaceInv, Types, Unwinding
  <2>5. j \in Interruptible
    BY <1>1, <1>3 DEF EventThrown
  <2> QED BY <1>1, <1>2, <2>1, <2>2, <2>4, <2>5, LocalStep
<1>4. CASE ~EventThrown(j, thread[j])
  <2>1. /\ thread' = [thread EXCEPT ![j] = None] /\ doing' = [doing EXCEPT ![j] = what]
        /\ portals' = IF what = "Portal"
                      THEN [portals EXCEPT ![j] = Append(@, sched[j])] ELSE portals
        /\ UNCHANGED <<catchAt, uncaught, pending, terminated>>
    BY <1>4 DEF Depart, NoException
  <2>2. /\ thread' \in [Journeys -> Threads \cup {None}] /\ doing' \in [Journeys -> Doings]
        /\ thread'[j] = None /\ doing'[j] = what
        /\ \A i \in Journeys \ {j} : thread'[i] = thread[i] /\ doing'[i] = doing[i]
    BY <2>1 DEF PlaceInv, Types
  <2>3. /\ portals' \in [Journeys -> Seq(Schedulers)]
        /\ \A i \in Journeys \ {j} : portals'[i] = portals[i]
        /\ what = "Portal" => portals'[j] # <<>>
        /\ what # "Portal" => UNCHANGED portals
    <3>1. CASE what = "Portal"
      <4>1. portals[j] \in Seq(Schedulers) /\ sched[j] \in Schedulers
        BY DEF PlaceInv, Types
      <4>2. Append(portals[j], sched[j]) \in Seq(Schedulers) /\ Append(portals[j], sched[j]) # <<>>
        BY <4>1, PortalFacts
      <4> QED BY <2>1, <3>1, <4>2 DEF PlaceInv, Types
    <3>2. CASE what # "Portal"
      BY <2>1, <3>2 DEF PlaceInv, Types
    <3> QED BY <3>1, <3>2
  <2>4. \A i \in Journeys : catchAt'[i] # None => catchAt'[i] \in 0 .. Len(portals'[i])
    BY <2>1, <2>3 DEF PlaceInv, Types, Unwinding, Doings
  <2>5. Types'
    BY <1>2, <2>1, <2>2, <2>3, <2>4 DEF PlaceInv, Types, Unwinding
  <2>6. what = "~Portal" => s = Last(portals'[j]) /\ portals'[j] # <<>>
    BY <2>3 DEF Innermost
  <2>7. catchAt'[j] # None => what = "~Portal" /\ catchAt'[j] < Len(portals'[j])
    BY <2>1, <2>3
  <2>8. j \notin Interruptible => ~pending'[j]
    BY <1>1, <2>1
  <2> QED BY <1>2, <2>1, <2>2, <2>3, <2>5, <2>6, <2>7, <2>8, LocalStep
<1> QED BY <1>3, <1>4

LEMMA TeleportKeeps ==
  ASSUME PlaceInv, NEW j \in Journeys, NEW s \in Schedulers, Teleport(j, s)
  PROVE  PlaceInv'
<1>1. /\ Executing(j) /\ catchAt[j] = None /\ calls' \in [Journeys -> Nat]
      /\ \A i \in Journeys : calls'[i] <= MaxCalls[i]
  BY CallFacts DEF Teleport
<1>2. Depart(j, s, "teleport") /\ UNCHANGED alive
  BY DEF Teleport, waitVars
<1> QED BY <1>1, <1>2, DepartKeeps DEF Doings

LEMMA OpenPortalKeeps ==
  ASSUME PlaceInv, NEW j \in Journeys, NEW s \in Schedulers, OpenPortal(j, s)
  PROVE  PlaceInv'
<1>1. /\ Executing(j) /\ catchAt[j] = None /\ calls' \in [Journeys -> Nat]
      /\ \A i \in Journeys : calls'[i] <= MaxCalls[i]
  BY CallFacts DEF OpenPortal
<1>2. UNCHANGED alive
  BY DEF OpenPortal, waitVars
<1>3. CASE Depart(j, s, "Portal")
  BY <1>1, <1>2, <1>3, DepartKeeps DEF Doings
<1>4. CASE ~Depart(j, s, "Portal")
  <2>1. /\ portals' = [portals EXCEPT ![j] = Append(@, s)]
        /\ UNCHANGED <<sched, thread, doing, pending, terminated, catchAt, uncaught>>
    BY <1>4 DEF OpenPortal, NoException
  <2>2. Append(portals[j], s) \in Seq(Schedulers)
    BY PortalFacts DEF PlaceInv, Types
  <2>3. /\ portals' \in [Journeys -> Seq(Schedulers)]
        /\ \A i \in Journeys \ {j} : portals'[i] = portals[i]
    BY <2>1, <2>2 DEF PlaceInv, Types
  <2>4. Types'
    BY <1>1, <2>1, <2>3 DEF PlaceInv, Types, Unwinding
  <2>5. /\ thread[j] # None /\ j \in alive /\ doing[j] = "teleport"
        /\ \A i \in Journeys \ {j} : thread[i] # thread[j]
        /\ j \notin Interruptible => ~pending[j] /\ PoolOf[thread[j]] = sched[j]
    BY <1>1, ExecutingFacts
  <2> QED BY <1>2, <2>1, <2>3, <2>4, <2>5, LocalStep
<1> QED BY <1>3, <1>4

LEMMA ClosePortalKeeps ==
  ASSUME PlaceInv, NEW j \in Journeys, ClosePortal(j)
  PROVE  PlaceInv'
<1>1. /\ Executing(j) /\ portals[j] # <<>>
      /\ catchAt[j] # None => catchAt[j] < Len(portals[j])
  BY DEF ClosePortal, LeavesScope, Unwinding
<1>2. UNCHANGED <<alive, calls>>
  BY DEF ClosePortal, waitVars
<1>3. calls' \in [Journeys -> Nat] /\ \A i \in Journeys : calls'[i] <= MaxCalls[i]
  BY <1>2 DEF PlaceInv, Types
<1>4. /\ Innermost(j) \in Schedulers /\ Front(portals[j]) \in Seq(Schedulers)
      /\ Len(Front(portals[j])) = Len(portals[j]) - 1 /\ Len(portals[j]) \in Nat
  BY <1>1, PortalFacts DEF PlaceInv, Types, Innermost
<1>5. CASE Depart(j, Innermost(j), "~Portal")
  <2> DEFINE s == Innermost(j)
  <2>1. s \in Schedulers /\ s = Innermost(j) /\ Depart(j, s, "~Portal")
    BY <1>4, <1>5
  <2> HIDE DEF s
  <2> QED BY <1>1, <1>2, <1>3, <2>1, DepartKeeps DEF Doings
<1>6. CASE ~Depart(j, Innermost(j), "~Portal")
  <2>1. /\ portals' = [portals EXCEPT ![j] = Front(@)]
        /\ UNCHANGED <<sched, thread, doing, pending, terminated, catchAt, uncaught>>
    BY <1>6 DEF ClosePortal, NoException
  <2>2. /\ portals' \in [Journeys -> Seq(Schedulers)] /\ portals'[j] = Front(portals[j])
        /\ \A i \in Journeys \ {j} : portals'[i] = portals[i]
    BY <1>4, <2>1 DEF PlaceInv, Types
  <2>3. catchAt'[j] # None => catchAt'[j] \in 0 .. Len(portals'[j])
    BY <1>1, <1>4, <2>1, <2>2 DEF PlaceInv, Types
  <2>4. Types'
    BY <1>2, <2>1, <2>2, <2>3 DEF PlaceInv, Types, Unwinding
  <2>5. /\ thread[j] # None /\ j \in alive /\ doing[j] = "teleport"
        /\ \A i \in Journeys \ {j} : thread[i] # thread[j]
        /\ j \notin Interruptible => ~pending[j] /\ PoolOf[thread[j]] = sched[j]
    BY <1>1, ExecutingFacts
  <2> QED BY <1>2, <2>1, <2>2, <2>4, <2>5, LocalStep
<1> QED BY <1>5, <1>6

LEMMA ArriveKeeps ==
  ASSUME PlaceInv, NEW j \in Journeys, NEW t \in Threads, Arrive(j, t)
  PROVE  PlaceInv'
<1>1. /\ j \in alive /\ thread[j] = None /\ PoolOf[t] = sched[j]
      /\ \A i \in Journeys : thread[i] # t
      /\ thread' = [thread EXCEPT ![j] = t] /\ doing' = [doing EXCEPT ![j] = "teleport"]
      /\ UNCHANGED <<alive, sched, calls>>
  BY DEF Arrive, waitVars
<1>2. /\ thread' \in [Journeys -> Threads \cup {None}] /\ doing' \in [Journeys -> Doings]
      /\ thread'[j] = t /\ t # None /\ doing'[j] = "teleport"
      /\ \A i \in Journeys \ {j} : thread'[i] = thread[i] /\ doing'[i] = doing[i]
  BY <1>1, PortalAssumption DEF PlaceInv, Types, Doings
<1>3. /\ catchAt[j] # None => doing[j] = "~Portal" /\ catchAt[j] < Len(portals[j])
      /\ doing[j] = "Portal" => portals[j] # <<>>
      /\ doing[j] = "~Portal" => portals[j] # <<>>
  BY <1>1 DEF PlaceInv, Travelling, Unwinding
<1>4. CASE EventThrown(j, t) /\ doing[j] # "start" /\ RaiseEvent(j, t, doing[j])
  <2>1. /\ pending' \in [Journeys -> BOOLEAN] /\ ~pending'[j]
        /\ portals' \in [Journeys -> Seq(Schedulers)]
        /\ catchAt' \in [Journeys -> Nat \cup {None}]
        /\ uncaught' \in [Threads -> 0 .. Counts - 1] /\ terminated' \in BOOLEAN
        /\ \A i \in Journeys \ {j} : /\ pending'[i] = pending[i] /\ portals'[i] = portals[i]
                                     /\ catchAt'[i] = catchAt[i]
        /\ IF doing[j] = "~Portal" THEN UNCHANGED <<portals, catchAt>>
           ELSE catchAt'[j] \in 0 .. Len(portals'[j]) /\ catchAt'[j] # None
    BY <1>3, <1>4, RaiseEventFacts
  <2>2. catchAt'[j] # None => catchAt'[j] \in 0 .. Len(portals'[j])
    BY <2>1 DEF PlaceInv, Types, Unwinding
  <2>3. Types'
    BY <1>1, <1>2, <2>1, <2>2 DEF PlaceInv, Types, Unwinding
  <2>4. j \in Interruptible
    BY <1>4 DEF EventThrown, PlaceInv, Uninterrupted
  <2> QED BY <1>1, <1>2, <2>1, <2>3, <2>4, LocalStep
<1>5. CASE /\ portals' = IF doing[j] = "~Portal"
                         THEN [portals EXCEPT ![j] = Front(@)] ELSE portals
           /\ NoException /\ UNCHANGED <<pending, terminated>>
  <2>1. UNCHANGED <<catchAt, uncaught, pending, terminated>>
    BY <1>5 DEF NoException
  <2>2. /\ portals' \in [Journeys -> Seq(Schedulers)]
        /\ \A i \in Journeys \ {j} : portals'[i] = portals[i]
        /\ catchAt[j] # None => catchAt[j] \in 0 .. Len(portals'[j])
    <3>1. CASE doing[j] = "~Portal"
      <4>1. /\ Front(portals[j]) \in Seq(Schedulers) /\ Len(portals[j]) \in Nat
            /\ Len(Front(portals[j])) = Len(portals[j]) - 1
        BY <1>3, <3>1, PortalFacts DEF PlaceInv, Types
      <4>2. portals' \in [Journeys -> Seq(Schedulers)] /\ portals'[j] = Front(portals[j])
        BY <1>5, <3>1, <4>1 DEF PlaceInv, Types
      <4>3. catchAt[j] # None => catchAt[j] \in 0 .. Len(portals[j]) - 1
        BY <1>3, <4>1 DEF PlaceInv, Types, Unwinding
      <4> QED BY <1>5, <3>1, <4>1, <4>2, <4>3 DEF PlaceInv, Types
    <3>2. CASE doing[j] # "~Portal"
      BY <1>3, <1>5, <3>2 DEF PlaceInv, Types
    <3> QED BY <3>1, <3>2
  <2>3. Types'
    BY <1>1, <1>2, <2>1, <2>2 DEF PlaceInv, Types, Unwinding
  <2>4. j \notin Interruptible => ~pending[j]
    BY DEF PlaceInv, Uninterrupted
  <2> QED BY <1>1, <1>2, <2>1, <2>2, <2>3, <2>4, LocalStep
<1> QED BY <1>4, <1>5 DEF Arrive

LEMMA EndKeeps ==
  ASSUME PlaceInv, NEW j \in Journeys, End(j)
  PROVE  PlaceInv'
<1>1. /\ Executing(j) /\ catchAt[j] = None
      /\ thread' = [thread EXCEPT ![j] = None] /\ alive' = alive \ {j}
      /\ UNCHANGED <<sched, doing, portals, catchAt, pending, uncaught, terminated, calls>>
  BY DEF End, InUserCode, Unwinding, Destroy
<1>2. /\ thread' \in [Journeys -> Threads \cup {None}] /\ thread'[j] = None
      /\ \A i \in Journeys \ {j} : thread'[i] = thread[i]
  BY <1>1 DEF PlaceInv, Types
<1>3. Types'
  BY <1>1, <1>2 DEF PlaceInv, Types, Unwinding
<1>4. doing[j] = "teleport" /\ (j \notin Interruptible => ~pending[j])
  BY <1>1, ExecutingFacts
<1> QED BY <1>1, <1>2, <1>3, <1>4, LocalStep

\* Steps of others: a journey is created, or the main thread waits.
LEMMA OthersKeep ==
  ASSUME PlaceInv, UNCHANGED <<sched, thread, doing, portals, catchAt, pending, uncaught, terminated>>,
         alive \subseteq alive', calls' \in [Journeys -> Nat],
         \A i \in Journeys : calls'[i] <= MaxCalls[i]
  PROVE  PlaceInv'
<1>1. Types'
  BY DEF PlaceInv, Types, Unwinding
<1>2. Exclusive' /\ Travelling' /\ Uninterrupted'
  BY DEF PlaceInv, Exclusive, Travelling, Uninterrupted, Unwinding, Innermost
<1> QED BY <1>1, <1>2 DEF PlaceInv

LEMMA GoKeeps ==
  ASSUME PlaceInv, NEW j \in Journeys, WaitTypeOK, Go(j)
  PROVE  PlaceInv'
<1>1. /\ UNCHANGED <<sched, thread, doing, portals, catchAt, pending, uncaught, terminated>>
      /\ alive \subseteq alive'
  BY DEF Go, Create
<1>2. calls' \in [Journeys -> Nat] /\ \A i \in Journeys : calls'[i] <= MaxCalls[i]
  <2>1. CASE UNCHANGED calls
    BY <2>1 DEF PlaceInv, Types
  <2>2. CASE \E i \in alive : Call(i)
    BY <2>2, CallFacts DEF WaitTypeOK
  <2> QED BY <2>1, <2>2 DEF Go
<1> QED BY <1>1, <1>2, OthersKeep

LEMMA PlaceInvNext == WaitTypeOK /\ PlaceInv /\ [Next]_vars => PlaceInv'
<1> SUFFICES ASSUME WaitTypeOK, PlaceInv, [Next]_vars PROVE PlaceInv'
  OBVIOUS
<1>1. ASSUME NEW j \in Journeys, Go(j) PROVE PlaceInv'
  BY <1>1, GoKeeps
<1>2. ASSUME NEW j \in Journeys, Step(j) PROVE PlaceInv'
  BY <1>2, ClosePortalKeeps, CatchKeeps, EndKeeps DEF Step
<1>3. ASSUME NEW j \in Journeys, Throw(j) \/ Cancel(j) \/ HandleEvents(j) PROVE PlaceInv'
  BY <1>3, ThrowKeeps, CancelKeeps, HandleEventsKeeps
<1>4. ASSUME NEW j \in Journeys, NEW s \in Schedulers, Teleport(j, s) \/ OpenPortal(j, s)
      PROVE  PlaceInv'
  BY <1>4, TeleportKeeps, OpenPortalKeeps
<1>5. ASSUME NEW j \in Journeys, NEW t \in Threads, Arrive(j, t) PROVE PlaceInv'
  BY <1>5, ArriveKeeps
<1>6. CASE WaitStep \/ UNCHANGED vars
  <2>1. UNCHANGED portalVars /\ UNCHANGED alive
    BY <1>6 DEF WaitStep, CallWait, ReadFirst, Compare, vars, waitVars
  <2>2. /\ UNCHANGED <<sched, thread, doing, portals, catchAt, pending, uncaught, terminated, calls>>
    BY <2>1 DEF portalVars
  <2>3. calls' \in [Journeys -> Nat] /\ \A i \in Journeys : calls'[i] <= MaxCalls[i]
    BY <2>2 DEF PlaceInv, Types
  <2> QED BY <2>1, <2>2, <2>3, OthersKeep
<1> QED BY <1>1, <1>2, <1>3, <1>4, <1>5, <1>6 DEF Next

-----------------------------------------------------------------------------
(* Exceptions and their counts *)

LEMMA BalanceInit == Init => Balance
<1> SUFFICES ASSUME Init PROVE Balance
  OBVIOUS
<1>1. SumFunction(uncaught) = 0
  BY SumOfZeros, PortalAssumption DEF Init
<1>2. UnwindingOnes = {}
  BY DEF Init, UnwindingOnes, Unwinding
<1>3. Cardinality(UnwindingOnes) = 0
  BY <1>2, FS_EmptySet
<1>4. 0 = 0 + 0 * Counts
  BY PortalAssumption
<1> QED BY <1>1, <1>3, <1>4 DEF Balance

LEMMA UnwindingIsFinite == IsFiniteSet(UnwindingOnes) /\ Cardinality(UnwindingOnes) \in Nat
<1>1. IsFiniteSet(UnwindingOnes)
  BY WaitForAllAssumption, FS_Subset DEF UnwindingOnes
<1> QED BY <1>1, FS_CardinalityType

\* The count of one thread changes.
LEMMA SumOfStep ==
  ASSUME uncaught \in [Threads -> Int], NEW t \in Threads, NEW v \in Int,
         uncaught' = [uncaught EXCEPT ![t] = v]
  PROVE  /\ SumFunction(uncaught) \in Int
         /\ SumFunction(uncaught') = SumFunction(uncaught) - uncaught[t] + v
<1>1. IsFiniteSet(Threads)
  BY PortalAssumption
<1> QED BY <1>1, SumExcept, Zenon

\* One exception more is on its way, and counted.
LEMMA BalanceOfRaise ==
  ASSUME PlaceInv, Balance, NEW j \in Journeys, NEW t \in Threads, Raise(j, t),
         catchAt[j] = None, portals' \in [Journeys -> Seq(Schedulers)]
  PROVE  Balance'
<1> DEFINE N == Counts  u == uncaught[t]
<1>1. u \in 0 .. N - 1 /\ N \in Nat \ {0, 1}
  BY PortalAssumption DEF PlaceInv, Types
<1>2. (u + 1) % N = IF u = N - 1 THEN 0 ELSE u + 1
  BY <1>1, CountFacts
<1>3. /\ SumFunction(uncaught) \in Int
      /\ SumFunction(uncaught') = SumFunction(uncaught) - u + ((u + 1) % N)
  <2>1. uncaught \in [Threads -> Int] /\ (u + 1) % N \in Int
    BY <1>1, <1>2 DEF PlaceInv, Types
  <2> DEFINE v == (u + 1) % N
  <2>2. uncaught' = [uncaught EXCEPT ![t] = v]
    BY DEF Raise
  <2>3. v \in Int /\ t \in Threads /\ u = uncaught[t]
    BY <2>1
  <2> HIDE DEF v, u
  <2>4. /\ SumFunction(uncaught) \in Int
        /\ SumFunction(uncaught') = SumFunction(uncaught) - uncaught[t] + v
    BY <2>1, <2>2, <2>3, SumOfStep
  <2>5. /\ SumFunction(uncaught) \in Int
        /\ SumFunction(uncaught') = SumFunction(uncaught) - u + v
    BY <2>3, <2>4
  <2> QED BY <2>5 DEF v
<1>4. Cardinality(UnwindingOnes') = Cardinality(UnwindingOnes) + 1
  <2>1. UnwindingOnes' = UnwindingOnes \cup {j} /\ j \notin UnwindingOnes
    BY RaiseFacts DEF UnwindingOnes, Unwinding
  <2> QED BY <2>1, UnwindingIsFinite, FS_AddElement
<1>5. PICK k \in Int : SumFunction(uncaught) = Cardinality(UnwindingOnes) + k * N
  BY DEF Balance
<1>6. CASE u = N - 1
  <2>1. SumFunction(uncaught') = SumFunction(uncaught) - N + 1
    BY <1>1, <1>2, <1>3, <1>6
  <2>2. SumFunction(uncaught') = Cardinality(UnwindingOnes') + (k - 1) * N
    BY <1>1, <1>3, <1>4, <1>5, <2>1, UnwindingIsFinite
  <2>3. k - 1 \in Int
    OBVIOUS
  <2> QED BY <2>2, <2>3 DEF Balance
<1>7. CASE u # N - 1
  <2>1. SumFunction(uncaught') = SumFunction(uncaught) + 1
    BY <1>1, <1>2, <1>3, <1>7
  <2>2. SumFunction(uncaught') = Cardinality(UnwindingOnes') + k * N
    BY <1>1, <1>3, <1>4, <1>5, <2>1, UnwindingIsFinite
  <2> QED BY <2>2 DEF Balance
<1> QED BY <1>6, <1>7

\* One exception less.
LEMMA BalanceOfCatch ==
  ASSUME PlaceInv, Balance, NEW j \in Journeys, Catch(j)
  PROVE  Balance'
<1> DEFINE N == Counts  t == thread[j]  u == uncaught[t]
<1>1. t \in Threads
  BY ExecutingFacts DEF Catch
<1>2. u \in 0 .. N - 1 /\ N \in Nat \ {0, 1}
  BY <1>1, PortalAssumption DEF PlaceInv, Types
<1>3. (u - 1) % N = IF u = 0 THEN N - 1 ELSE u - 1
  BY <1>2, CountFacts
<1>4. /\ SumFunction(uncaught) \in Int
      /\ SumFunction(uncaught') = SumFunction(uncaught) - u + ((u - 1) % N)
  <2>1. uncaught \in [Threads -> Int] /\ (u - 1) % N \in Int
    BY <1>2, <1>3 DEF PlaceInv, Types
  <2> DEFINE v == (u - 1) % N
  <2>2. uncaught' = [uncaught EXCEPT ![t] = v]
    BY DEF Catch
  <2>3. v \in Int /\ t \in Threads /\ u = uncaught[t]
    BY <1>1, <2>1
  <2> HIDE DEF v, u, t
  <2>4. /\ SumFunction(uncaught) \in Int
        /\ SumFunction(uncaught') = SumFunction(uncaught) - uncaught[t] + v
    BY <2>1, <2>2, <2>3, SumOfStep
  <2>5. /\ SumFunction(uncaught) \in Int
        /\ SumFunction(uncaught') = SumFunction(uncaught) - u + v
    BY <2>3, <2>4
  <2> QED BY <2>5 DEF v
<1>5. Cardinality(UnwindingOnes') = Cardinality(UnwindingOnes) - 1
  <2>1. catchAt[j] # None
    <3>1. Len(portals[j]) \in Nat
      BY PortalFacts DEF PlaceInv, Types
    <3> QED BY <3>1, PortalAssumption DEF Catch
  <2>2. UnwindingOnes' = UnwindingOnes \ {j} /\ j \in UnwindingOnes
    BY <2>1 DEF UnwindingOnes, Unwinding, Catch, PlaceInv, Types
  <2> QED BY <2>2, UnwindingIsFinite, FS_RemoveElement
<1>6. PICK k \in Int : SumFunction(uncaught) = Cardinality(UnwindingOnes) + k * N
  BY DEF Balance
<1>7. CASE u = 0
  <2>1. SumFunction(uncaught') = SumFunction(uncaught) + N - 1
    BY <1>2, <1>3, <1>4, <1>7
  <2>2. SumFunction(uncaught') = Cardinality(UnwindingOnes') + (k + 1) * N
    BY <1>2, <1>4, <1>5, <1>6, <2>1, UnwindingIsFinite
  <2>3. k + 1 \in Int
    OBVIOUS
  <2> QED BY <2>2, <2>3 DEF Balance
<1>8. CASE u # 0
  <2>1. SumFunction(uncaught') = SumFunction(uncaught) - 1
    BY <1>2, <1>3, <1>4, <1>8
  <2>2. SumFunction(uncaught') = Cardinality(UnwindingOnes') + k * N
    BY <1>2, <1>4, <1>5, <1>6, <2>1, UnwindingIsFinite
  <2> QED BY <2>2 DEF Balance
<1> QED BY <1>7, <1>8

LEMMA BalanceOfEvent ==
  ASSUME PlaceInv, Balance, NEW j \in Journeys, NEW t \in Threads, NEW what,
         RaiseEvent(j, t, what),
         what = "Portal" /\ doing[j] = "Portal" => portals[j] # <<>>,
         what # "~Portal" => catchAt[j] = None
  PROVE  Balance'
<1>1. CASE what = "~Portal"
  BY <1>1 DEF RaiseEvent, NoException, Balance, UnwindingOnes, Unwinding
<1>2. CASE what # "~Portal"
  <2>1. portals' \in [Journeys -> Seq(Schedulers)]
    BY RaiseEventFacts
  <2>2. Raise(j, t)
    BY <1>2 DEF RaiseEvent
  <2> QED BY <1>2, <2>1, <2>2, BalanceOfRaise
<1> QED BY <1>1, <1>2

LEMMA BalanceOfOthers ==
  ASSUME Balance, UNCHANGED <<catchAt, uncaught>>
  PROVE  Balance'
BY DEF Balance, UnwindingOnes, Unwinding

LEMMA BalanceOfDepart ==
  ASSUME PlaceInv, Balance, NEW j \in Journeys, NEW s, NEW what, Depart(j, s, what),
         Executing(j), what # "~Portal" => catchAt[j] = None
  PROVE  Balance'
<1>1. thread[j] \in Threads /\ doing[j] = "teleport"
  BY ExecutingFacts
<1>2. CASE RaiseEvent(j, thread[j], what)
  BY <1>1, <1>2, BalanceOfEvent
<1>3. CASE NoException
  BY <1>3, BalanceOfOthers DEF NoException
<1> QED BY <1>2, <1>3 DEF Depart

LEMMA BalanceNext == PlaceInv /\ Balance /\ [Next]_vars => Balance'
<1> SUFFICES ASSUME PlaceInv, Balance, [Next]_vars PROVE Balance'
  OBVIOUS
<1>1. ASSUME NEW j \in Journeys, Go(j) \/ Cancel(j) \/ End(j) PROVE Balance'
  BY <1>1, BalanceOfOthers DEF Go, Cancel, End
<1>2. ASSUME NEW j \in Journeys, ClosePortal(j) PROVE Balance'
  <2>1. CASE Depart(j, Innermost(j), "~Portal")
    BY <1>2, <2>1, BalanceOfDepart DEF ClosePortal, LeavesScope
  <2>2. CASE NoException
    BY <2>2, BalanceOfOthers DEF NoException
  <2> QED BY <1>2, <2>1, <2>2 DEF ClosePortal
<1>3. ASSUME NEW j \in Journeys, Catch(j) PROVE Balance'
  BY <1>3, BalanceOfCatch
<1>4. ASSUME NEW j \in Journeys, Throw(j) PROVE Balance'
  <2>1. Executing(j) /\ catchAt[j] = None /\ Raise(j, thread[j]) /\ UNCHANGED portals
    BY <1>4, CallFacts DEF Throw
  <2>2. portals' \in [Journeys -> Seq(Schedulers)]
    BY <2>1 DEF PlaceInv, Types
  <2> QED BY <2>1, <2>2, ExecutingFacts, BalanceOfRaise
<1>5. ASSUME NEW j \in Journeys, HandleEvents(j) PROVE Balance'
  <2>1. Executing(j) /\ catchAt[j] = None /\ RaiseEvent(j, thread[j], "teleport")
    BY <1>5, CallFacts DEF HandleEvents
  <2> QED BY <2>1, ExecutingFacts, BalanceOfEvent
<1>6. ASSUME NEW j \in Journeys, NEW s \in Schedulers, Teleport(j, s) PROVE Balance'
  BY <1>6, CallFacts, BalanceOfDepart DEF Teleport
<1>7. ASSUME NEW j \in Journeys, NEW s \in Schedulers, OpenPortal(j, s) PROVE Balance'
  <2>1. CASE Depart(j, s, "Portal")
    BY <1>7, <2>1, CallFacts, BalanceOfDepart DEF OpenPortal
  <2>2. CASE NoException
    BY <2>2, BalanceOfOthers DEF NoException
  <2> QED BY <1>7, <2>1, <2>2 DEF OpenPortal
<1>8. ASSUME NEW j \in Journeys, NEW t \in Threads, Arrive(j, t) PROVE Balance'
  <2>1. CASE RaiseEvent(j, t, doing[j])
    <3>1. /\ doing[j] # "~Portal" => catchAt[j] = None
          /\ doing[j] = "Portal" => portals[j] # <<>>
      BY <1>8 DEF Arrive, PlaceInv, Travelling, Unwinding
    <3> QED BY <2>1, <3>1, BalanceOfEvent
  <2>2. CASE NoException
    BY <2>2, BalanceOfOthers DEF NoException
  <2> QED BY <1>8, <2>1, <2>2 DEF Arrive
<1>9. CASE WaitStep \/ UNCHANGED vars
  BY <1>9, BalanceOfOthers DEF WaitStep, vars, portalVars
<1> QED BY <1>1, <1>2, <1>3, <1>4, <1>5, <1>6, <1>7, <1>8, <1>9 DEF Next, Step

-----------------------------------------------------------------------------
(* Portals return *)

\* A step that takes a Portal of an uninterrupted journey from the stack ends
\* where the Portal was opened.
LEMMA ReturnStep ==
  ASSUME PlaceInv, Next, NEW j \in Journeys \ Interruptible,
         Len(portals'[j]) < Len(portals[j])
  PROVE  PoolOf[thread'[j]] = Innermost(j) /\ sched'[j] = Innermost(j)
<1>1. /\ \A i \in Journeys : portals[i] \in Seq(Schedulers)
      /\ Len(portals[j]) \in Nat
      /\ portals[j] # portals'[j]
  BY PortalFacts DEF PlaceInv, Types
<1>2. /\ DOMAIN portals = Journeys /\ DOMAIN thread = Journeys /\ DOMAIN sched = Journeys
      /\ ~pending[j]
  BY DEF PlaceInv, Types, Uninterrupted
<1>3. ASSUME NEW i \in Journeys, NEW t, NEW what, RaiseEvent(i, t, what), pending[i]
      PROVE  portals'[j] = portals[j]
  BY <1>2, <1>3 DEF RaiseEvent
<1>4. ASSUME NEW i \in Journeys, NEW s \in Schedulers, NEW what, Depart(i, s, what)
      PROVE  FALSE
  <2>1. CASE EventThrown(i, thread[i])
    BY <1>1, <1>3, <1>4, <2>1 DEF Depart, EventThrown
  <2>2. CASE ~EventThrown(i, thread[i])
    <3>1. portals' = IF what = "Portal"
                     THEN [portals EXCEPT ![i] = Append(@, sched[i])] ELSE portals
      BY <1>4, <2>2 DEF Depart
    <3>2. i = j /\ portals'[j] = Append(portals[j], sched[j])
      BY <1>1, <1>2, <3>1
    <3>3. Len(Append(portals[j], sched[j])) = Len(portals[j]) + 1
      <4>1. portals[j] \in Seq(Schedulers) /\ sched[j] \in Schedulers
        BY DEF PlaceInv, Types
      <4> QED BY <4>1, PortalFacts
    <3> QED BY <1>1, <3>2, <3>3
  <2> QED BY <2>1, <2>2
<1>5. ASSUME NEW i \in Journeys,
             Go(i) \/ Throw(i) \/ Cancel(i) \/ HandleEvents(i) \/ Catch(i) \/ End(i)
      PROVE  FALSE
  <2>1. CASE HandleEvents(i)
    BY <1>1, <1>3, <2>1 DEF HandleEvents, EventThrown
  <2>2. CASE Go(i) \/ Throw(i) \/ Cancel(i) \/ Catch(i) \/ End(i)
    BY <1>1, <2>2 DEF Go, Throw, Cancel, Catch, End
  <2> QED BY <1>5, <2>1, <2>2
<1>6. ASSUME NEW i \in Journeys, NEW s \in Schedulers, Teleport(i, s) \/ OpenPortal(i, s)
      PROVE  FALSE
  <2>1. CASE portals' = [portals EXCEPT ![i] = Append(@, s)]
    <3>1. i = j /\ portals'[j] = Append(portals[j], s)
      BY <1>1, <1>2, <2>1
    <3>2. Len(Append(portals[j], s)) = Len(portals[j]) + 1
      BY <1>1, PortalFacts
    <3> QED BY <1>1, <3>1, <3>2
  <2> QED BY <1>4, <1>6, <2>1 DEF Teleport, OpenPortal
<1>7. ASSUME NEW i \in Journeys, ClosePortal(i)
      PROVE  PoolOf[thread'[j]] = Innermost(j) /\ sched'[j] = Innermost(j)
  <2>1. Innermost(i) \in Schedulers
    BY <1>1, <1>7, PortalFacts DEF ClosePortal, LeavesScope, Innermost
  <2>2. /\ Innermost(i) = sched[i] /\ portals' = [portals EXCEPT ![i] = Front(@)]
        /\ UNCHANGED <<sched, thread>> /\ Executing(i)
    BY <1>4, <1>7, <2>1 DEF ClosePortal, LeavesScope
  <2>3. i = j
    BY <1>1, <1>2, <2>2
  <2> QED BY <2>2, <2>3 DEF PlaceInv, Uninterrupted, Executing
<1>8. ASSUME NEW i \in Journeys, NEW t \in Threads, Arrive(i, t)
      PROVE  PoolOf[thread'[j]] = Innermost(j) /\ sched'[j] = Innermost(j)
  <2>1. CASE EventThrown(i, t) /\ RaiseEvent(i, t, doing[i])
    BY <1>1, <1>3, <2>1 DEF EventThrown
  <2>2. CASE portals' = IF doing[i] = "~Portal"
                        THEN [portals EXCEPT ![i] = Front(@)] ELSE portals
    <3>1. i = j /\ doing[j] = "~Portal"
      BY <1>1, <1>2, <2>2
    <3>2. thread'[j] = t /\ PoolOf[t] = sched[j] /\ sched' = sched /\ thread[j] = None
      BY <1>2, <1>8, <3>1 DEF Arrive
    <3> QED BY <3>1, <3>2 DEF PlaceInv, Travelling
  <2> QED BY <1>8, <2>1, <2>2 DEF Arrive
<1>9. CASE WaitStep
  BY <1>1, <1>9 DEF WaitStep, portalVars
<1> QED BY <1>5, <1>6, <1>7, <1>8, <1>9 DEF Next, Step

-----------------------------------------------------------------------------
(* Which thread counts what *)

\* A journey that is unwound executes on the thread.
Unwinds(t) == \E j \in Journeys : thread[j] = t /\ Unwinding(j)

OnesAndZeros == \A t \in Threads : uncaught[t] = IF Unwinds(t) THEN 1 ELSE 0

\* A thread executes one journey, so that it counts at most one exception.
LEMMA OwnCountsAreBits == PlaceInv => (OwnCounts <=> OnesAndZeros)
<1> SUFFICES ASSUME PlaceInv, NEW t \in Threads
             PROVE  Cardinality({j \in Journeys : thread[j] = t /\ Unwinding(j)})
                      = IF Unwinds(t) THEN 1 ELSE 0
  BY DEF OwnCounts, OnesAndZeros
<1> DEFINE U == {j \in Journeys : thread[j] = t /\ Unwinding(j)}
<1>1. CASE Unwinds(t)
  <2>1. PICK j \in Journeys : thread[j] = t /\ Unwinding(j)
    BY <1>1 DEF Unwinds
  <2>2. U = {j}
    BY <2>1, PortalAssumption DEF PlaceInv, Exclusive
  <2> QED BY <1>1, <2>2, FS_Singleton
<1>2. CASE ~Unwinds(t)
  <2>1. U = {}
    BY <1>2 DEF Unwinds
  <2> QED BY <1>2, <2>1, FS_EmptySet
<1> QED BY <1>1, <1>2

\* While every thread counts its own, and there are not so many journeys that a
\* count wraps around, no exception is on its way between threads.
LEMMA NobodyTravels ==
  ASSUME PlaceInv, Balance, OwnCounts, Cardinality(Journeys) < Counts,
         NEW j \in Journeys, Unwinding(j)
  PROVE  thread[j] # None
<1> DEFINE U == UnwindingOnes  C == {i \in U : thread[i] \in Threads}
<1>1. \A t \in Threads : uncaught[t] = Cardinality({i \in U : thread[i] = t})
  <2>1. ASSUME NEW t \in Threads
        PROVE  {i \in U : thread[i] = t} = {i \in Journeys : thread[i] = t /\ Unwinding(i)}
    BY DEF UnwindingOnes
  <2> QED BY <2>1 DEF OwnCounts
<1>2. uncaught \in [Threads -> Int] /\ IsFiniteSet(Threads) /\ IsFiniteSet(U)
  BY PortalAssumption, UnwindingIsFinite DEF PlaceInv, Types
<1>3. SumFunction(uncaught) = Cardinality(C)
  <2> HIDE DEF U
  <2> QED BY <1>1, <1>2, SumOfCounts
<1>4. PICK k \in Int : SumFunction(uncaught) = Cardinality(U) + k * Counts
  BY DEF Balance
<1>5. /\ Cardinality(C) \in Nat /\ Cardinality(C) <= Cardinality(U)
      /\ Cardinality(C) = Cardinality(U) => U = C
  <2>1. C \in SUBSET U
    OBVIOUS
  <2> HIDE DEF C
  <2> QED BY <1>2, <2>1, FS_Subset, FS_CardinalityType
<1>6. Cardinality(U) \in Nat /\ Cardinality(U) < Counts
  <2>1. U \in SUBSET Journeys
    BY DEF UnwindingOnes
  <2>2. Cardinality(U) <= Cardinality(Journeys) /\ Cardinality(U) \in Nat
    BY <2>1, WaitForAllAssumption, FS_Subset, FS_CardinalityType, UnwindingIsFinite
  <2>3. Cardinality(Journeys) \in Nat
    BY WaitForAllAssumption, FS_CardinalityType
  <2> QED BY <2>2, <2>3, PortalAssumption
<1>7. k = 0
  <2>1. Counts \in Nat
    BY PortalAssumption
  <2>2. CASE k >= 1
    <3>1. k * Counts >= Counts
      BY <2>1, <2>2, MultipleIsLarge
    <3> QED BY <1>3, <1>4, <1>5, <1>6, <2>1, <3>1
  <2>3. CASE k <= -1
    <3>1. (-k) * Counts >= Counts
      BY <2>1, <2>3, MultipleIsLarge
    <3> QED BY <1>3, <1>4, <1>5, <1>6, <2>1, <3>1
  <2> QED BY <2>2, <2>3
<1>8. U = C
  BY <1>3, <1>4, <1>5, <1>6, <1>7, PortalAssumption
<1>9. j \in U
  BY DEF UnwindingOnes
<1> QED BY <1>8, <1>9, PortalAssumption

\* The thread that throws counted none, and counts one.
LEMMA BitsOfRaise ==
  ASSUME PlaceInv, OnesAndZeros, NEW j \in Journeys, NEW t \in Threads, Raise(j, t),
         portals' \in [Journeys -> Seq(Schedulers)], catchAt[j] = None, thread'[j] = t,
         \A i \in Journeys \ {j} : thread[i] # t /\ thread'[i] = thread[i]
  PROVE  OnesAndZeros'
<1>1. catchAt'[j] # None /\ \A i \in Journeys \ {j} : catchAt'[i] = catchAt[i]
  BY RaiseFacts
<1>2. uncaught[t] = 0
  BY DEF OnesAndZeros, Unwinds, Unwinding
<1>3. (uncaught[t] + 1) % Counts = 1
  <2>1. 0 \in 0 .. Counts - 1 /\ 0 # Counts - 1
    BY PortalAssumption
  <2>2. (0 + 1) % Counts = 0 + 1
    BY <2>1, CountFacts
  <2> QED BY <1>2, <2>2
<1>4. uncaught'[t] = 1 /\ \A u \in Threads \ {t} : uncaught'[u] = uncaught[u]
  BY <1>3 DEF Raise, PlaceInv, Types
<1>5. ASSUME NEW u \in Threads PROVE uncaught'[u] = IF Unwinds(u)' THEN 1 ELSE 0
  <2>1. CASE u = t
    <3>1. Unwinds(u)'
      BY <1>1, <2>1 DEF Unwinds, Unwinding
    <3> QED BY <1>4, <2>1, <3>1
  <2>2. CASE u # t
    <3>1. Unwinds(u)' <=> Unwinds(u)
      BY <1>1, <2>2 DEF Unwinds, Unwinding
    <3> QED BY <1>4, <2>2, <3>1 DEF OnesAndZeros
  <2> QED BY <2>1, <2>2
<1> QED BY <1>5 DEF OnesAndZeros

\* Journeys that no exception unwinds may go where they like.
LEMMA BitsOfOthers ==
  ASSUME OnesAndZeros, UNCHANGED <<catchAt, uncaught>>,
         \A i \in Journeys : Unwinding(i) => thread'[i] = thread[i]
  PROVE  OnesAndZeros'
<1>1. ASSUME NEW u \in Threads PROVE uncaught'[u] = IF Unwinds(u)' THEN 1 ELSE 0
  <2>1. Unwinds(u)' <=> Unwinds(u)
    BY DEF Unwinds, Unwinding
  <2> QED BY <2>1 DEF OnesAndZeros
<1> QED BY <1>1 DEF OnesAndZeros

LEMMA BitsOfEvent ==
  ASSUME PlaceInv, OnesAndZeros, NEW j \in Journeys, NEW t \in Threads, NEW what,
         RaiseEvent(j, t, what),
         what = "Portal" /\ doing[j] = "Portal" => portals[j] # <<>>,
         what # "~Portal" => catchAt[j] = None, thread'[j] = t,
         catchAt[j] # None => thread[j] = t,
         \A i \in Journeys \ {j} : thread[i] # t /\ thread'[i] = thread[i]
  PROVE  OnesAndZeros'
<1>1. CASE what = "~Portal"
  BY <1>1, BitsOfOthers DEF RaiseEvent, NoException, Unwinding
<1>2. CASE what # "~Portal"
  <2>1. portals' \in [Journeys -> Seq(Schedulers)]
    BY RaiseEventFacts
  <2>2. Raise(j, t)
    BY <1>2 DEF RaiseEvent
  <2> QED BY <1>2, <2>1, <2>2, BitsOfRaise
<1> QED BY <1>1, <1>2

\* A journey that is not unwound departs, or an event is thrown into it.
LEMMA BitsOfDepart ==
  ASSUME PlaceInv, OnesAndZeros, NEW j \in Journeys, NEW s, NEW what, Depart(j, s, what),
         Executing(j), what # "~Portal" => catchAt[j] = None,
         Unwinding(j) => thread'[j] # None
  PROVE  OnesAndZeros'
<1>1. /\ thread[j] \in Threads /\ thread[j] # None /\ doing[j] = "teleport"
      /\ \A i \in Journeys \ {j} : thread[i] # thread[j]
  BY ExecutingFacts
<1>2. CASE RaiseEvent(j, thread[j], what) /\ UNCHANGED thread
  BY <1>1, <1>2, BitsOfEvent
<1>3. CASE NoException /\ thread' = [thread EXCEPT ![j] = None]
  <2>1. thread'[j] = None /\ \A i \in Journeys \ {j} : thread'[i] = thread[i]
    BY <1>3 DEF PlaceInv, Types
  <2> QED BY <1>3, <2>1, BitsOfOthers DEF NoException
<1> QED BY <1>2, <1>3 DEF Depart

LEMMA BitsOfCatch ==
  ASSUME PlaceInv, OnesAndZeros, NEW j \in Journeys, Catch(j)
  PROVE  OnesAndZeros'
<1> DEFINE t == thread[j]
<1>1. /\ t \in Threads /\ \A i \in Journeys \ {j} : thread[i] # t
      /\ UNCHANGED thread
  BY ExecutingFacts DEF Catch
<1>2. /\ catchAt'[j] = None /\ \A i \in Journeys \ {j} : catchAt'[i] = catchAt[i]
      /\ catchAt[j] # None
  <2>1. Len(portals[j]) \in Nat
    BY PortalFacts DEF PlaceInv, Types
  <2> QED BY <2>1, PortalAssumption DEF Catch, PlaceInv, Types
<1>3. uncaught[t] = 1
  BY <1>1, <1>2 DEF OnesAndZeros, Unwinds, Unwinding
<1>4. (uncaught[t] - 1) % Counts = 0
  BY <1>3, PortalAssumption
<1>5. uncaught'[t] = 0 /\ \A u \in Threads \ {t} : uncaught'[u] = uncaught[u]
  BY <1>1, <1>4 DEF Catch, PlaceInv, Types
<1>6. ASSUME NEW u \in Threads PROVE uncaught'[u] = IF Unwinds(u)' THEN 1 ELSE 0
  <2>1. CASE u = t
    <3>1. ~Unwinds(u)'
      BY <1>1, <1>2, <2>1 DEF Unwinds, Unwinding
    <3> QED BY <1>5, <2>1, <3>1
  <2>2. CASE u # t
    <3>1. Unwinds(u)' <=> Unwinds(u)
      BY <1>1, <1>2, <2>2 DEF Unwinds, Unwinding
    <3> QED BY <1>5, <2>2, <3>1 DEF OnesAndZeros
  <2> QED BY <2>1, <2>2
<1> QED BY <1>6 DEF OnesAndZeros

LEMMA BitsNext ==
  ASSUME PlaceInv, Balance, OwnCounts, Cardinality(Journeys) < Counts, Next,
         \A j \in Journeys : Unwinding(j) /\ thread[j] # None => thread'[j] # None
  PROVE  OnesAndZeros'
<1>1. OnesAndZeros
  BY OwnCountsAreBits
<1>2. \A j \in Journeys : Unwinding(j) => thread[j] # None /\ thread'[j] # None
  BY NobodyTravels
<1>3. ASSUME NEW j \in Journeys, Go(j) \/ Cancel(j) \/ End(j) PROVE OnesAndZeros'
  <2>1. CASE Go(j) \/ Cancel(j)
    BY <1>1, <2>1, BitsOfOthers DEF Go, Cancel
  <2>2. CASE End(j)
    <3>1. \A i \in Journeys : Unwinding(i) => thread'[i] = thread[i]
      BY <2>2 DEF End, InUserCode, PlaceInv, Types
    <3> QED BY <1>1, <2>2, <3>1, BitsOfOthers DEF End
  <2> QED BY <1>3, <2>1, <2>2
<1>4. ASSUME NEW j \in Journeys, ClosePortal(j) PROVE OnesAndZeros'
  <2>1. CASE Depart(j, Innermost(j), "~Portal")
    BY <1>1, <1>2, <1>4, <2>1, BitsOfDepart DEF ClosePortal, LeavesScope
  <2>2. CASE NoException /\ UNCHANGED thread
    BY <1>1, <2>2, BitsOfOthers DEF NoException
  <2> QED BY <1>4, <2>1, <2>2 DEF ClosePortal
<1>5. ASSUME NEW j \in Journeys, Catch(j) PROVE OnesAndZeros'
  BY <1>1, <1>5, BitsOfCatch
<1>6. ASSUME NEW j \in Journeys, Throw(j) PROVE OnesAndZeros'
  <2>1. /\ Executing(j) /\ catchAt[j] = None /\ Raise(j, thread[j])
        /\ UNCHANGED <<portals, thread>>
    BY <1>6, CallFacts DEF Throw
  <2>2. portals' \in [Journeys -> Seq(Schedulers)]
    BY <2>1 DEF PlaceInv, Types
  <2> QED BY <1>1, <2>1, <2>2, ExecutingFacts, BitsOfRaise
<1>7. ASSUME NEW j \in Journeys, HandleEvents(j) PROVE OnesAndZeros'
  <2>1. /\ Executing(j) /\ catchAt[j] = None /\ RaiseEvent(j, thread[j], "teleport")
        /\ UNCHANGED thread
    BY <1>7, CallFacts DEF HandleEvents
  <2> QED BY <1>1, <2>1, ExecutingFacts, BitsOfEvent
<1>8. ASSUME NEW j \in Journeys, NEW s \in Schedulers, Teleport(j, s) PROVE OnesAndZeros'
  BY <1>1, <1>2, <1>8, CallFacts, BitsOfDepart DEF Teleport
<1>9. ASSUME NEW j \in Journeys, NEW s \in Schedulers, OpenPortal(j, s) PROVE OnesAndZeros'
  <2>1. CASE Depart(j, s, "Portal")
    BY <1>1, <1>2, <1>9, <2>1, CallFacts, BitsOfDepart DEF OpenPortal
  <2>2. CASE NoException /\ UNCHANGED thread
    BY <1>1, <2>2, BitsOfOthers DEF NoException
  <2> QED BY <1>9, <2>1, <2>2 DEF OpenPortal
<1>10. ASSUME NEW j \in Journeys, NEW t \in Threads, Arrive(j, t) PROVE OnesAndZeros'
  <2>1. /\ thread'[j] = t /\ thread[j] = None
        /\ \A i \in Journeys \ {j} : thread[i] # t /\ thread'[i] = thread[i]
    BY <1>10 DEF Arrive, PlaceInv, Types
  <2>2. ~Unwinding(j)
    BY <1>2, <2>1
  <2>3. CASE RaiseEvent(j, t, doing[j])
    <3>1. doing[j] = "Portal" => portals[j] # <<>>
      BY <2>1 DEF PlaceInv, Travelling
    <3> QED BY <1>1, <2>1, <2>2, <2>3, <3>1, BitsOfEvent DEF Unwinding
  <2>4. CASE NoException
    BY <1>1, <2>1, <2>2, <2>4, BitsOfOthers DEF NoException
  <2> QED BY <1>10, <2>3, <2>4 DEF Arrive
<1>11. CASE WaitStep
  BY <1>1, <1>11, BitsOfOthers DEF WaitStep, portalVars
<1> QED
  BY <1>3, <1>4, <1>5, <1>6, <1>7, <1>8, <1>9, <1>10, <1>11 DEF Next, Step

-----------------------------------------------------------------------------
(* The counters of journeys *)

\* A journey that calls go() is alive.
LEMMA StepOfCounters == Next => [WaitNext]_waitVars
<1> SUFFICES ASSUME Next PROVE [WaitNext]_waitVars
  OBVIOUS
<1>1. ASSUME NEW j \in Journeys, Go(j) PROVE [WaitNext]_waitVars
  BY <1>1 DEF Go, WaitNext
<1>2. ASSUME NEW j \in Journeys, Step(j) PROVE [WaitNext]_waitVars
  BY <1>2 DEF Step, ClosePortal, Catch, End, WaitNext
<1>3. ASSUME NEW j \in Journeys, Throw(j) \/ Cancel(j) \/ HandleEvents(j)
      PROVE  [WaitNext]_waitVars
  BY <1>3 DEF Throw, Cancel, HandleEvents
<1>4. ASSUME NEW j \in Journeys, NEW s \in Schedulers, Teleport(j, s) \/ OpenPortal(j, s)
      PROVE  [WaitNext]_waitVars
  BY <1>4 DEF Teleport, OpenPortal
<1>5. ASSUME NEW j \in Journeys, NEW t \in Threads, Arrive(j, t)
      PROVE  [WaitNext]_waitVars
  BY <1>5 DEF Arrive
<1>6. CASE WaitStep
  BY <1>6 DEF WaitStep, WaitNext
<1> QED BY <1>1, <1>2, <1>3, <1>4, <1>5, <1>6 DEF Next

\* The journeys of Portal create, destroy and wait by the actions of WaitForAll, so
\* that what is proved of the counters alone holds of them too.
LEMMA CountersImplemented == Spec => WaitSpec
<1>1. Init => WaitInit
  BY DEF Init
<1>2. [Next]_vars => [WaitNext]_waitVars
  BY StepOfCounters DEF vars
<1> QED BY <1>1, <1>2, PTL DEF Spec, WaitSpec

\* Whatever portals, exceptions and events do, waitForAll() returns when no
\* journey is left - in builds that read the counter of destroyed journeys first,
\* which the order in which journey.cpp:189 is written does not ask for.
THEOREM PortalsWaitForAll == Spec => []AllAreOver
<1> QED BY CountersImplemented, WaitsForAll, PTL

\* In every build, and whatever portals, exceptions and events do, waitForAll()
\* leaves as many journeys behind as were created between the two reads of its last
\* comparison, or none (journey.cpp:189).
THEOREM PortalsReturnByCount == Spec => ReturnsByCount
<1> QED BY CountersImplemented, CountsMeanReturn, PTL

-----------------------------------------------------------------------------
(* Theorems *)

\* The inductive invariant.
IInv == WaitTypeOK /\ PlaceInv /\ Balance

\* Where journeys are, what is on their stacks and what the threads count fits
\* together in every state, for all journeys, threads and schedulers.
THEOREM InductiveInvariant == Spec => []IInv
<1>1. Spec => []WaitTypeOK
  <2>1. WaitInv => WaitTypeOK
    BY DEF WaitInv
  <2> QED BY <2>1, CountersImplemented, WaitInvariant, PTL
<1>2. Init => PlaceInv /\ Balance
  BY PlaceInvInit, BalanceInit
<1>3. WaitTypeOK /\ (PlaceInv /\ Balance) /\ [Next]_vars => (PlaceInv /\ Balance)'
  BY PlaceInvNext, BalanceNext
<1> QED BY <1>1, <1>2, <1>3, PTL DEF Spec, IInv

\* The threads together count the exceptions that are on the way, up to the range
\* of their counts, wherever an exception is thrown, carried to and caught
\* (journey.cpp:83, portal.cpp:30-33).
THEOREM ExceptionsAreCounted == Spec => []PortalInv
<1>1. IInv => PortalInv
  <2> SUFFICES ASSUME IInv PROVE PortalInv
    OBVIOUS
  <2>1. TypeOK
    BY PortalAssumption DEF IInv, PlaceInv, Types, TypeOK
  <2>2. CountsBalance
    <3>1. PICK k \in Int : SumFunction(uncaught) = Cardinality(UnwindingOnes) + k * Counts
      BY DEF IInv, Balance
    <3> DEFINE c == Cardinality(UnwindingOnes)
    <3>2. c \in Nat /\ Counts \in Nat \ {0}
      BY UnwindingIsFinite, PortalAssumption
    <3> DEFINE a == SumFunction(uncaught)
    <3>3. a = c + k * Counts /\ a \in Int /\ c \in Int
      BY <3>1, <3>2
    <3> HIDE DEF a, c
    <3>4. a % Counts = c % Counts
      BY <3>2, <3>3, MultiplesVanish
    <3>5. SumFunction(uncaught) % Counts = Cardinality(UnwindingOnes) % Counts
      BY <3>4 DEF a, c
    <3> QED BY <3>5 DEF CountsBalance, UnwindingOnes
  <2> QED BY <2>1, <2>2 DEF PortalInv
<1> QED BY <1>1, InductiveInvariant, PTL

\* However the scope of a Portal is left, a journey no event interrupts is back on
\* a thread of the scheduler the Portal was opened in, and recorded there
\* (portal.cpp:23-33).
THEOREM PortalsReturn == Spec => PortalReturns
<1> DEFINE P == \A j \in Journeys \ Interruptible :
       Len(portals'[j]) < Len(portals[j])
         => PoolOf[thread'[j]] = Innermost(j) /\ sched'[j] = Innermost(j)
<1>1. IInv /\ [Next]_vars => [P]_vars
  BY ReturnStep DEF IInv
<1> QED BY <1>1, InductiveInvariant, PTL DEF Spec, PortalReturns

\* A thread comes to miscount only when a Portal takes an exception that is thrown
\* away from it - as long as there are fewer journeys than a count has values
\* (journey.cpp:83).
THEOREM OnlyPortalsMiscount ==
  ASSUME Cardinality(Journeys) < Counts
  PROVE  Spec => MiscountsOnlyInUnwinding
<1> DEFINE P == OwnCounts /\ ~OwnCounts'
       => \E j \in Journeys : Unwinding(j) /\ thread[j] # None /\ thread'[j] = None
<1>1. (PlaceInv => (OwnCounts <=> OnesAndZeros))'
  BY OwnCountsAreBits, PTL
<1>2. IInv /\ IInv' /\ [Next]_vars => [P]_vars
  BY <1>1, BitsNext DEF IInv
<1> QED BY <1>2, InductiveInvariant, PTL DEF Spec, MiscountsOnlyInUnwinding

=============================================================================
