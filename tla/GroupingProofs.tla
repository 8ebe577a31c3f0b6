---------------------------- MODULE GroupingProofs ----------------------------
(***************************************************************************)
(* What the groupings of a trip promise: the similarity groups and clock   *)
(* corrections of Collaboration, for any number of photos and devices, and *)
(* the areas of AreaGrouping, for stops of any number and in any place.    *)
(***************************************************************************)
EXTENDS Collaboration, FiniteSetsExt, FiniteSetTheorems, WellFoundedInduction, TLAPS

CONSTANTS Inputs, MinStops, MaxPrevious, MaxCenter, MaxDiameter, MaxGap
VARIABLES stops, index, area, areas, standalone

Areas == INSTANCE AreaGrouping

-----------------------------------------------------------------------------
(* Numbers.                                                                *)

Less == {e \in Nat \X Nat : e[1] < e[2]}

\* A set of natural numbers has a least one.
LEMMA LeastNumber ==
  ASSUME NEW T \in SUBSET Nat, T # {}
  PROVE  \E x \in T : \A y \in T : x <= y
<1>1. IsWellFoundedOn(Less, Nat)
  BY NatLessThanWellFounded DEF OpToRel, Less
<1>2. PICK x \in T : \A y \in T : <<y, x>> \notin Less
  BY <1>1, WFMin
<1>3. \A y \in T : ~(y < x)
  BY <1>2 DEF Less
<1> QED BY <1>3

\* The values of a sequence of integers have a greatest one.
LEMMA GreatestValue ==
  ASSUME NEW n \in Nat, n >= 1, NEW f, \A i \in 1 .. n : f[i] \in Int
  PROVE  \E i \in 1 .. n : \A j \in 1 .. n : f[j] <= f[i]
<1> DEFINE Has(k) == \E i \in 1 .. k : \A j \in 1 .. k : f[j] <= f[i]
           Without == {k \in 1 .. n : ~Has(k)}
<1>1. CASE Without = {}
  BY <1>1
<1>2. CASE Without # {}
  <2>1. PICK k \in Without : \A m \in Without : k <= m
    <3>1. Without \in SUBSET Nat
      OBVIOUS
    <3> HIDE DEF Without
    <3> QED BY <1>2, <3>1, LeastNumber
  <2>k. k \in 1 .. n /\ ~Has(k)
    BY <2>1
  <2>2. k # 1
    <3>1. Has(1)
      OBVIOUS
    <3> HIDE DEF Has
    <3> QED BY <3>1, <2>k
  <2>3. k - 1 \in 1 .. n /\ k - 1 \notin Without
    <3>1. k - 1 \in 1 .. n /\ ~(k <= k - 1)
      BY <2>k, <2>2
    <3> HIDE DEF Has
    <3> QED BY <3>1, <2>1
  <2>4. PICK i \in 1 .. k - 1 : \A j \in 1 .. k - 1 : f[j] <= f[i]
    BY <2>3
  <2>5. k \in 1 .. n /\ i \in 1 .. n /\ f[k] \in Int /\ f[i] \in Int
    BY <2>1, <2>4
  <2>6. ASSUME f[k] <= f[i] PROVE Has(k)
    BY <2>4, <2>5, <2>6
  <2>7. ASSUME ~(f[k] <= f[i]) PROVE Has(k)
    <3>1. \A j \in 1 .. k : f[j] <= f[k]
      BY <2>4, <2>5, <2>7
    <3> QED BY <2>5, <3>1
  <2> QED BY <2>1, <2>6, <2>7
<1> QED BY <1>1, <1>2

\* So has a finite set of them, which Max chooses.
LEMMA MaxOfFinite ==
  ASSUME NEW S \in SUBSET Int, IsFiniteSet(S), S # {}
  PROVE  Max(S) \in S /\ \A x \in S : x <= Max(S)
<1>1. PICK n \in Nat : ExistsSurjection(1 .. n, S)
  BY FS_NatSurjection
<1>2. PICK f \in [1 .. n -> S] : \A x \in S : \E i \in 1 .. n : f[i] = x
  BY <1>1 DEF ExistsSurjection, Surjection
<1>3. n >= 1
  <2>1. PICK x : x \in S
    OBVIOUS
  <2> QED BY <1>2, <2>1
<1>4. PICK i \in 1 .. n : \A j \in 1 .. n : f[j] <= f[i]
  BY <1>2, <1>3, GreatestValue
<1>5. \E x \in S : \A y \in S : x >= y
  BY <1>2, <1>4
<1>6. Max(S) \in S /\ \A y \in S : Max(S) >= y
  BY <1>5 DEF Max
<1> HIDE DEF Max
<1> QED BY <1>6

\* A function to the integers has a greatest and a least value on a finite set.
LEMMA GreatestIn ==
  ASSUME NEW E, IsFiniteSet(E), E # {}, NEW f, \A e \in E : f[e] \in Int
  PROVE  \E e \in E : \A d \in E : f[d] <= f[e]
<1>1. PICK n \in Nat : ExistsSurjection(1 .. n, E)
  BY FS_NatSurjection
<1>2. PICK s \in [1 .. n -> E] : \A x \in E : \E i \in 1 .. n : s[i] = x
  BY <1>1 DEF ExistsSurjection, Surjection
<1>3. n >= 1
  <2>1. PICK x : x \in E
    OBVIOUS
  <2> QED BY <1>2, <2>1
<1> DEFINE g == [i \in 1 .. n |-> f[s[i]]]
<1>4. \A i \in 1 .. n : g[i] \in Int /\ g[i] = f[s[i]] /\ s[i] \in E
  BY <1>2
<1> HIDE DEF g
<1>5. PICK i \in 1 .. n : \A j \in 1 .. n : g[j] <= g[i]
  BY <1>3, <1>4, GreatestValue
<1>6. ASSUME NEW d \in E PROVE f[d] <= f[s[i]]
  <2>1. PICK j \in 1 .. n : s[j] = d
    BY <1>2
  <2> QED BY <1>4, <1>5, <2>1
<1> QED BY <1>4, <1>6

\* ... and a least one.
LEMMA LeastIn ==
  ASSUME NEW E, IsFiniteSet(E), E # {}, NEW f, \A e \in E : f[e] \in Int
  PROVE  \E e \in E : \A d \in E : f[e] <= f[d]
<1> DEFINE g == [e \in E |-> -f[e]]
<1>1. \A e \in E : g[e] \in Int /\ f[e] \in Int /\ g[e] = -f[e]
  OBVIOUS
<1> HIDE DEF g
<1>2. PICK e \in E : \A d \in E : g[d] <= g[e]
  BY <1>1, GreatestIn
<1>3. \A d \in E : f[e] <= f[d]
  BY <1>1, <1>2
<1> QED BY <1>3

\* What holds of lo, and of each number up to hi if of the one before, holds of all.
LEMMA Upwards ==
  ASSUME NEW lo \in Int, NEW hi \in Int, NEW good, lo \in good,
         \A k \in lo + 1 .. hi : k - 1 \in good => k \in good
  PROVE  \A k \in lo .. hi : k \in good
<1> DEFINE T == {m \in Nat : lo + m <= hi /\ lo + m \notin good}
<1>1. CASE T = {}
  <2> SUFFICES ASSUME NEW k \in lo .. hi PROVE k \in good
    OBVIOUS
  <2> DEFINE m == k - lo
  <2>1. m \in Nat /\ lo + m = k /\ lo + m <= hi
    OBVIOUS
  <2>2. m \notin T
    BY <1>1
  <2> HIDE DEF m
  <2> QED BY <2>1, <2>2
<1>2. CASE T # {}
  <2>1. T \in SUBSET Nat
    OBVIOUS
  <2>2. PICK m \in T : \A x \in T : m <= x
    <3> HIDE DEF T
    <3> QED BY <1>2, <2>1, LeastNumber
  <2>3. m \in Nat /\ lo + m <= hi /\ lo + m \notin good /\ m # 0
    BY <2>2
  <2>4. m - 1 \in Nat /\ m - 1 \notin T /\ lo + (m - 1) <= hi
    BY <2>2, <2>3
  <2>5. lo + (m - 1) \in good
    BY <2>4
  <2>6. lo + m \in lo + 1 .. hi /\ (lo + m) - 1 = lo + (m - 1)
    BY <2>3
  <2> QED BY <2>3, <2>5, <2>6
<1> QED BY <1>1, <1>2

StaysIn(lo, hi, X, step) == \A k \in lo + 1 .. hi : \A x \in X : step[<<k, x>>] \in X
Follows(f, lo, hi, start, step) ==
  f[lo] = start /\ \A k \in lo + 1 .. hi : f[k] = step[<<k, f[k - 1]>>]

\* A function can be defined by what it is at lo and how each value follows from
\* the one before.
LEMMA Recursive ==
  ASSUME NEW lo \in Int, NEW hi \in Int, lo <= hi, NEW X, NEW start \in X,
         NEW step, StaysIn(lo, hi, X, step)
  PROVE  \E f : f \in [lo .. hi -> X] /\ Follows(f, lo, hi, start, step)
<1> DEFINE Fits(f, m) == Follows(f, lo, m, start, step)
           good == {m \in lo .. hi : \E f \in [lo .. m -> X] : Fits(f, m)}
<1>1. lo \in good
  <2> DEFINE f == [k \in lo .. lo |-> start]
  <2>1. f \in [lo .. lo -> X] /\ Fits(f, lo)
    BY DEF Follows
  <2> QED BY <2>1
<1>2. ASSUME NEW k \in lo + 1 .. hi, k - 1 \in good PROVE k \in good
  <2>1. PICK f \in [lo .. k - 1 -> X] : Fits(f, k - 1)
    BY <1>2
  <2> DEFINE g == [j \in lo .. k |-> IF j = k THEN step[<<k, f[k - 1]>>] ELSE f[j]]
  <2>2. k - 1 \in lo .. k - 1 /\ f[k - 1] \in X /\ step[<<k, f[k - 1]>>] \in X
    BY <2>1 DEF StaysIn
  <2>3. g \in [lo .. k -> X]
    BY <2>1, <2>2
  <2>4. \A j \in lo .. k - 1 : g[j] = f[j] /\ g[k] = step[<<k, f[k - 1]>>]
    OBVIOUS
  <2>5. Fits(g, k)
    <3>1. g[lo] = start
      BY <2>1, <2>4 DEF Follows
    <3>2. ASSUME NEW j \in lo + 1 .. k PROVE g[j] = step[<<j, g[j - 1]>>]
      <4>1. CASE j = k
        BY <2>2, <2>4, <4>1
      <4>2. CASE j # k
        <5>1. j \in lo + 1 .. k - 1 /\ j \in lo .. k - 1 /\ j - 1 \in lo .. k - 1
          BY <4>2
        <5> HIDE DEF g
        <5> QED BY <2>1, <2>4, <5>1 DEF Follows
      <4> QED BY <4>1, <4>2
    <3> HIDE DEF g
    <3> QED BY <3>1, <3>2 DEF Follows
  <2> HIDE DEF g, Fits
  <2> QED BY <2>3, <2>5
<1>3. \A k \in lo .. hi : k \in good
  <2> HIDE DEF good
  <2> QED BY <1>1, <1>2, Upwards
<1> QED BY <1>3

-----------------------------------------------------------------------------
(* Areas: the walk.                                                        *)

Stops == [day : Int, position : Int, starts : Int, ends : Int, place : Int, trust : Int]

\* An area has two stops at least, limits are numbers, and so is all of a stop.
AreaSetting ==
  /\ Inputs \subseteq Seq(Stops)
  /\ MinStops \in Nat /\ MinStops >= 2
  /\ MaxPrevious \in Int /\ MaxCenter \in Int /\ MaxDiameter \in Int /\ MaxGap \in Int

\* The stops decided so far are those before this one.
Undecided == IF area = << >> THEN index ELSE area[1]

\* A candidate that grows has its seed, and was accepted stop by stop.
Growing ==
  area = << >> \/
    \E first \in 1 .. Len(stops) :
      /\ area = <<first, index - 1>> /\ first + MinStops <= index
      /\ Areas!Chained(first, index - 1)

\* So was a proposed area, which ended because the next stop was not accepted.
Proposed(a) ==
  /\ a \in (1 .. Len(stops)) \X (1 .. Len(stops))
  /\ a[1] + MinStops - 1 <= a[2] /\ a[2] < Undecided
  /\ Areas!Chained(a[1], a[2])
  /\ a[2] < Len(stops) => ~Areas!Accepted(Areas!Members(a), a[2] + 1)

\* A stop left alone could not start an area.
Alone(i) == i \in 1 .. Undecided - 1 /\ ~Areas!SeedHolds(i)

\* Each stop decided so far is alone or in one area.
Placed(i) ==
  IF i \in standalone THEN \A a \in areas : i \notin Areas!Members(a)
  ELSE \E a \in areas : i \in Areas!Members(a) /\ \A b \in areas : i \in Areas!Members(b) => b = a

\* The inductive invariant of the walk.
WalkInv ==
  /\ stops \in Inputs /\ index \in 1 .. Len(stops) + 1
  /\ Growing
  /\ \A a \in areas : Proposed(a)
  /\ \A i \in standalone : Alone(i)
  /\ \A i \in 1 .. Undecided - 1 : Placed(i)

\* The stops do not change during the walk, nor does what is decided about them.
LEMMA SameRoute ==
  ASSUME stops' = stops
  PROVE  /\ \A S, c : Areas!Accepted(S, c)' <=> Areas!Accepted(S, c)
         /\ \A first, last : Areas!Chained(first, last)' <=> Areas!Chained(first, last)
         /\ \A i : Areas!SeedHolds(i)' <=> Areas!SeedHolds(i)
<1>1. ASSUME NEW S, NEW c PROVE Areas!Accepted(S, c)' <=> Areas!Accepted(S, c)
  <2>1. (Areas!Medoid(S))' = Areas!Medoid(S)
    BY DEF Areas!Medoid, Areas!Located, Areas!Distance
  <2>2. (Areas!Diameter(S \cup {c}))' = Areas!Diameter(S \cup {c})
    BY DEF Areas!Diameter, Areas!Located, Areas!Distance
  <2> QED BY <2>1, <2>2 DEF Areas!Accepted, Areas!Follows, Areas!Gap, Areas!Located, Areas!Distance
<1>2. \A first, last : Areas!Chained(first, last)' <=> Areas!Chained(first, last)
  BY <1>1 DEF Areas!Chained
<1> QED BY <1>1, <1>2 DEF Areas!SeedHolds

\* A step of the walk keeps its invariant.
LEMMA WalkStep ==
  ASSUME AreaSetting, WalkInv, [Areas!Next]_(Areas!vars)
  PROVE  WalkInv'
<1> DEFINE n == Len(stops)
<1>n. n \in Nat /\ stops' = stops /\ n' = n /\ index \in 1 .. n + 1 /\ MinStops \in Nat /\ MinStops >= 2
  BY DEF AreaSetting, WalkInv, Areas!Next, Areas!vars, Areas!LeaveAlone, Areas!StartArea, Areas!Extend,
         Areas!FinishArea
<1>s. /\ \A a : Areas!Members(a)' = Areas!Members(a)
      /\ \A a \in areas : a \in (1 .. n) \X (1 .. n) /\ a[2] < Undecided
  BY DEF Areas!Members, WalkInv, Proposed
<1>1. CASE Areas!LeaveAlone
  <2>1. /\ area = << >> /\ area' = << >> /\ areas' = areas /\ index' = index + 1 /\ index' \in 1 .. n + 1
        /\ standalone' = standalone \cup {index} /\ ~Areas!SeedHolds(index)
    BY <1>1, <1>n DEF Areas!LeaveAlone
  <2>2. Undecided = index /\ Undecided' = index + 1
    BY <2>1 DEF Undecided
  <2>3. \A a \in areas' : Proposed(a)'
    BY <1>n, <1>s, <2>1, <2>2, SameRoute DEF WalkInv, Proposed
  <2>4. \A i \in standalone' : Alone(i)'
    BY <1>n, <2>1, <2>2, SameRoute DEF WalkInv, Alone
  <2>5. \A a \in areas : index \notin Areas!Members(a)
    BY <1>n, <1>s, <2>2 DEF Areas!Members
  <2>6. \A i \in 1 .. Undecided' - 1 : Placed(i)'
    BY <1>n, <1>s, <2>1, <2>2, <2>5 DEF WalkInv, Placed
  <2> QED BY <1>n, <2>1, <2>3, <2>4, <2>6 DEF WalkInv, Growing
<1>2. CASE Areas!StartArea
  <2>1. /\ area = << >> /\ area' = <<index, index + MinStops - 1>> /\ areas' = areas
        /\ index' = index + MinStops /\ standalone' = standalone /\ index \in 1 .. n /\ Areas!SeedHolds(index)
    BY <1>2, <1>n DEF Areas!StartArea
  <2>2. Undecided = index /\ Undecided' = index
    BY <2>1 DEF Undecided
  <2>3. index' \in 1 .. n + 1 /\ Growing'
    BY <1>n, <2>1, SameRoute DEF Growing, Areas!SeedHolds
  <2>4. /\ \A a \in areas' : Proposed(a)'
        /\ \A i \in standalone' : Alone(i)'
        /\ \A i \in 1 .. Undecided' - 1 : Placed(i)'
    BY <1>n, <1>s, <2>1, <2>2, SameRoute DEF WalkInv, Proposed, Alone, Placed
  <2> QED BY <1>n, <2>3, <2>4 DEF WalkInv
<1>3. CASE Areas!Extend
  <2>0. PICK first \in 1 .. n : area = <<first, index - 1>> /\ first + MinStops <= index /\ Areas!Chained(first, index - 1)
    BY <1>3 DEF Areas!Extend, WalkInv, Growing
  <2>1. /\ area # << >> /\ area' = <<first, index>> /\ areas' = areas /\ standalone' = standalone
        /\ index' = index + 1 /\ index \in 1 .. n /\ Areas!Accepted(first .. index - 1, index)
    BY <1>3, <1>n, <2>0 DEF Areas!Extend, Areas!Grows
  <2>2. Undecided = first /\ Undecided' = first
    BY <2>0, <2>1 DEF Undecided
  <2>3. index' \in 1 .. n + 1 /\ Growing'
    <3>1. Areas!Chained(first, index)
      BY <1>n, <2>0, <2>1 DEF Areas!Chained
    <3> QED BY <1>n, <2>0, <2>1, <3>1, SameRoute DEF Growing
  <2>4. /\ \A a \in areas' : Proposed(a)'
        /\ \A i \in standalone' : Alone(i)'
        /\ \A i \in 1 .. Undecided' - 1 : Placed(i)'
    BY <1>n, <1>s, <2>1, <2>2, SameRoute DEF WalkInv, Proposed, Alone, Placed
  <2> QED BY <1>n, <2>3, <2>4 DEF WalkInv
<1>4. CASE Areas!FinishArea
  <2>0. PICK first \in 1 .. n : area = <<first, index - 1>> /\ first + MinStops <= index /\ Areas!Chained(first, index - 1)
    BY <1>4 DEF Areas!FinishArea, WalkInv, Growing
  <2> DEFINE a == <<first, index - 1>>
  <2>1. /\ area # << >> /\ area' = << >> /\ areas' = areas \cup {a} /\ standalone' = standalone /\ index' = index
        /\ index <= n => ~Areas!Accepted(first .. index - 1, index)
    BY <1>4, <1>n, <2>0 DEF Areas!FinishArea, Areas!Grows, Areas!AfterArea
  <2>2. Undecided = first /\ Undecided' = index
    BY <2>0, <2>1 DEF Undecided
  <2>m. Areas!Members(a) = first .. index - 1
    BY DEF Areas!Members
  <2>3. Proposed(a)'
    <3>1. a \in (1 .. n) \X (1 .. n) /\ a[1] = first /\ a[2] = index - 1
      BY <1>n, <2>0
    <3> QED BY <1>n, <1>s, <2>0, <2>1, <2>2, <2>m, <3>1, SameRoute DEF Proposed
  <2>4. \A b \in areas : Proposed(b)'
    BY <1>n, <1>s, <2>0, <2>1, <2>2, SameRoute DEF WalkInv, Proposed
  <2>5. \A i \in standalone' : Alone(i)' /\ i < first
    BY <1>n, <2>0, <2>1, <2>2, SameRoute DEF WalkInv, Alone
  <2>6. ASSUME NEW i \in 1 .. first - 1 PROVE Placed(i)'
    <3>1. Placed(i) /\ i \notin Areas!Members(a)
      BY <1>n, <2>0, <2>2, <2>6, <2>m DEF WalkInv
    <3> HIDE DEF a
    <3> QED BY <1>s, <2>1, <3>1 DEF Placed
  <2>7. ASSUME NEW i \in first .. index - 1 PROVE Placed(i)'
    <3>1. i \notin standalone' /\ i \in Areas!Members(a)
      BY <1>n, <2>0, <2>5, <2>m, <2>7
    <3>2. \A b \in areas : i \notin Areas!Members(b)
      BY <1>n, <1>s, <2>0, <2>2, <2>7 DEF Areas!Members
    <3> HIDE DEF a
    <3> QED BY <1>s, <2>1, <3>1, <3>2 DEF Placed
  <2> QED BY <1>n, <2>0, <2>1, <2>2, <2>3, <2>4, <2>5, <2>6, <2>7 DEF WalkInv, Growing
<1>5. CASE UNCHANGED Areas!vars
  <2>1. UNCHANGED <<stops, index, area, areas, standalone>>
    BY <1>5 DEF Areas!vars
  <2> QED BY <1>s, <2>1, SameRoute DEF WalkInv, Growing, Proposed, Alone, Placed, Undecided
<1> QED BY <1>1, <1>2, <1>3, <1>4, <1>5 DEF Areas!Next

\* From whatever stop the walk starts and whatever it accepts: what it has decided so
\* far is decided for good, each stop once, and each area as its rules ask.
THEOREM WalkHolds ==
  ASSUME AreaSetting
  PROVE  Areas!Spec => []WalkInv
<1>1. Areas!Init => WalkInv
  <2> SUFFICES ASSUME Areas!Init PROVE WalkInv
    OBVIOUS
  <2>1. stops \in Inputs /\ index = 1 /\ area = << >> /\ areas = {} /\ standalone = {}
    BY DEF Areas!Init
  <2>2. Len(stops) \in Nat /\ Undecided = 1
    BY <2>1 DEF AreaSetting, Undecided
  <2> QED BY <2>1, <2>2 DEF WalkInv, Growing
<1>2. WalkInv /\ [Areas!Next]_(Areas!vars) => WalkInv'
  BY WalkStep
<1> QED BY <1>1, <1>2, PTL DEF Areas!Spec

-----------------------------------------------------------------------------
(* Areas: what the walk promises.                                          *)

\* Distances between stops are numbers, and a diameter is the greatest of them.
LEMMA DiameterIsGreatest ==
  ASSUME AreaSetting, WalkInv, NEW first \in 1 .. Len(stops), NEW last \in 1 .. Len(stops)
  PROVE  LET S == first .. last
             D == Areas!Diameter(S)
         IN  /\ D \in Int /\ D >= 0
             /\ \A i, j \in S : Areas!Located(i) /\ Areas!Located(j) => Areas!Distance(i, j) <= D
             /\ D = 0 \/ \E i, j \in S : Areas!Located(i) /\ Areas!Located(j) /\ D = Areas!Distance(i, j)
<1> DEFINE S == first .. last
           L == {i \in S : Areas!Located(i)}
           T == {Areas!Distance(p[1], p[2]) : p \in L \X L}
           U == {0} \cup T
<1>1. stops \in Seq(Stops) /\ first \in Int /\ last \in Int
  BY DEF AreaSetting, WalkInv
<1>2. \A i, j \in S : Areas!Distance(i, j) \in Int
  <2> SUFFICES ASSUME NEW i \in S, NEW j \in S PROVE Areas!Distance(i, j) \in Int
    OBVIOUS
  <2>1. i \in 1 .. Len(stops) /\ j \in 1 .. Len(stops)
    BY <1>1
  <2>2. stops[i] \in Stops /\ stops[j] \in Stops
    BY <1>1, <2>1
  <2>3. stops[i].place \in Int /\ stops[j].place \in Int
    BY <2>2 DEF Stops
  <2> QED BY <2>3 DEF Areas!Distance
<1>3. IsFiniteSet(L \X L)
  <2>1. IsFiniteSet(S)
    BY <1>1, FS_Interval
  <2>2. IsFiniteSet(L)
    BY <2>1, FS_Subset
  <2> QED BY <2>2, FS_Product
<1>4. IsFiniteSet(T)
  <2> DEFINE f == [p \in L \X L |-> Areas!Distance(p[1], p[2])]
  <2>1. f \in Surjection(L \X L, T)
    BY DEF Surjection
  <2> HIDE DEF f, T
  <2> QED BY <1>3, <2>1, FS_Surjection
<1>5. IsFiniteSet(U)
  <2> HIDE DEF T
  <2> QED BY <1>4, FS_Union, FS_Singleton
<1>6. U \in SUBSET Int /\ 0 \in U
  BY <1>2
<1>7. Max(U) \in U /\ \A x \in U : x <= Max(U)
  <2> HIDE DEF U
  <2> QED BY <1>5, <1>6, MaxOfFinite
<1>8. Areas!Diameter(S) = Max(U)
  <2>1. L \X L = {i \in S : Areas!Located(i)} \X {i \in S : Areas!Located(i)}
    OBVIOUS
  <2> QED BY <2>1 DEF Areas!Diameter, Areas!Max, Max
<1>9. \A i, j \in L : Areas!Distance(i, j) <= Max(U)
  <2> SUFFICES ASSUME NEW i \in L, NEW j \in L PROVE Areas!Distance(i, j) <= Max(U)
    OBVIOUS
  <2>1. <<i, j>> \in L \X L /\ <<i, j>>[1] = i /\ <<i, j>>[2] = j
    OBVIOUS
  <2>2. Areas!Distance(i, j) \in U
    BY <2>1
  <2> HIDE DEF U
  <2> QED BY <1>7, <2>2
<1>10. Max(U) = 0 \/ \E i, j \in L : Max(U) = Areas!Distance(i, j)
  <2> HIDE DEF Max
  <2> QED BY <1>7
<1>11. Max(U) \in Int /\ Max(U) >= 0
  <2> HIDE DEF U
  <2> QED BY <1>6, <1>7
<1> HIDE DEF U, Max
<1> QED BY <1>8, <1>9, <1>10, <1>11

\* AreaGrouping counts as the library does.
LEMMA SameCount == \A S : Areas!Cardinality(S) = Cardinality(S)
BY DEF Areas!Cardinality, Cardinality

\* What a proposed area is made of.
LEMMA ProposedIsCompact ==
  ASSUME AreaSetting, WalkInv, NEW a \in areas
  PROVE  /\ a[1] \in 1 .. Len(stops) /\ a[2] \in 1 .. Len(stops) /\ a[1] + MinStops - 1 <= a[2]
         /\ \A i \in Areas!Members(a) : Areas!Located(i)
         /\ \A i \in a[1] + 1 .. a[2] :
              /\ Areas!Follows(i) /\ Areas!Gap(i) <= MaxGap
              /\ Areas!Distance(i - 1, i) <= MaxPrevious
              /\ Areas!Diameter(a[1] .. i) <= MaxDiameter
<1>1. /\ a[1] \in 1 .. Len(stops) /\ a[2] \in 1 .. Len(stops) /\ a[1] + MinStops - 1 <= a[2]
      /\ Areas!Chained(a[1], a[2])
  BY DEF WalkInv, Proposed
<1>2. ASSUME NEW i \in a[1] + 1 .. a[2]
      PROVE  /\ Areas!Follows(i) /\ Areas!Gap(i) <= MaxGap /\ Areas!Located(i - 1) /\ Areas!Located(i)
             /\ Areas!Distance(i - 1, i) <= MaxPrevious /\ Areas!Diameter(a[1] .. i) <= MaxDiameter
  <2>1. Areas!Accepted(a[1] .. i - 1, i)
    BY <1>1 DEF Areas!Chained
  <2>2. (a[1] .. i - 1) \cup {i} = a[1] .. i
    BY <1>1
  <2> QED BY <2>1, <2>2 DEF Areas!Accepted
<1>3. \A i \in Areas!Members(a) : Areas!Located(i)
  <2> SUFFICES ASSUME NEW i \in Areas!Members(a) PROVE Areas!Located(i)
    OBVIOUS
  <2>1. i \in a[1] .. a[2] /\ a[1] + 1 <= a[2]
    BY <1>1 DEF Areas!Members, AreaSetting
  <2>2. CASE i = a[1]
    <3>1. i + 1 \in a[1] + 1 .. a[2] /\ (i + 1) - 1 = i
      BY <1>1, <2>1, <2>2
    <3> QED BY <1>2, <3>1
  <2>3. CASE i # a[1]
    BY <1>1, <1>2, <2>1, <2>3
  <2> QED BY <2>2, <2>3
<1> QED BY <1>1, <1>2, <1>3

\* An area is a run of MinStops stops or more of one day, without a skipped stop,
\* a long pause or a stop without location, and no wider than its limit.
THEOREM AreasCompact ==
  ASSUME AreaSetting
  PROVE  Areas!Spec => []Areas!AreasAreCompact
<1>1. WalkInv => Areas!AreasAreCompact
  <2> SUFFICES ASSUME WalkInv, NEW a \in areas
               PROVE  /\ Cardinality(Areas!Members(a)) >= MinStops
                      /\ Areas!Diameter(Areas!Members(a)) <= MaxDiameter
    BY ProposedIsCompact, SameCount DEF Areas!AreasAreCompact
  <2>1. /\ a[1] \in 1 .. Len(stops) /\ a[2] \in 1 .. Len(stops) /\ a[1] + MinStops - 1 <= a[2]
        /\ MinStops \in Nat /\ MinStops >= 2
    BY ProposedIsCompact DEF AreaSetting
  <2>2. Cardinality(a[1] .. a[2]) = a[2] - a[1] + 1
    <3>1. a[1] \in Int /\ a[2] \in Int /\ ~(a[1] > a[2])
      BY <2>1
    <3> QED BY <3>1, FS_Interval
  <2>3. Areas!Diameter(a[1] .. a[2]) <= MaxDiameter
    <3>1. a[2] \in a[1] + 1 .. a[2]
      BY <2>1
    <3> QED BY <3>1, ProposedIsCompact
  <2> QED BY <2>1, <2>2, <2>3 DEF Areas!Members
<1> QED BY <1>1, WalkHolds, PTL

\* At the end each stop was left alone or is in exactly one area.
THEOREM StopsDecidedOnce ==
  ASSUME AreaSetting
  PROVE  Areas!Spec => []Areas!EachStopOnce
<1>1. WalkInv => Areas!EachStopOnce
  <2> SUFFICES ASSUME WalkInv, Areas!Done, NEW i \in 1 .. Len(stops)
               PROVE  LET holding == {a \in areas : i \in Areas!Members(a)}
                      IN  IF i \in standalone THEN holding = {} ELSE Cardinality(holding) = 1
    BY SameCount DEF Areas!EachStopOnce
  <2>1. Placed(i)
    BY DEF WalkInv, Areas!Done, Undecided, AreaSetting
  <2>2. CASE i \in standalone
    BY <2>1, <2>2 DEF Placed
  <2>3. CASE i \notin standalone
    <3>1. PICK a \in areas : {b \in areas : i \in Areas!Members(b)} = {a}
      BY <2>1, <2>3 DEF Placed
    <3> QED BY <2>3, <3>1, FS_Singleton
  <2> QED BY <2>2, <2>3
<1> QED BY <1>1, WalkHolds, PTL

\* At the end no stop left alone would start an area, and no area would have
\* accepted the stop after it.
THEOREM NoAreaMissed ==
  ASSUME AreaSetting
  PROVE  Areas!Spec => []Areas!NoAreaIsMissed
<1>1. WalkInv => Areas!NoAreaIsMissed
  BY DEF WalkInv, Areas!NoAreaIsMissed, Alone, Proposed
<1> QED BY <1>1, WalkHolds, PTL

\* The confidence takes the least trust of an area.
LEMMA LeastTrust ==
  ASSUME AreaSetting, WalkInv, NEW a \in areas, NEW i \in Areas!Members(a)
  PROVE  LET trust == CHOOSE t \in {stops[j].trust : j \in Areas!Members(a)} :
                        \A j \in Areas!Members(a) : t <= stops[j].trust
         IN  trust \in Int /\ trust <= stops[i].trust
<1> DEFINE n == a[2] - a[1] + 1
           f == [k \in 1 .. n |-> -stops[a[1] + k - 1].trust]
<1>1. a[1] \in 1 .. Len(stops) /\ a[2] \in 1 .. Len(stops) /\ a[1] < a[2] /\ Areas!Members(a) = a[1] .. a[2]
  BY ProposedIsCompact DEF AreaSetting, Areas!Members
<1>2. \A j \in Areas!Members(a) : stops[j].trust \in Int
  <2>1. \A j \in 1 .. Len(stops) : stops[j] \in Stops
    BY DEF AreaSetting, WalkInv
  <2> QED BY <1>1, <2>1 DEF Stops
<1>3. n \in Nat /\ n >= 1 /\ \A k \in 1 .. n : a[1] + k - 1 \in Areas!Members(a)
  BY <1>1
<1>4. PICK m \in 1 .. n : \A k \in 1 .. n : f[k] <= f[m]
  <2>1. \A k \in 1 .. n : f[k] \in Int
    BY <1>2, <1>3
  <2> HIDE DEF f, n
  <2> QED BY <1>3, <2>1, GreatestValue
<1>5. ASSUME NEW j \in Areas!Members(a) PROVE stops[a[1] + m - 1].trust <= stops[j].trust
  <2> DEFINE k == j - a[1] + 1
  <2>1. k \in 1 .. n /\ a[1] + k - 1 = j
    BY <1>1
  <2>2. f[k] <= f[m] /\ f[k] = -stops[j].trust /\ f[m] = -stops[a[1] + m - 1].trust
    BY <1>4, <2>1
  <2> QED BY <1>2, <1>3, <2>2
<1>6. \E t \in {stops[j].trust : j \in Areas!Members(a)} : \A j \in Areas!Members(a) : t <= stops[j].trust
  BY <1>3, <1>5
<1> QED BY <1>2, <1>6

\* It takes the greatest of each measure of the stops that were accepted.
LEMMA GreatestMeasure ==
  ASSUME NEW first \in Int, NEW last \in Int, first < last, NEW f,
         \A c \in first + 1 .. last : f[c] \in Int
  PROVE  LET S == {f[c] : c \in first + 1 .. last}
         IN  Areas!Max(S) \in Int /\ \A c \in first + 1 .. last : f[c] <= Areas!Max(S)
<1> DEFINE C == first + 1 .. last
           S == {f[c] : c \in C}
           g == [c \in C |-> f[c]]
<1>1. IsFiniteSet(S)
  <2>1. g \in Surjection(C, S)
    BY DEF Surjection
  <2>2. IsFiniteSet(C)
    BY FS_Interval
  <2> HIDE DEF g, C, S
  <2> QED BY <2>1, <2>2, FS_Surjection
<1>2. S \in SUBSET Int /\ S # {}
  BY DEF C
<1>3. Max(S) \in S /\ \A x \in S : x <= Max(S)
  <2> HIDE DEF S
  <2> QED BY <1>1, <1>2, MaxOfFinite
<1>4. Areas!Max(S) = Max(S)
  BY DEF Areas!Max, Max
<1>5. Max(S) \in Int /\ \A c \in C : f[c] <= Max(S)
  <2> HIDE DEF Max
  <2> QED BY <1>2, <1>3
<1> HIDE DEF Max
<1> QED BY <1>4, <1>5

\* What an area loses for a measure near its limit.
LEMMA PenaltyValues ==
  ASSUME NEW value, NEW limit
  PROVE  Areas!Penalty(value, limit) \in {0, 4, 8, 12}
BY DEF Areas!Penalty

\* Within 5 % of its limit it loses the most.
LEMMA FullPenalty ==
  ASSUME NEW value \in Int, NEW limit \in Int, 100 * value >= 95 * limit
  PROVE  Areas!Penalty(value, limit) = 12
BY DEF Areas!Penalty

\* What is taken off the confidence of an area at two of its limits.
LEMMA EdgeOfLimits ==
  ASSUME AreaSetting, WalkInv, NEW a \in areas,
         100 * Areas!Diameter(Areas!Members(a)) >= 95 * MaxDiameter,
         NEW i \in a[1] + 1 .. a[2], Areas!Distance(i - 1, i) = MaxPrevious
  PROVE  LET later == a[1] + 1 .. a[2] IN
         /\ Areas!Penalty(Areas!Max({Areas!Distance(c - 1, c) : c \in later}), MaxPrevious) = 12
         /\ Areas!Penalty(Areas!Max({Areas!Diameter(a[1] .. c) : c \in later}), MaxDiameter) = 12
<1> DEFINE later == a[1] + 1 .. a[2]
           step == [c \in later |-> Areas!Distance(c - 1, c)]
           wide == [c \in later |-> Areas!Diameter(a[1] .. c)]
<1>1. /\ a[1] \in 1 .. Len(stops) /\ a[2] \in 1 .. Len(stops) /\ a[1] < a[2]
      /\ MaxPrevious \in Int /\ MaxDiameter \in Int
  BY ProposedIsCompact DEF AreaSetting
<1>2. \A c \in later : Areas!Distance(c - 1, c) \in Int /\ Areas!Distance(c - 1, c) >= 0
  <2>1. \A j \in 1 .. Len(stops) : stops[j].place \in Int
    <3>1. \A j \in 1 .. Len(stops) : stops[j] \in Stops
      BY DEF AreaSetting, WalkInv
    <3> QED BY <3>1 DEF Stops
  <2>2. \A c \in later : c \in 1 .. Len(stops) /\ c - 1 \in 1 .. Len(stops)
    BY <1>1
  <2> QED BY <2>1, <2>2 DEF Areas!Distance
<1>3. \A c \in later : Areas!Diameter(a[1] .. c) \in Int
  <2>1. \A c \in later : c \in 1 .. Len(stops)
    BY <1>1
  <2> QED BY <1>1, <2>1, DiameterIsGreatest
<1>4. Areas!Penalty(Areas!Max({Areas!Distance(c - 1, c) : c \in later}), MaxPrevious) = 12
  <2> DEFINE S == {step[c] : c \in later}
  <2>1. Areas!Max(S) \in Int /\ \A c \in later : step[c] <= Areas!Max(S)
    <3>1. \A c \in later : step[c] \in Int
      BY <1>2
    <3>2. a[1] \in Int /\ a[2] \in Int /\ a[1] < a[2]
      BY <1>1
    <3> HIDE DEF step
    <3> QED BY <3>1, <3>2, GreatestMeasure
  <2>2. S = {Areas!Distance(c - 1, c) : c \in later} /\ step[i] = MaxPrevious
    OBVIOUS
  <2>3. MaxPrevious >= 0
    BY <1>2
  <2>4. 100 * Areas!Max(S) >= 95 * MaxPrevious
    <3> HIDE DEF S, step
    <3> QED BY <1>1, <2>1, <2>2, <2>3
  <2> HIDE DEF S
  <2> QED BY <1>1, <2>1, <2>2, <2>4, FullPenalty
<1>5. Areas!Penalty(Areas!Max({Areas!Diameter(a[1] .. c) : c \in later}), MaxDiameter) = 12
  <2> DEFINE S == {wide[c] : c \in later}
  <2>1. Areas!Max(S) \in Int /\ \A c \in later : wide[c] <= Areas!Max(S)
    <3>1. \A c \in later : wide[c] \in Int
      BY <1>3
    <3>2. a[1] \in Int /\ a[2] \in Int /\ a[1] < a[2]
      BY <1>1
    <3> HIDE DEF wide
    <3> QED BY <3>1, <3>2, GreatestMeasure
  <2>2. S = {Areas!Diameter(a[1] .. c) : c \in later}
    OBVIOUS
  <2>3. a[2] \in later /\ wide[a[2]] = Areas!Diameter(Areas!Members(a)) /\ wide[a[2]] \in Int
    BY <1>1, <1>3 DEF Areas!Members
  <2>4. 100 * Areas!Max(S) >= 95 * MaxDiameter
    <3> HIDE DEF S, wide, later
    <3> QED BY <1>1, <2>1, <2>3
  <2> HIDE DEF S
  <2> QED BY <1>1, <2>1, <2>2, <2>4, FullPenalty
<1> QED BY <1>4, <1>5

\* The decisions that confidence_for_area takes again accept every member, and an
\* area with a doubtful location at the edge of two of its limits is never shown
\* without a review.
THEOREM ConfidenceIsWhole ==
  ASSUME AreaSetting
  PROVE  Areas!Spec => []Areas!ConfidenceSeesEveryStop
<1>1. WalkInv => Areas!ConfidenceSeesEveryStop
  <2> SUFFICES ASSUME WalkInv, NEW a \in areas
               PROVE  /\ Areas!Replayed(a)
                      /\ (/\ \E i \in Areas!Members(a) : stops[i].trust < 70
                          /\ 100 * Areas!Diameter(Areas!Members(a)) >= 95 * MaxDiameter
                          /\ \E i \in a[1] + 1 .. a[2] : Areas!Distance(i - 1, i) = MaxPrevious) => Areas!Reviewed(a)
    BY DEF Areas!ConfidenceSeesEveryStop
  <2>1. Areas!Replayed(a)
    BY DEF WalkInv, Proposed, Areas!Replayed
  <2>2. ASSUME NEW j \in Areas!Members(a), stops[j].trust < 70,
               100 * Areas!Diameter(Areas!Members(a)) >= 95 * MaxDiameter,
               NEW i \in a[1] + 1 .. a[2], Areas!Distance(i - 1, i) = MaxPrevious
        PROVE  Areas!Reviewed(a)
    <3> DEFINE later == a[1] + 1 .. a[2]
               trust == CHOOSE t \in {stops[k].trust : k \in Areas!Members(a)} :
                          \A k \in Areas!Members(a) : t <= stops[k].trust
               short == IF Areas!Cardinality(Areas!Members(a)) = MinStops THEN 5 ELSE 0
               far == Areas!Penalty(Areas!Max({Areas!Distance(c - 1, c) : c \in later}), MaxPrevious)
               off == Areas!Penalty(Areas!Max({Areas!Distance(Areas!Medoid(a[1] .. c - 1), c) : c \in later}), MaxCenter)
               wide == Areas!Penalty(Areas!Max({Areas!Diameter(a[1] .. c) : c \in later}), MaxDiameter)
               late == Areas!Penalty(Areas!Max({Areas!Gap(c) : c \in later}), MaxGap)
               vague == IF trust < 70 THEN 15 ELSE IF trust < 85 THEN 5 ELSE 0
    <3>1. far = 12 /\ wide = 12
      BY <2>2, EdgeOfLimits
    <3>2. off \in {0, 4, 8, 12} /\ late \in {0, 4, 8, 12} /\ short \in {0, 5}
      BY PenaltyValues
    <3>3. vague = 15
      <4>1. trust \in Int /\ trust <= stops[j].trust
        BY <2>2, LeastTrust
      <4>2. stops[j].trust \in Int
        <5>1. j \in 1 .. Len(stops)
          BY <2>2, ProposedIsCompact DEF Areas!Members, AreaSetting
        <5>2. stops[j] \in Stops
          BY <5>1 DEF AreaSetting, WalkInv
        <5> QED BY <5>2 DEF Stops
      <4> HIDE DEF trust
      <4> QED BY <2>2, <4>1, <4>2
    <3>4. Areas!Confidence(a) = 95 - short - far - off - wide - late - vague
      BY DEF Areas!Confidence
    <3> HIDE DEF short, far, off, wide, late, vague
    <3> QED BY <3>1, <3>2, <3>3, <3>4 DEF Areas!Reviewed
  <2> QED BY <2>1, <2>2
<1> QED BY <1>1, WalkHolds, PTL

\* The walk stays among the stops.
THEOREM WalkTyped ==
  ASSUME AreaSetting
  PROVE  Areas!Spec => []Areas!TypeOK
<1>1. WalkInv => Areas!TypeOK
  <2> SUFFICES ASSUME WalkInv PROVE Areas!TypeOK
    OBVIOUS
  <2>1. Len(stops) \in Nat /\ MinStops \in Nat /\ MinStops >= 2 /\ index \in 1 .. Len(stops) + 1
    BY DEF WalkInv, AreaSetting
  <2>2. area \in Seq(1 .. Len(stops)) /\ Len(area) \in {0, 2}
    <3>1. CASE area = << >>
      BY <3>1
    <3>2. CASE area # << >>
      <4>1. PICK first \in 1 .. Len(stops) : area = <<first, index - 1>> /\ first + MinStops <= index
        BY <3>2 DEF WalkInv, Growing
      <4>2. index - 1 \in 1 .. Len(stops)
        BY <2>1, <4>1
      <4> QED BY <4>1, <4>2
    <3> QED BY <3>1, <3>2
  <2>3. \A a \in areas : a[1] \in 1 .. Len(stops) /\ a[2] \in a[1] .. Len(stops)
    BY <2>1, ProposedIsCompact
  <2>4. standalone \subseteq 1 .. Len(stops)
    BY <2>1 DEF WalkInv, Alone, Undecided, Growing
  <2> QED BY <2>1, <2>2, <2>3, <2>4 DEF Areas!TypeOK
<1> QED BY <1>1, WalkHolds, PTL

-----------------------------------------------------------------------------
(* The forest of visually_similar_sets.                                    *)

\* A forest of the photos of M, seen from outside: each photo has a root and a
\* height above it, and no photo is higher than the number of unions.
Roots(M, root) == {p \in M : root[p] = p}
Tree(M, parent, root, height) ==
  /\ parent \in [M -> M] /\ root \in [M -> M] /\ height \in [M -> Nat]
  /\ \A p \in M :
       /\ root[parent[p]] = root[p] /\ (parent[p] = p => root[p] = p)
       /\ root[root[p]] = root[p] /\ parent[root[p]] = root[p] /\ height[root[p]] = 0
       /\ parent[p] # p => height[parent[p]] < height[p]
       /\ height[p] + Cardinality(Roots(M, root)) <= Cardinality(M)

\* find ends at the root: the parents of a photo are passed before the loop of
\* the model ends.
LEMMA RootIsFound ==
  ASSUME NEW M \in SUBSET Photos, IsFiniteSet(Photos), NEW parent, NEW root, NEW height,
         Tree(M, parent, root, height), NEW p \in M
  PROVE  Root(parent, p) = root[p]
<1> DEFINE N == Cardinality(Photos)
<1>1. N \in Nat /\ height[p] \in Nat /\ height[p] <= N
  <2>1. IsFiniteSet(M) /\ Cardinality(M) <= N /\ N \in Nat
    BY FS_Subset, FS_CardinalityType
  <2>2. IsFiniteSet(Roots(M, root))
    BY <2>1, FS_Subset DEF Roots
  <2>3. Cardinality(Roots(M, root)) \in Nat /\ Cardinality(M) \in Nat
    BY <2>1, <2>2, FS_CardinalityType
  <2> QED BY <2>1, <2>3 DEF Tree
<1> HIDE DEF N
<1> DEFINE Up(up) == up = [n \in 0 .. N |-> IF n = 0 THEN p ELSE parent[up[n - 1]]]
           up == CHOOSE u : Up(u)
<1>2. Root(parent, p) = up[N]
  BY DEF Root, N
<1>3. Up(up)
  <2> DEFINE step == [e \in (0 + 1 .. N) \X M |-> parent[e[2]]]
  <2>1. StaysIn(0, N, M, step)
    BY <1>1 DEF Tree, StaysIn
  <2>2. PICK f : f \in [0 .. N -> M] /\ Follows(f, 0, N, p, step)
    <3>1. 0 \in Int /\ N \in Int /\ 0 <= N
      BY <1>1
    <3> HIDE DEF step
    <3> QED BY <2>1, <3>1, Recursive
  <2>3. ASSUME NEW k \in 1 .. N PROVE f[k] = parent[f[k - 1]]
    <3>1. k \in 0 + 1 .. N /\ k - 1 \in 0 .. N
      BY <1>1
    <3>2. <<k, f[k - 1]>> \in (0 + 1 .. N) \X M
      BY <2>2, <3>1
    <3> QED BY <2>2, <3>1, <3>2 DEF Follows
  <2>4. f = [n \in 0 .. N |-> IF n = 0 THEN p ELSE parent[f[n - 1]]]
    BY <1>1, <2>2, <2>3 DEF Follows
  <2> QED BY <2>4
<1> HIDE DEF up
<1>4. up[0] = p /\ \A k \in 1 .. N : up[k] = parent[up[k - 1]]
  BY <1>1, <1>3
<1> DEFINE good == {k \in 0 .. N : /\ up[k] \in M /\ root[up[k]] = root[p]
                                   /\ parent[up[k]] = up[k] \/ height[up[k]] + k <= height[p]}
<1>5. \A k \in 0 .. N : k \in good
  <2>1. 0 \in good
    BY <1>1, <1>4 DEF Tree
  <2>2. ASSUME NEW k \in 0 + 1 .. N, k - 1 \in good PROVE k \in good
    <3> DEFINE x == up[k - 1]
    <3>1. x \in M /\ root[x] = root[p] /\ (parent[x] = x \/ height[x] + (k - 1) <= height[p]) /\ up[k] = parent[x]
      BY <1>1, <1>4, <2>2
    <3> HIDE DEF x
    <3>2. CASE parent[x] = x
      BY <2>2, <3>1, <3>2
    <3>3. CASE parent[x] # x
      <4>1. /\ up[k] \in M /\ root[up[k]] = root[p]
            /\ height[up[k]] \in Nat /\ height[x] \in Nat /\ height[up[k]] < height[x]
        BY <3>1, <3>3 DEF Tree
      <4> QED BY <1>1, <2>2, <3>1, <3>3, <4>1
    <3> QED BY <3>2, <3>3
  <2> HIDE DEF good
  <2> QED BY <1>1, <2>1, <2>2, Upwards
<1>6. N \in good
  BY <1>1, <1>5
<1>7. parent[up[N]] = up[N]
  <2>1. up[N] \in M /\ (parent[up[N]] = up[N] \/ height[up[N]] + N <= height[p])
    BY <1>6
  <2>2. ASSUME parent[up[N]] # up[N] PROVE FALSE
    <3>1. height[up[N]] \in Nat /\ height[parent[up[N]]] \in Nat /\ height[parent[up[N]]] < height[up[N]]
      BY <2>1, <2>2 DEF Tree
    <3> QED BY <1>1, <2>1, <2>2, <3>1
  <2> QED BY <2>2
<1> QED BY <1>2, <1>6, <1>7 DEF Tree

\* No set of photos falls apart: a match crosses wherever a set is cut.
Whole(M, root) ==
  \A half \in SUBSET M : \A a \in half, b \in M \ half : root[a] = root[b] =>
    \E p \in half, q \in M \ half : Matches(p, q) /\ root[p] = root[a] /\ root[q] = root[a]

\* The forest after the pairs of D have been compared.
Joined(M, D, parent) ==
  \E root \in [M -> M], height \in [M -> Nat] :
    /\ Tree(M, parent, root, height) /\ Whole(M, root)
    /\ \A e \in D : Matches(e[1], e[2]) => root[e[1]] = root[e[2]]

\* Matches does not ask which photo is the first.
LEMMA MatchesBothWays ==
  ASSUME effective \in [Photos -> Int], NEW p \in Photos, NEW q \in Photos, Matches(p, q)
  PROVE  Matches(q, p)
<1>1. {p, q} = {q, p} /\ effective[p] \in Int /\ effective[q] \in Int
  OBVIOUS
<1>2. Absolute(effective[p] - effective[q]) = Absolute(effective[q] - effective[p])
  BY <1>1 DEF Absolute
<1> QED BY <1>1, <1>2 DEF Matches

Grown(M, parent, root, height, rp, rq, parent2, root2, height2) ==
  /\ rp \in M /\ rq \in M /\ root[rp] = rp /\ root[rq] = rq /\ rp # rq
  /\ parent2 \in [M -> M] /\ \A x \in M : parent2[x] = IF x = rq THEN rp ELSE parent[x]
  /\ root2 \in [M -> M] /\ \A x \in M : root2[x] = IF root[x] = rq THEN rp ELSE root[x]
  /\ height2 \in [M -> Nat]
  /\ \A x \in M : height2[x] = IF root[x] = rq THEN height[x] + 1 ELSE height[x]

\* union of two photos of different trees puts one root under the other, which
\* leaves a tree.
LEMMA TreeGrows ==
  ASSUME NEW M \in SUBSET Photos, IsFiniteSet(Photos), NEW parent, NEW root, NEW height,
         Tree(M, parent, root, height), NEW rp, NEW rq, NEW parent2, NEW root2, NEW height2,
         Grown(M, parent, root, height, rp, rq, parent2, root2, height2)
  PROVE  Tree(M, parent2, root2, height2)
<1> USE DEF Grown
<1>1. \A x \in M : height[x] \in Nat /\ root[x] \in M /\ parent[x] \in M
  BY DEF Tree
<1>3. Cardinality(Roots(M, root2)) = Cardinality(Roots(M, root)) - 1
      /\ Cardinality(Roots(M, root)) \in Nat /\ Cardinality(M) \in Nat
  <2>1. Roots(M, root2) = Roots(M, root) \ {rq}
    BY <1>1 DEF Roots, Tree
  <2>2. IsFiniteSet(M) /\ IsFiniteSet(Roots(M, root)) /\ rq \in Roots(M, root)
    BY FS_Subset DEF Roots
  <2> QED BY <2>1, <2>2, FS_RemoveElement, FS_CardinalityType
<1>4. ASSUME NEW x \in M
      PROVE  /\ root2[parent2[x]] = root2[x] /\ (parent2[x] = x => root2[x] = x)
             /\ root2[root2[x]] = root2[x] /\ parent2[root2[x]] = root2[x] /\ height2[root2[x]] = 0
             /\ parent2[x] # x => height2[parent2[x]] < height2[x]
  <2>1. /\ root[parent[x]] = root[x] /\ (parent[x] = x => root[x] = x)
        /\ root[root[x]] = root[x] /\ parent[root[x]] = root[x] /\ height[root[x]] = 0
        /\ parent[x] # x => height[parent[x]] < height[x]
    BY DEF Tree
  <2>2. height[rp] = 0 /\ height[rq] = 0 /\ parent[rp] = rp
    BY DEF Tree
  <2> QED BY <1>1, <2>1, <2>2
<1>5. ASSUME NEW x \in M PROVE height2[x] + Cardinality(Roots(M, root2)) <= Cardinality(M)
  <2>1. height[x] + Cardinality(Roots(M, root)) <= Cardinality(M)
    BY DEF Tree
  <2> QED BY <1>1, <1>3, <2>1
<1> QED BY <1>4, <1>5 DEF Tree

\* The union of two photos that match keeps the forest true.
LEMMA UnionJoins ==
  ASSUME IsFiniteSet(Photos), effective \in [Photos -> Int], NEW M \in SUBSET Photos, NEW D \in SUBSET (M \X M),
         NEW parent, Joined(M, D, parent), NEW p \in M, NEW q \in M, Matches(p, q)
  PROVE  Joined(M, D \cup {<<p, q>>}, Union(parent, p, q))
<1>1. PICK root \in [M -> M], height \in [M -> Nat] :
        /\ Tree(M, parent, root, height) /\ Whole(M, root)
        /\ \A e \in D : Matches(e[1], e[2]) => root[e[1]] = root[e[2]]
  BY DEF Joined
<1>2. Union(parent, p, q) = [parent EXCEPT ![root[q]] = root[p]]
  <2>1. Root(parent, p) = root[p]
    BY <1>1, RootIsFound
  <2>2. Root(parent, q) = root[q]
    BY <1>1, RootIsFound
  <2> QED BY <2>1, <2>2 DEF Union
<1>3. parent \in [M -> M] /\ parent[root[q]] = root[q] /\ root[root[p]] = root[p] /\ root[root[q]] = root[q]
  BY <1>1 DEF Tree
<1>4. CASE root[p] = root[q]
  <2>1. Union(parent, p, q) = parent
    BY <1>2, <1>3, <1>4
  <2>2. \A e \in D \cup {<<p, q>>} : Matches(e[1], e[2]) => root[e[1]] = root[e[2]]
    BY <1>1, <1>4
  <2> QED BY <1>1, <2>1, <2>2 DEF Joined
<1>5. CASE root[p] # root[q]
  <2> DEFINE rp == root[p]
             rq == root[q]
             root2 == [x \in M |-> IF root[x] = rq THEN rp ELSE root[x]]
             height2 == [x \in M |-> IF root[x] = rq THEN height[x] + 1 ELSE height[x]]
  <2> DEFINE parent2 == Union(parent, p, q)
  <2>1. rp \in M /\ rq \in M /\ rp # rq
    BY <1>1, <1>5
  <2>2. root2 \in [M -> M] /\ height2 \in [M -> Nat]
    BY <1>1, <2>1
  <2>3. /\ \A x \in M : root2[x] = IF root[x] = rq THEN rp ELSE root[x]
        /\ \A x \in M : height2[x] = IF root[x] = rq THEN height[x] + 1 ELSE height[x]
    OBVIOUS
  <2>4. Tree(M, parent2, root2, height2)
    <3>1. parent2 \in [M -> M] /\ \A x \in M : parent2[x] = IF x = rq THEN rp ELSE parent[x]
      BY <1>2, <1>3, <2>1
    <3>2. root[rp] = rp /\ root[rq] = rq
      BY <1>3
    <3> HIDE DEF rp, rq, root2, height2, parent2
    <3>3. Grown(M, parent, root, height, rp, rq, parent2, root2, height2)
      BY <2>1, <2>2, <2>3, <3>1, <3>2 DEF Grown
    <3> QED BY <1>1, <3>3, TreeGrows
  <2> HIDE DEF root2, height2
  <2>5. Whole(M, root2)
    <3> SUFFICES ASSUME NEW half \in SUBSET M, NEW a \in half, NEW b \in M \ half, root2[a] = root2[b]
                 PROVE  \E x \in half, y \in M \ half :
                          Matches(x, y) /\ root2[x] = root2[a] /\ root2[y] = root2[a]
      BY DEF Whole
    <3>1. ASSUME NEW c \in half, NEW d \in M \ half, root[c] = root[d], root2[c] = root2[a]
          PROVE  \E x \in half, y \in M \ half :
                   Matches(x, y) /\ root2[x] = root2[a] /\ root2[y] = root2[a]
      <4>1. PICK x \in half, y \in M \ half : Matches(x, y) /\ root[x] = root[c] /\ root[y] = root[c]
        BY <1>1, <3>1 DEF Whole
      <4> QED BY <2>3, <3>1, <4>1
    <3>2. CASE root[a] = root[b]
      BY <3>1, <3>2
    <3>3. CASE root[a] = rp /\ root[b] = rq
      <4>1. root2[p] = root2[a] /\ root2[q] = root2[a]
        BY <2>1, <2>3, <3>3
      <4> QED BY <3>1, <3>3, <4>1
    <3>4. CASE root[a] = rq /\ root[b] = rp
      <4>1. root2[p] = root2[a] /\ root2[q] = root2[a]
        BY <2>1, <2>3, <3>4
      <4>2. Matches(q, p)
        BY MatchesBothWays
      <4> QED BY <3>1, <3>4, <4>1, <4>2
    <3>5. root[a] = root[b] \/ (root[a] = rp /\ root[b] = rq) \/ (root[a] = rq /\ root[b] = rp)
      BY <2>3
    <3> QED BY <3>2, <3>3, <3>4, <3>5
  <2>6. \A e \in D \cup {<<p, q>>} : Matches(e[1], e[2]) => root2[e[1]] = root2[e[2]]
    <3>1. root2[p] = root2[q]
      BY <2>1, <2>3
    <3>2. \A x, y \in M : root[x] = root[y] => root2[x] = root2[y]
      BY <2>3
    <3> QED BY <1>1, <3>1, <3>2
  <2> QED BY <2>2, <2>4, <2>5, <2>6 DEF Joined
<1> QED BY <1>4, <1>5

\* At first every photo is a tree.
LEMMA AloneJoins ==
  ASSUME IsFiniteSet(Photos), NEW M \in SUBSET Photos
  PROVE  Joined(M, {}, [p \in M |-> p])
<1> DEFINE same == [p \in M |-> p]
           none == [p \in M |-> 0]
<1>1. same \in [M -> M] /\ none \in [M -> Nat] /\ \A p \in M : same[p] = p /\ none[p] = 0
  OBVIOUS
<1>2. Roots(M, same) = M /\ Cardinality(M) \in Nat
  BY FS_Subset, FS_CardinalityType DEF Roots
<1> HIDE DEF same, none
<1>3. Tree(M, same, same, none)
  BY <1>1, <1>2 DEF Tree
<1>4. Whole(M, same)
  BY <1>1 DEF Whole
<1> QED BY <1>1, <1>3, <1>4 DEF Joined, same

\* Fewer pairs ask less of a forest.
LEMMA JoinedLess ==
  ASSUME NEW M, NEW D, NEW forest, Joined(M, D, forest), NEW E \in SUBSET D
  PROVE  Joined(M, E, forest) /\ forest \in [M -> M]
BY DEF Joined, Tree

\* The inner loop: a photo is compared with each of the later ones.
LEMMA ComparedJoins ==
  ASSUME IsFiniteSet(Photos), effective \in [Photos -> Int], NEW M \in SUBSET Photos, NEW D \in SUBSET (M \X M),
         NEW ordered \in Seq(M), NEW i \in 1 .. Len(ordered), NEW forest, Joined(M, D, forest)
  PROVE  Joined(M, D \cup {<<ordered[i], ordered[j]>> : j \in i + 1 .. Len(ordered)},
                Compared(ordered, i, forest))
<1> DEFINE n == Len(ordered)
           Is(g) == g = [j \in i .. n |-> IF j = i THEN forest
                           ELSE IF Matches(ordered[i], ordered[j])
                             THEN Union(g[j - 1], ordered[i], ordered[j]) ELSE g[j - 1]]
           joined == CHOOSE g : Is(g)
           X == {f \in [M -> M] : Joined(M, {}, f)}
           step == [e \in (i + 1 .. n) \X X |->
                      IF Matches(ordered[i], ordered[e[1]])
                        THEN Union(e[2], ordered[i], ordered[e[1]]) ELSE e[2]]
           Done(j) == D \cup {<<ordered[i], ordered[k]>> : k \in i + 1 .. j}
<1>1. n \in Nat /\ n \in Int /\ i \in Int /\ i <= n /\ \A j \in i .. n : ordered[j] \in M
  OBVIOUS
<1>2. Compared(ordered, i, forest) = joined[n]
  BY DEF Compared
<1>3. \A j \in i .. n : Done(j) \in SUBSET (M \X M)
  BY <1>1
<1>4. forest \in X
  BY JoinedLess
<1>5. ASSUME NEW f, NEW k \in i + 1 .. n, NEW E \in SUBSET (M \X M), Joined(M, E, f), f \in [M -> M]
      PROVE  Joined(M, E \cup {<<ordered[i], ordered[k]>>},
                    IF Matches(ordered[i], ordered[k]) THEN Union(f, ordered[i], ordered[k]) ELSE f)
  <2>1. ordered[i] \in M /\ ordered[k] \in M
    BY <1>1
  <2>2. CASE Matches(ordered[i], ordered[k])
    BY <1>5, <2>1, <2>2, UnionJoins
  <2>3. CASE ~Matches(ordered[i], ordered[k])
    <3>1. PICK root \in [M -> M], height \in [M -> Nat] :
            /\ Tree(M, f, root, height) /\ Whole(M, root)
            /\ \A e \in E : Matches(e[1], e[2]) => root[e[1]] = root[e[2]]
      BY <1>5 DEF Joined
    <3>2. \A e \in E \cup {<<ordered[i], ordered[k]>>} : Matches(e[1], e[2]) => root[e[1]] = root[e[2]]
      BY <2>3, <3>1
    <3>3. Joined(M, E \cup {<<ordered[i], ordered[k]>>}, f)
      BY <3>1, <3>2 DEF Joined
    <3> QED BY <2>3, <3>3
  <2> QED BY <2>2, <2>3
<1> HIDE DEF n
<1>6. StaysIn(i, n, X, step)
  <2> SUFFICES ASSUME NEW k \in i + 1 .. n, NEW f \in X PROVE step[<<k, f>>] \in X
    BY DEF StaysIn
  <2> DEFINE after == IF Matches(ordered[i], ordered[k]) THEN Union(f, ordered[i], ordered[k]) ELSE f
  <2>1. step[<<k, f>>] = after
    OBVIOUS
  <2>2. Joined(M, {} \cup {<<ordered[i], ordered[k]>>}, after)
    BY <1>5
  <2> HIDE DEF after, step
  <2> QED BY <2>1, <2>2, JoinedLess
<1>7. PICK g : g \in [i .. n -> X] /\ Follows(g, i, n, forest, step)
  <2> HIDE DEF X, step
  <2> QED BY <1>1, <1>4, <1>6, Recursive
<1>8. Is(g)
  <2>1. ASSUME NEW k \in i + 1 .. n
        PROVE  g[k] = IF Matches(ordered[i], ordered[k])
                        THEN Union(g[k - 1], ordered[i], ordered[k]) ELSE g[k - 1]
    <3>1. k - 1 \in i .. n /\ g[k - 1] \in X
      BY <1>1, <1>7
    <3> HIDE DEF X
    <3> QED BY <1>7, <3>1 DEF Follows
  <2> HIDE DEF X, step
  <2> QED BY <1>1, <1>7, <2>1 DEF Follows
<1>9. Is(joined)
  <2> HIDE DEF Is
  <2> QED BY <1>8
<1> HIDE DEF joined
<1> DEFINE good == {j \in i .. n : Joined(M, Done(j), joined[j])}
<1>10. i \in good
  <2>1. Done(i) = D
    BY <1>1
  <2>2. joined[i] = forest /\ i \in i .. n
    BY <1>1, <1>9
  <2> HIDE DEF Done
  <2> QED BY <2>1, <2>2
<1>11. ASSUME NEW k \in i + 1 .. n, k - 1 \in good PROVE k \in good
  <2> DEFINE f == joined[k - 1]
  <2>1. joined[k] = IF Matches(ordered[i], ordered[k]) THEN Union(f, ordered[i], ordered[k]) ELSE f
    BY <1>1, <1>9
  <2>2. Joined(M, Done(k - 1), f) /\ k - 1 \in i .. n
    BY <1>11
  <2>3. Done(k) = Done(k - 1) \cup {<<ordered[i], ordered[k]>>}
    <3>1. i + 1 .. k = (i + 1 .. k - 1) \cup {k}
      BY <1>1
    <3> QED BY <3>1
  <2> HIDE DEF f, Done
  <2>4. f \in [M -> M]
    BY <2>2, JoinedLess
  <2>5. Joined(M, Done(k - 1) \cup {<<ordered[i], ordered[k]>>}, joined[k])
    BY <1>3, <1>5, <2>1, <2>2, <2>4
  <2>6. k \in i .. n
    BY <1>1
  <2> QED BY <2>3, <2>5, <2>6
<1>12. n \in good
  <2> HIDE DEF good
  <2>1. \A k \in i .. n : k \in good
    BY <1>1, <1>10, <1>11, Upwards
  <2> QED BY <1>1, <2>1
<1> QED BY <1>2, <1>12 DEF n

\* The outer loop: every pair of photos is compared once.
LEMMA AllJoined ==
  ASSUME IsFiniteSet(Photos), effective \in [Photos -> Int], NEW M \in SUBSET Photos,
         ByTime(M) \in Seq(M)
  PROVE  LET ordered == ByTime(M) IN
         Joined(M, {e \in M \X M : \E a, b \in 1 .. Len(ordered) : a < b /\ e = <<ordered[a], ordered[b]>>},
                Forest(M))
<1> DEFINE ordered == ByTime(M)
           n == Len(ordered)
           first == [p \in M |-> p]
           Is(g) == g = [i \in 0 .. n |-> IF i = 0 THEN first ELSE Compared(ordered, i, g[i - 1])]
           after == CHOOSE g : Is(g)
           X == {f \in [M -> M] : Joined(M, {}, f)}
           step == [e \in (0 + 1 .. n) \X X |-> Compared(ordered, e[1], e[2])]
           Later(i) == {<<ordered[i], ordered[j]>> : j \in i + 1 .. n}
           Done(i) == {e \in M \X M : \E a, b \in 1 .. n : a < b /\ a <= i /\ e = <<ordered[a], ordered[b]>>}
<1>1. n \in Nat /\ n \in Int /\ 0 \in Int /\ 0 <= n /\ \A i \in 1 .. n : ordered[i] \in M
  OBVIOUS
<1>2. Forest(M) = after[n]
  BY DEF Forest
<1>3. Joined(M, {}, first) /\ first \in X
  BY AloneJoins
<1> HIDE DEF first, ordered
<1>4. ASSUME NEW f, NEW i \in 1 .. n, NEW E \in SUBSET (M \X M), Joined(M, E, f)
      PROVE  Joined(M, E \cup Later(i), Compared(ordered, i, f))
  BY <1>4, ComparedJoins DEF ordered
<1> HIDE DEF n
<1>5. StaysIn(0, n, X, step)
  <2> SUFFICES ASSUME NEW k \in 0 + 1 .. n, NEW f \in X PROVE step[<<k, f>>] \in X
    BY DEF StaysIn
  <2>1. step[<<k, f>>] = Compared(ordered, k, f) /\ k \in 1 .. n
    OBVIOUS
  <2>2. Joined(M, {} \cup Later(k), Compared(ordered, k, f))
    BY <1>4, <2>1
  <2> HIDE DEF step, Later
  <2> QED BY <2>1, <2>2, JoinedLess
<1>6. PICK g : g \in [0 .. n -> X] /\ Follows(g, 0, n, first, step)
  <2> HIDE DEF X, step
  <2> QED BY <1>1, <1>3, <1>5, Recursive
<1>7. Is(g)
  <2>1. ASSUME NEW k \in 1 .. n PROVE g[k] = Compared(ordered, k, g[k - 1])
    <3>1. k - 1 \in 0 .. n /\ g[k - 1] \in X /\ k \in 0 + 1 .. n
      BY <1>1, <1>6
    <3> HIDE DEF X
    <3> QED BY <1>6, <3>1 DEF Follows
  <2> HIDE DEF X, step
  <2> QED BY <1>1, <1>6, <2>1 DEF Follows
<1>8. Is(after)
  <2> HIDE DEF Is
  <2> QED BY <1>7
<1> HIDE DEF after
<1> DEFINE good == {i \in 0 .. n : Joined(M, Done(i), after[i])}
<1>9. 0 \in good
  <2>1. Done(0) = {}
    BY <1>1
  <2>2. after[0] = first /\ 0 \in 0 .. n
    BY <1>1, <1>8
  <2> HIDE DEF Done
  <2> QED BY <1>3, <2>1, <2>2
<1>10. ASSUME NEW k \in 0 + 1 .. n, k - 1 \in good PROVE k \in good
  <2>1. k \in 1 .. n /\ k \in 0 .. n /\ after[k] = Compared(ordered, k, after[k - 1])
    <3>1. k \in 1 .. n /\ k \in 0 .. n /\ k # 0
      BY <1>1
    <3> QED BY <1>8, <3>1
  <2>2. Joined(M, Done(k - 1), after[k - 1]) /\ Done(k - 1) \in SUBSET (M \X M)
    BY <1>10
  <2>3. Done(k) \in SUBSET (Done(k - 1) \cup Later(k))
    <3> SUFFICES ASSUME NEW e \in Done(k) PROVE e \in Done(k - 1) \/ e \in Later(k)
      OBVIOUS
    <3>1. PICK a \in 1 .. n, b \in 1 .. n : a < b /\ a <= k /\ e = <<ordered[a], ordered[b]>>
      OBVIOUS
    <3>2. CASE a = k
      <4>1. b \in k + 1 .. n
        BY <1>1, <3>1, <3>2
      <4> QED BY <3>1, <3>2, <4>1
    <3>3. CASE a # k
      <4>1. a <= k - 1
        BY <1>1, <3>1, <3>3
      <4> QED BY <3>1, <4>1
    <3> QED BY <3>2, <3>3
  <2> HIDE DEF Done, Later
  <2>4. Joined(M, Done(k - 1) \cup Later(k), after[k])
    BY <1>4, <2>1, <2>2
  <2> QED BY <2>1, <2>3, <2>4, JoinedLess
<1>11. n \in good
  <2> HIDE DEF good
  <2>1. \A k \in 0 .. n : k \in good
    BY <1>1, <1>9, <1>10, Upwards
  <2> QED BY <1>1, <2>1
<1>12. Done(n) = {e \in M \X M : \E a, b \in 1 .. n : a < b /\ e = <<ordered[a], ordered[b]>>}
  BY <1>1
<1> QED BY <1>2, <1>11, <1>12 DEF n, ordered

-----------------------------------------------------------------------------
(* Similar photos and clocks.                                              *)

\* The trip has finitely many photos, each with its place in the order of the rows,
\* times and scores are numbers, and a suggestion needs one match at least.
InOrder ==
  /\ Order \in Seq(Photos) /\ \A p \in Photos : \E i \in 1 .. Len(Order) : Order[i] = p
  /\ \A i, j \in 1 .. Len(Order) : Order[i] = Order[j] => i = j
SharingSetting ==
  /\ IsFiniteSet(Photos) /\ InOrder
  /\ CapturedAt \in [Photos -> Int] /\ Score \in [Photos -> Int]
  /\ MaxOffset \in Nat /\ MinSupport \in Nat /\ MinSupport >= 1 /\ MaxRuns \in Nat

Groups == [members : SUBSET Photos, representative : Photos, locked : BOOLEAN, run : Int]
Suggestions ==
  [device : Devices, offset : Offsets, status : {"open", "accepted", "rejected"}, run : Int]

\* The inductive invariant of the analyses and the choices.
SharingInv ==
  /\ ready \in SUBSET Photos /\ deleted \in SUBSET Photos
  /\ effective \in [Photos -> Int] /\ run \in 0 .. MaxRuns
  /\ accepted \in [Devices -> SUBSET Offsets] /\ \A d \in Devices : Cardinality(accepted[d]) <= 1
  /\ groups \in SUBSET Groups /\ \A g \in groups : g.representative \in g.members /\ g.run <= run
  /\ suggestions \in SUBSET Suggestions /\ \A s \in suggestions : s.run <= run
  /\ GroupsAreApart
  /\ CorrectionsDoNotAddUp

\* The k-th value exists: the least one that k of the elements do not exceed.
LEMMA RankedIsValue ==
  ASSUME NEW E, IsFiniteSet(E), NEW f, \A e \in E : f[e] \in Int,
         NEW k \in 1 .. Cardinality(E)
  PROVE  \E e \in E : Ranked(E, f, k) = f[e]
<1> DEFINE UpTo(v) == {e \in E : f[e] <= v}
           Below(v) == {e \in E : f[e] < v}
           G == {e \in E : Cardinality(UpTo(f[e])) >= k}
<1>1. Cardinality(E) \in Nat /\ E # {} /\ \A v : /\ IsFiniteSet(UpTo(v)) /\ Cardinality(UpTo(v)) \in Nat
                                      /\ IsFiniteSet(Below(v)) /\ Cardinality(Below(v)) \in Nat
  BY FS_Subset, FS_CardinalityType, FS_EmptySet
<1>2. G # {} /\ IsFiniteSet(G)
  <2>1. PICK e \in E : \A d \in E : f[d] <= f[e]
    BY <1>1, GreatestIn
  <2>2. UpTo(f[e]) = E
    BY <2>1
  <2>3. e \in G
    BY <2>2, <1>1
  <2> QED BY <2>3, FS_Subset
<1>3. PICK e \in G : \A d \in G : f[e] <= f[d]
  <2>1. \A d \in G : f[d] \in Int
    OBVIOUS
  <2> HIDE DEF G
  <2> QED BY <1>2, <2>1, LeastIn
<1>4. Cardinality(Below(f[e])) < k
  <2>1. CASE Below(f[e]) = {}
    BY <2>1, FS_EmptySet
  <2>2. CASE Below(f[e]) # {}
    <3>1. PICK b \in Below(f[e]) : \A d \in Below(f[e]) : f[d] <= f[b]
      <4>1. \A d \in Below(f[e]) : f[d] \in Int
        OBVIOUS
      <4> HIDE DEF Below
      <4> QED BY <1>1, <2>2, <4>1, GreatestIn
    <3>2. UpTo(f[b]) = Below(f[e])
      BY <3>1
    <3>3. b \in E /\ b \notin G
      BY <1>3, <3>1
    <3>4. ~(Cardinality(UpTo(f[b])) >= k)
      BY <3>3
    <3>5. k \in Int
      BY <1>1
    <3> HIDE DEF UpTo, Below
    <3>6. Cardinality(UpTo(f[b])) \in Int
      BY <1>1
    <3> QED BY <3>2, <3>4, <3>5, <3>6
  <2> QED BY <2>1, <2>2
<1> DEFINE Fits(v) == Cardinality({d \in E : f[d] < v}) < k /\ Cardinality({d \in E : f[d] <= v}) >= k
<1>5. e \in E /\ Fits(f[e])
  BY <1>3, <1>4
<1>6. \E v \in {f[d] : d \in E} : Fits(v)
  BY <1>5
<1>7. Ranked(E, f, k) = CHOOSE v \in {f[d] : d \in E} : Fits(v)
  BY DEF Ranked
<1> HIDE DEF Fits
<1>8. Ranked(E, f, k) \in {f[d] : d \in E}
  BY <1>6, <1>7
<1> QED BY <1>8

\* The offset of the matches of a device is one that may be accepted.
LEMMA OffsetIsBounded ==
  ASSUME SharingSetting, effective \in [Photos -> Int],
         NEW M \in SUBSET Photos, NEW d, Cardinality(Evidence(M, d)) >= MinSupport
  PROVE  Offset(Evidence(M, d)) \in Offsets
<1> DEFINE E == Evidence(M, d)
           f == [e \in E |-> Delta(e)]
           n == Cardinality(E)
<1>1. IsFiniteSet(E)
  <2>1. IsFiniteSet(M)
    BY FS_Subset DEF SharingSetting
  <2>2. IsFiniteSet(M \X M)
    BY <2>1, FS_Product
  <2> QED BY <2>2, FS_Subset DEF Evidence
<1>2. n \in Nat /\ n >= 1
  BY <1>1, FS_CardinalityType DEF SharingSetting
<1>3. \A e \in E : f[e] \in Int /\ -MaxOffset <= f[e] /\ f[e] <= MaxOffset
  BY DEF SharingSetting, Evidence, Delta, Absolute
<1>4. (n + 1) \div 2 \in 1 .. n /\ n \div 2 + 1 \in 1 .. n
  BY <1>2
<1>5. Offset(E) = Halved(Ranked(E, f, (n + 1) \div 2) + Ranked(E, f, n \div 2 + 1))
  BY DEF Offset, Median
<1> HIDE DEF E, f, n
<1>6. PICK a \in E : Ranked(E, f, (n + 1) \div 2) = f[a]
  BY <1>1, <1>3, <1>4, RankedIsValue DEF n
<1>7. PICK b \in E : Ranked(E, f, n \div 2 + 1) = f[b]
  BY <1>1, <1>3, <1>4, RankedIsValue DEF n
<1>8. ASSUME NEW x \in Int, NEW y \in Int, -MaxOffset <= x, x <= MaxOffset, -MaxOffset <= y, y <= MaxOffset
      PROVE  Halved(x + y) \in Offsets
  BY <1>8 DEF Halved, Offsets, SharingSetting
<1>9. Offset(E) \in Offsets
  BY <1>3, <1>5, <1>6, <1>7, <1>8
<1> QED BY <1>9 DEF E

\* An analysis makes groups with a representative of their own, apart from each other.
LEMMA GroupedApart ==
  ASSUME SharingSetting, run \in Int, NEW M \in SUBSET Photos
  PROVE  /\ Grouped(M) \in SUBSET Groups
         /\ \A g \in Grouped(M) : g.representative \in g.members /\ g.run = run + 1 /\ ~g.locked
         /\ \A g, h \in Grouped(M) : g # h => g.members \cap h.members = {}
<1> DEFINE Twins == Duplicates(M)
           Alikes == Similar(SimilarCandidates(M))
           Made(S) == [members |-> S, representative |-> Best(S), locked |-> FALSE, run |-> run + 1]
<1>1. /\ Twins \in SUBSET SUBSET M
      /\ \A S \in Twins : Cardinality(S) > 1
      /\ \A S, T \in Twins : S # T => S \cap T = {}
  BY DEF Duplicates
<1>2. SimilarCandidates(M) \in SUBSET M /\ \A S \in Twins : S \cap SimilarCandidates(M) = {}
  BY <1>1 DEF SimilarCandidates
<1>3. /\ Alikes \in SUBSET SUBSET SimilarCandidates(M)
      /\ \A S \in Alikes : Cardinality(S) > 1
      /\ \A S, T \in Alikes : S # T => S \cap T = {}
  BY DEF Similar
<1> HIDE DEF Twins, Alikes
<1>4. ASSUME NEW S \in Twins \cup Alikes PROVE S \in SUBSET Photos /\ Best(S) \in S
  <2>1. S \in SUBSET Photos /\ Cardinality(S) > 1
    BY <1>1, <1>2, <1>3
  <2>2. IsFiniteSet(S) /\ S # {}
    BY <2>1, FS_Subset, FS_EmptySet DEF SharingSetting
  <2>3. \A p \in S : Score[p] \in Int
    BY <2>1 DEF SharingSetting
  <2>4. \E p \in S : \A q \in S : Score[q] <= Score[p]
    BY <2>2, <2>3, GreatestIn
  <2> QED BY <2>1, <2>4 DEF Best
<1>5. \A S, T \in Twins \cup Alikes : S # T => S \cap T = {}
  BY <1>1, <1>2, <1>3
<1>6. Grouped(M) = {Made(S) : S \in Twins \cup Alikes}
  BY DEF Grouped, Twins, Alikes
<1>7. ASSUME NEW S \in Twins \cup Alikes
      PROVE  Made(S) \in Groups /\ Made(S).members = S /\ Made(S).representative \in S
             /\ Made(S).run = run + 1 /\ ~Made(S).locked
  BY <1>4 DEF Groups
<1> HIDE DEF Made
<1> QED BY <1>5, <1>6, <1>7

\* An analysis suggests offsets in bounds, for its own run.
LEMMA SuggestedTyped ==
  ASSUME SharingSetting, run \in Int, effective \in [Photos -> Int], NEW M \in SUBSET Photos
  PROVE  Suggested(M) \in SUBSET Suggestions /\ \A s \in Suggested(M) : s.run = run + 1
<1>1. ASSUME NEW d \in Devices, Cardinality(Evidence(M, d)) >= MinSupport
      PROVE  Offset(Evidence(M, d)) \in Offsets
  BY <1>1, OffsetIsBounded
<1> QED BY <1>1 DEF Suggested, Suggestions

\* Every upload, deletion, analysis and choice keeps the invariant: analyses replace
\* only what nobody has decided, and an accepted offset stays with its suggestion.
THEOREM SharingHolds == SharingSetting => (Spec => []SharingInv)
<1> SUFFICES ASSUME SharingSetting PROVE Spec => []SharingInv
  OBVIOUS
<1>1. Init => SharingInv
  <2> SUFFICES ASSUME Init PROVE SharingInv
    OBVIOUS
  <2>1. \A d \in Devices : accepted[d] = {} /\ Cardinality(accepted[d]) = 0
    BY FS_EmptySet DEF Init
  <2> QED BY <2>1 DEF Init, SharingInv, SharingSetting, GroupsAreApart, CorrectionsDoNotAddUp, Latest
<1>2. ASSUME SharingInv, [Next]_vars PROVE SharingInv'
  <2> USE <1>2 DEF SharingInv
  <2> DEFINE SameGroups == groups' = groups /\ run' = run
             SameTimes == effective' = effective
  <2>1. CASE UNCHANGED vars
    BY <2>1 DEF vars, GroupsAreApart, CorrectionsDoNotAddUp, Latest
  <2>2. ASSUME NEW p \in Photos, Ingest(p) \/ DeleteMedia(p) PROVE SharingInv'
    BY <2>2 DEF Ingest, DeleteMedia, Media, GroupsAreApart, CorrectionsDoNotAddUp, Latest
  <2>3. CASE Analyze
    <3>1. /\ run' = run + 1 /\ run \in Nat /\ run < MaxRuns /\ MaxRuns \in Nat
          /\ groups' = Kept.groups \cup Grouped(Media)
          /\ suggestions' = Kept.suggestions \cup Suggested(Media)
          /\ UNCHANGED <<ready, deleted, effective, accepted>>
      BY <2>3 DEF Analyze, SharingSetting
    <3>2. Media \in SUBSET Photos
      BY DEF Media
    <3>3. /\ Grouped(Media) \in SUBSET Groups
          /\ \A g \in Grouped(Media) : g.representative \in g.members /\ g.run = run + 1
          /\ \A g, h \in Grouped(Media) : g # h => g.members \cap h.members = {}
      BY <3>1, <3>2, GroupedApart
    <3>4. Suggested(Media) \in SUBSET Suggestions /\ \A s \in Suggested(Media) : s.run = run + 1
      BY <3>1, <3>2, SuggestedTyped
    <3>5. Kept.groups \in SUBSET groups
          /\ \A s : s \in Kept.suggestions <=> s \in suggestions /\ s.status # "open"
      BY DEF Kept
    <3>6. \A g \in groups' : g \in groups \/ g \in Grouped(Media)
      BY <3>1, <3>5
    <3>7. \A s \in suggestions' : s \in suggestions \/ s \in Suggested(Media)
      BY <3>1, <3>5
    <3>8. groups' \in SUBSET Groups /\ \A g \in groups' : g.representative \in g.members /\ g.run <= run'
      BY <3>1, <3>3, <3>6 DEF Groups
    <3>9. suggestions' \in SUBSET Suggestions /\ \A s \in suggestions' : s.run <= run'
      BY <3>1, <3>4, <3>7 DEF Suggestions
    <3>10. GroupsAreApart'
      <4>1. ASSUME NEW g \in groups', g.run = run' PROVE g \in Grouped(Media)
        BY <3>1, <3>6, <4>1 DEF Groups
      <4> QED BY <3>3, <4>1 DEF GroupsAreApart, Latest
    <3>11. CorrectionsDoNotAddUp'
      BY <3>1, <3>5 DEF CorrectionsDoNotAddUp
    <3> QED BY <3>1, <3>8, <3>9, <3>10, <3>11
  <2>4. ASSUME NEW s \in suggestions, Accept(s) PROVE SharingInv'
    <3> DEFINE t == [s EXCEPT !.status = "accepted"]
    <3>1. s \in Suggestions /\ s.device \in Devices /\ s.offset \in Offsets
      BY DEF Suggestions
    <3>2. /\ t \in Suggestions /\ t.run = s.run /\ t.device = s.device /\ t.offset = s.offset
          /\ t.status = "accepted"
      BY <3>1 DEF Suggestions
    <3>3. suggestions' = (suggestions \ {s}) \cup {t}
      BY <2>4 DEF Accept
    <3> HIDE DEF t
    <3>4. accepted' \in [Devices -> SUBSET Offsets] /\ \A d \in Devices : Cardinality(accepted'[d]) <= 1
      <4>1. accepted' = [accepted EXCEPT ![s.device] = {s.offset}]
        BY <2>4 DEF Accept
      <4>2. Cardinality({s.offset}) = 1
        BY FS_Singleton
      <4> QED BY <3>1, <4>1, <4>2
    <3>5. \A p \in Photos : effective'[p] = (IF p \in Media /\ DeviceOf[p] = s.device
                                             THEN CapturedAt[p] + s.offset ELSE effective[p])
      BY <2>4 DEF Accept, Corrected
    <3>6. effective' \in [Photos -> Int]
      BY <2>4, <3>1 DEF Accept, Corrected, Offsets, SharingSetting
    <3>7. UNCHANGED <<ready, deleted, groups, run>>
      BY <2>4 DEF Accept
    <3>8. GroupsAreApart'
      BY <3>7 DEF GroupsAreApart, Latest
    <3>9. CorrectionsDoNotAddUp'
      <4> SUFFICES ASSUME NEW p \in Photos, effective'[p] # CapturedAt[p]
                   PROVE  \E u \in suggestions' : u.device = DeviceOf[p] /\ u.status # "open"
                            /\ effective'[p] = CapturedAt[p] + u.offset
        BY DEF CorrectionsDoNotAddUp
      <4>1. CASE p \in Media /\ DeviceOf[p] = s.device
        BY <3>2, <3>3, <3>5, <4>1
      <4>2. CASE ~(p \in Media /\ DeviceOf[p] = s.device)
        <5>1. PICK u \in suggestions : u.device = DeviceOf[p] /\ u.status # "open"
                                       /\ effective'[p] = CapturedAt[p] + u.offset
          BY <3>5, <4>2 DEF CorrectionsDoNotAddUp
        <5> QED BY <3>2, <3>3, <5>1
      <4> QED BY <4>1, <4>2
    <3> QED BY <3>2, <3>3, <3>4, <3>6, <3>7, <3>8, <3>9
  <2>5. ASSUME NEW s \in suggestions, Reject(s) PROVE SharingInv'
    <3> DEFINE t == [s EXCEPT !.status = "rejected"]
    <3>1. s \in Suggestions
      OBVIOUS
    <3>2. /\ t \in Suggestions /\ t.run = s.run /\ t.device = s.device /\ t.offset = s.offset
          /\ t.status = "rejected"
      BY <3>1 DEF Suggestions
    <3>3. suggestions' = (suggestions \ {s}) \cup {t} /\ UNCHANGED <<ready, deleted, effective, accepted, groups, run>>
      BY <2>5 DEF Reject
    <3> HIDE DEF t
    <3>4. GroupsAreApart'
      BY <3>3 DEF GroupsAreApart, Latest
    <3>5. CorrectionsDoNotAddUp'
      BY <3>2, <3>3 DEF CorrectionsDoNotAddUp
    <3> QED BY <3>2, <3>3, <3>4, <3>5
  <2>6. ASSUME NEW g \in groups, NEW p \in Photos, SelectRepresentative(g, p) PROVE SharingInv'
    <3> DEFINE h == [g EXCEPT !.representative = p, !.locked = TRUE]
    <3>1. g \in Groups /\ p \in g.members
      BY <2>6 DEF SelectRepresentative
    <3>2. h \in Groups /\ h.run = g.run /\ h.members = g.members /\ h.representative = p
      BY <3>1 DEF Groups
    <3>3. groups' = (groups \ {g}) \cup {h} /\ UNCHANGED <<ready, deleted, effective, accepted, suggestions, run>>
      BY <2>6 DEF SelectRepresentative
    <3> HIDE DEF h
    <3>4. GroupsAreApart'
      BY <3>2, <3>3 DEF GroupsAreApart, Latest
    <3>5. CorrectionsDoNotAddUp'
      BY <3>3 DEF CorrectionsDoNotAddUp
    <3> QED BY <3>1, <3>2, <3>3, <3>4, <3>5
  <2> QED BY <2>1, <2>2, <2>3, <2>4, <2>5, <2>6 DEF Next
<1> QED BY <1>1, <1>2, PTL DEF Spec

\* Whatever is uploaded, deleted, analysed, accepted and chosen, in any order: the
\* groups of an analysis have no photo in common.
THEOREM GroupsApart == SharingSetting => (Spec => []GroupsAreApart)
<1>1. SharingInv => GroupsAreApart
  BY DEF SharingInv
<1> QED BY <1>1, SharingHolds, PTL

\* And a photo is never moved by more than one offset.
THEOREM CorrectedOnce == SharingSetting => (Spec => []CorrectionsDoNotAddUp)
<1>1. SharingInv => CorrectionsDoNotAddUp
  BY DEF SharingInv
<1> QED BY <1>1, SharingHolds, PTL

\* Types, with one accepted offset of a device at most and none out of bounds.
THEOREM TypeCorrect == SharingSetting => (Spec => []TypeOK)
<1>1. SharingInv => TypeOK
  BY DEF SharingInv, TypeOK, Groups, Suggestions
<1> QED BY <1>1, SharingHolds, PTL

\* An analysis deletes no group or suggestion that a person has decided.
THEOREM ChoicesKept == SharingSetting => (Spec => ChoicesSurviveAnalysis)
<1> SUFFICES ASSUME SharingSetting PROVE Spec => ChoicesSurviveAnalysis
  OBVIOUS
<1>1. ASSUME SharingInv, [Next]_vars PROVE [ChoicesStay]_vars
  <2> SUFFICES ASSUME run' # run PROVE ChoicesStay
    BY DEF ChoicesStay
  <2>1. Analyze
    BY <1>1 DEF Next, vars, Ingest, DeleteMedia, Accept, Reject, SelectRepresentative
  <2> QED BY <2>1 DEF Analyze, Kept, ChoicesStay
<1> QED BY <1>1, SharingHolds, PTL DEF Spec, ChoicesSurviveAnalysis

\* load_media puts the photos in a line: no two come at once.
LEMMA BeforeIsLinear ==
  ASSUME SharingSetting, effective \in [Photos -> Int]
  PROVE  /\ \A p, q \in Photos : p # q => Before(p, q) \/ Before(q, p)
         /\ \A p \in Photos : ~Before(p, p)
         /\ \A p, q, r \in Photos : Before(p, q) /\ Before(q, r) => Before(p, r)
<1>1. PICK place \in [Photos -> 1 .. Len(Order)] : \A p \in Photos : Order[place[p]] = p
  <2> DEFINE place == [p \in Photos |-> CHOOSE i \in 1 .. Len(Order) : Order[i] = p]
  <2>1. \A p \in Photos : place[p] \in 1 .. Len(Order) /\ Order[place[p]] = p
    BY DEF SharingSetting, InOrder
  <2>2. place \in [Photos -> 1 .. Len(Order)]
    BY <2>1
  <2> QED BY <2>1, <2>2
<1>2. Len(Order) \in Nat /\ DOMAIN Order = 1 .. Len(Order)
  BY DEF SharingSetting, InOrder
<1>3. \A p, q \in Photos : Before(p, q) <=>
        effective[p] < effective[q] \/ (effective[p] = effective[q] /\ place[p] < place[q])
  <2> SUFFICES ASSUME NEW p \in Photos, NEW q \in Photos
               PROVE  (\E i, j \in DOMAIN Order : i < j /\ Order[i] = p /\ Order[j] = q) <=> place[p] < place[q]
    BY DEF Before
  <2>1. place[p] \in 1 .. Len(Order) /\ place[q] \in 1 .. Len(Order) /\ Order[place[p]] = p /\ Order[place[q]] = q
    BY <1>1
  <2>2. ASSUME NEW i \in DOMAIN Order, NEW j \in DOMAIN Order, Order[i] = p, Order[j] = q
        PROVE  i = place[p] /\ j = place[q]
    BY <1>2, <2>1, <2>2 DEF SharingSetting, InOrder
  <2> QED BY <1>2, <2>1, <2>2
<1>4. \A p \in Photos : place[p] \in Int /\ effective[p] \in Int
  BY <1>1, <1>2
<1>5. \A p, q \in Photos : place[p] = place[q] => p = q
  BY <1>1
<1> QED BY <1>3, <1>4, <1>5

\* Each photo is listed.
LEMMA ByTimeLists ==
  ASSUME SharingSetting, effective \in [Photos -> Int], NEW M \in SUBSET Photos
  PROVE  ByTime(M) \in Seq(M) /\ \A p \in M : \E k \in 1 .. Len(ByTime(M)) : ByTime(M)[k] = p
<1> DEFINE n == Cardinality(M)
           Earlier(p) == {q \in M : Before(q, p)}
           rank == [p \in M |-> Cardinality(Earlier(p))]
<1>1. IsFiniteSet(M) /\ n \in Nat /\ \A p \in M : IsFiniteSet(Earlier(p)) /\ Cardinality(Earlier(p)) \in Nat
  BY FS_Subset, FS_CardinalityType DEF SharingSetting
<1>2. ASSUME NEW p \in M, NEW q \in M, Before(p, q) PROVE rank[p] < rank[q]
  <2>1. Earlier(p) \in SUBSET Earlier(q) /\ p \in Earlier(q) /\ p \notin Earlier(p)
    BY <1>2, BeforeIsLinear
  <2>2. Cardinality(Earlier(p)) <= Cardinality(Earlier(q)) /\ Cardinality(Earlier(p)) # Cardinality(Earlier(q))
    <3> HIDE DEF Earlier
    <3> QED BY <1>1, <2>1, FS_Subset
  <2> HIDE DEF Earlier
  <2> QED BY <1>1, <2>2
<1>3. \A p \in M : rank[p] \in Nat /\ rank[p] <= n - 1
  <2> SUFFICES ASSUME NEW p \in M PROVE Cardinality(Earlier(p)) \in Nat /\ Cardinality(Earlier(p)) <= n - 1
    OBVIOUS
  <2>1. Earlier(p) \in SUBSET M /\ p \notin Earlier(p)
    BY BeforeIsLinear
  <2>2. Cardinality(Earlier(p)) <= n /\ Cardinality(Earlier(p)) # n
    <3> HIDE DEF Earlier
    <3> QED BY <1>1, <2>1, FS_Subset
  <2> HIDE DEF Earlier, n
  <2> QED BY <1>1, <2>2
<1>4. ASSUME NEW p \in M, NEW q \in M, rank[p] = rank[q] PROVE p = q
  <2>1. p # q => Before(p, q) \/ Before(q, p)
    BY BeforeIsLinear
  <2> HIDE DEF rank
  <2> QED BY <1>2, <1>3, <1>4, <2>1
<1>5. \A k \in 0 .. n - 1 : \E p \in M : rank[p] = k
  <2>1. rank \in [M -> 0 .. n - 1]
    <3> HIDE DEF n
    <3>1. \A p \in M : rank[p] \in 0 .. n - 1
      <4> HIDE DEF rank
      <4> QED BY <1>1, <1>3
    <3> QED BY <3>1
  <2>2. IsFiniteSet(0 .. n - 1) /\ Cardinality(0 .. n - 1) = n
    <3> HIDE DEF n
    <3>1. 0 \in Int /\ n - 1 \in Int
      BY <1>1
    <3>2. Cardinality(0 .. n - 1) = (IF 0 > n - 1 THEN 0 ELSE n - 1 - 0 + 1)
      BY <3>1, FS_Interval
    <3> QED BY <1>1, <3>1, <3>2, FS_Interval
  <2> HIDE DEF rank
  <2>3. rank \in Injection(M, 0 .. n - 1)
    BY <1>4, <2>1 DEF Injection, IsInjective
  <2>4. rank \in Surjection(M, 0 .. n - 1)
    BY <2>2, <2>3, FS_Injection
  <2> QED BY <2>4 DEF Surjection
<1> DEFINE o == ByTime(M)
<1>6. /\ o = [k \in 1 .. n |-> CHOOSE p \in M : Cardinality(Earlier(p)) = k - 1]
      /\ \A p \in M : rank[p] = Cardinality(Earlier(p))
  BY DEF ByTime
<1> HIDE DEF rank, n, o, Earlier
<1>7. ASSUME NEW k \in 1 .. n PROVE o[k] \in M /\ rank[o[k]] = k - 1
  <2>1. k - 1 \in 0 .. n - 1
    BY <1>1
  <2>2. \E p \in M : Cardinality(Earlier(p)) = k - 1
    BY <1>5, <1>6, <2>1
  <2> QED BY <1>6, <2>2
<1>8. o \in Seq(M) /\ Len(o) = n
  <2>1. o \in [1 .. n -> M]
    BY <1>6, <1>7
  <2> QED BY <1>1, <2>1
<1>9. ASSUME NEW p \in M PROVE \E k \in 1 .. n : o[k] = p
  <2>1. rank[p] + 1 \in 1 .. n /\ (rank[p] + 1) - 1 = rank[p]
    BY <1>1, <1>3
  <2> QED BY <1>4, <1>7, <2>1
<1> QED BY <1>8, <1>9 DEF o

\* No match is left between two sets, and no set falls apart.
LEMMA ForestHolds ==
  ASSUME SharingInv, SharingSetting PROVE ForestIsComponents
<1> DEFINE M == SimilarCandidates(Media)
           forest == Forest(M)
           ordered == ByTime(M)
           roots == [p \in M |-> Root(forest, p)]
           ClassOf(p) == {q \in M : roots[q] = roots[p]}
           sets == Similar(M)
           D == {e \in M \X M : \E a, b \in 1 .. Len(ordered) : a < b /\ e = <<ordered[a], ordered[b]>>}
<1>1. M \in SUBSET Photos /\ effective \in [Photos -> Int] /\ IsFiniteSet(Photos) /\ IsFiniteSet(M)
  <2>1. M \in SUBSET Photos /\ IsFiniteSet(Photos)
    BY DEF SharingInv, SharingSetting, SimilarCandidates, Media
  <2> QED BY <2>1, FS_Subset DEF SharingInv
<1>2. sets = {S \in {ClassOf(p) : p \in M} : Cardinality(S) > 1}
  BY DEF Similar
<1>3. ForestIsComponents <=>
        /\ \A p, q \in M : p # q /\ Matches(p, q) => q \in UNION {S \in sets : p \in S}
        /\ \A S \in sets : \A half \in (SUBSET S) \ {{}, S} : \E p \in half, q \in S \ half : Matches(p, q)
  BY DEF ForestIsComponents
<1> HIDE DEF M, sets
<1>4. ordered \in Seq(M) /\ \A p \in M : \E k \in 1 .. Len(ordered) : ordered[k] = p
  BY <1>1, ByTimeLists
<1>5. Joined(M, D, forest)
  BY <1>1, <1>4, AllJoined
<1>6. PICK root \in [M -> M], height \in [M -> Nat] :
        /\ Tree(M, forest, root, height) /\ Whole(M, root)
        /\ \A e \in D : Matches(e[1], e[2]) => root[e[1]] = root[e[2]]
  BY <1>5 DEF Joined
<1>7. \A p \in M : roots[p] = root[p]
  BY <1>1, <1>6, RootIsFound
<1> HIDE DEF forest, roots
<1>8. ASSUME NEW p \in M, NEW q \in M, p # q, Matches(p, q) PROVE root[p] = root[q]
  <2>1. PICK a \in 1 .. Len(ordered) : ordered[a] = p
    BY <1>4
  <2>2. PICK b \in 1 .. Len(ordered) : ordered[b] = q
    BY <1>4
  <2>3. a # b /\ a \in Int /\ b \in Int
    BY <1>8, <2>1, <2>2
  <2>4. CASE a < b
    <3>1. <<p, q>> \in D
      BY <2>1, <2>2, <2>4
    <3> QED BY <1>6, <1>8, <3>1
  <2>5. CASE b < a
    <3>1. <<q, p>> \in D
      BY <2>1, <2>2, <2>5
    <3>2. Matches(q, p)
      BY <1>1, <1>8, MatchesBothWays
    <3> QED BY <1>6, <3>1, <3>2
  <2> QED BY <2>3, <2>4, <2>5
<1>9. ASSUME NEW p \in M, NEW q \in M, p # q, Matches(p, q) PROVE q \in UNION {S \in sets : p \in S}
  <2>1. p \in ClassOf(p) /\ q \in ClassOf(p)
    BY <1>7, <1>8, <1>9
  <2>2. Cardinality(ClassOf(p)) > 1
    <3>1. ClassOf(p) \in SUBSET M /\ {p, q} \in SUBSET ClassOf(p)
      BY <2>1
    <3> HIDE DEF ClassOf
    <3>2. IsFiniteSet(ClassOf(p)) /\ Cardinality(ClassOf(p)) \in Nat
      BY <1>1, <3>1, FS_Subset, FS_CardinalityType
    <3>3. Cardinality(ClassOf(p)) # 0 /\ Cardinality(ClassOf(p)) # 1
      BY <1>9, <2>1, <3>2, FS_EmptySet, FS_Singleton
    <3> QED BY <3>2, <3>3
  <2> HIDE DEF ClassOf
  <2> QED BY <1>2, <2>1, <2>2
<1>10. ASSUME NEW S \in sets, NEW half \in (SUBSET S) \ {{}, S}
       PROVE  \E p \in half, q \in S \ half : Matches(p, q)
  <2>1. PICK c \in M : S = ClassOf(c)
    BY <1>2
  <2>2. \A x : x \in S <=> x \in M /\ root[x] = root[c]
    BY <1>7, <2>1
  <2>3. PICK a \in half : TRUE
    BY <1>10
  <2>4. PICK b \in S : b \notin half
    BY <1>10
  <2>5. half \in SUBSET M /\ b \in M \ half /\ root[a] = root[b] /\ root[a] = root[c]
    BY <1>10, <2>2, <2>3, <2>4
  <2>6. PICK p \in half, q \in M \ half : Matches(p, q) /\ root[p] = root[a] /\ root[q] = root[a]
    <3>1. \A h \in SUBSET M : \A x \in h, y \in M \ h : root[x] = root[y] =>
            \E p \in h, q \in M \ h : Matches(p, q) /\ root[p] = root[x] /\ root[q] = root[x]
      BY <1>6 DEF Whole
    <3>2. half \in SUBSET M /\ a \in half /\ b \in M \ half /\ root[a] = root[b]
      BY <2>3, <2>5
    <3> QED BY ONLY <3>1, <3>2
  <2> QED BY <2>2, <2>5, <2>6
<1> QED BY <1>3, <1>9, <1>10

\* For any number of photos and any matches between them, the unions of an analysis
\* make the connected components, whatever the order of the photos.
THEOREM ForestTrue == SharingSetting => (Spec => []ForestIsComponents)
<1> SUFFICES ASSUME SharingSetting PROVE Spec => []ForestIsComponents
  OBVIOUS
<1>1. SharingInv => ForestIsComponents
  BY ForestHolds
<1> QED BY <1>1, SharingHolds, PTL
===============================================================================
