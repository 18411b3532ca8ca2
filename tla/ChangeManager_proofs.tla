------------------------ MODULE ChangeManager_proofs ------------------------
(***************************************************************************)
(* Change by denomination: the planner finds change exactly when there is  *)
(* some, every coin that is booked is there, the books differ from the     *)
(* machine only where they say so, and a sale that was accepted finds its  *)
(* change; for any purchases, denominations, bills, prices and loads.      *)
(*                                                                         *)
(* The operators of the model are recursive functions and sums over        *)
(* functions.  What they compute is shown by induction over sets instead   *)
(* of predicates (AllNaturals, AllSubsets): a set that is closed is all of *)
(* Nat, or has every subset of a finite set.                               *)
(***************************************************************************)
EXTENDS ChangeManager, FiniteSetTheorems, TLAPS

-----------------------------------------------------------------------------
(* Induction over naturals and over the subsets of a finite set, recursion *)
(* over those subsets, and the sums and maxima of the library.             *)

LEMMA AllNaturals ==
    ASSUME NEW G, 0 \in G, \A n \in Nat : n \in G => n + 1 \in G
    PROVE  Nat \subseteq G
<1> DEFINE R == OpToRel(<, Nat)
<1> SUFFICES ASSUME Nat \ G # {} PROVE FALSE
  OBVIOUS
<1>1. PICK m \in Nat \ G : \A n \in Nat \ G : ~(<<n, m>> \in R)
  <2> HIDE DEF R
  <2>1. IsWellFoundedOn(R, Nat)
    BY NatLessThanWellFounded DEF R
  <2>. QED
    BY <2>1, WFMin, Zenon
<1>2. m # 0 /\ m - 1 \in Nat /\ (m - 1) + 1 = m
  OBVIOUS
<1>3. m - 1 \notin G
  BY <1>2
<1>4. <<m - 1, m>> \in R
  BY <1>2 DEF OpToRel
<1>. QED
  BY <1>1, <1>2, <1>3, <1>4

LEMMA AllSubsets ==
    ASSUME NEW D, IsFiniteSet(D), NEW G,
           \A T \in SUBSET D : (\A x \in T : T \ {x} \in G) => T \in G
    PROVE  SUBSET D \subseteq G
<1> DEFINE Sizes == {n \in Nat : \A T \in SUBSET D : Cardinality(T) = n => T \in G}
<1>1. \A T \in SUBSET D : IsFiniteSet(T) /\ Cardinality(T) \in Nat
  BY FS_Subset, FS_CardinalityType
<1>2. 0 \in Sizes
  <2> SUFFICES ASSUME NEW T \in SUBSET D, Cardinality(T) = 0 PROVE T \in G
    OBVIOUS
  <2>1. T = {}
    BY <1>1, FS_EmptySet
  <2>. QED
    BY <2>1
<1>3. ASSUME NEW n \in Nat, n \in Sizes PROVE n + 1 \in Sizes
  <2> SUFFICES ASSUME NEW T \in SUBSET D, Cardinality(T) = n + 1 PROVE T \in G
    OBVIOUS
  <2>1. ASSUME NEW x \in T PROVE T \ {x} \in G
    <3>1. Cardinality(T \ {x}) = n /\ T \ {x} \in SUBSET D
      <4>1. Cardinality(T \ {x}) = (n + 1) - 1
        BY <1>1, FS_RemoveElement
      <4>. QED
        BY <4>1
    <3>. QED
      BY <1>3, <3>1
  <2>. QED
    BY <2>1
<1> HIDE DEF Sizes
<1>4. Nat \subseteq Sizes
  BY <1>2, <1>3, AllNaturals
<1>. QED
  BY <1>1, <1>4 DEF Sizes

Recursive(f, D, base, pick, step) ==
    /\ f[{}] = base
    /\ \A T \in SUBSET D : T # {} => f[T] = step[<<T, f[T \ {pick[T]}]>>]

LEMMA RecursionOnSubsets ==
    ASSUME NEW D, IsFiniteSet(D), NEW V, NEW base \in V,
           NEW pick, \A T \in SUBSET D : T # {} => pick[T] \in T,
           NEW step \in [(SUBSET D) \X V -> V]
    PROVE  \E f \in [SUBSET D -> V] : Recursive(f, D, base, pick, step)
<1> DEFINE Small(n) == {T \in SUBSET D : Cardinality(T) <= n}
           Fits(f, n) == /\ f[{}] = base
                         /\ \A T \in Small(n) : T # {} => f[T] = step[<<T, f[T \ {pick[T]}]>>]
           Sizes == {n \in Nat : \E f \in [Small(n) -> V] : Fits(f, n)}
<1>1. \A T \in SUBSET D : IsFiniteSet(T) /\ Cardinality(T) \in Nat
  BY FS_Subset, FS_CardinalityType
<1>2. {} \in SUBSET D /\ Cardinality({}) = 0
  BY FS_EmptySet
<1>3. 0 \in Sizes
  <2> DEFINE f == [T \in Small(0) |-> base]
  <2>1. \A T \in Small(0) : T = {}
    BY <1>1, FS_EmptySet
  <2>2. f \in [Small(0) -> V] /\ Fits(f, 0)
    BY <1>2, <2>1
  <2>. QED
    BY <2>2
<1>4. ASSUME NEW n \in Nat, n \in Sizes PROVE n + 1 \in Sizes
  <2>1. PICK f \in [Small(n) -> V] : Fits(f, n)
    BY <1>4
  <2> DEFINE g == [T \in Small(n + 1) |->
                      IF T \in Small(n) THEN f[T] ELSE step[<<T, f[T \ {pick[T]}]>>]]
  <2>2. ASSUME NEW T \in Small(n + 1), T # {}
        PROVE  T \ {pick[T]} \in Small(n) /\ T \ {pick[T]} \in Small(n + 1)
    <3>1. Cardinality(T \ {pick[T]}) = Cardinality(T) - 1 /\ T \ {pick[T]} \in SUBSET D
      BY <1>1, <2>2, FS_RemoveElement
    <3>. QED
      BY <1>1, <3>1
  <2>3. {} \in Small(n) /\ {} \in Small(n + 1)
    BY <1>2
  <2>4. ASSUME NEW T \in Small(n + 1), T # {}
        PROVE  g[T] = step[<<T, g[T \ {pick[T]}]>>] /\ g[T] \in V
    <3> HIDE DEF Small
    <3>1. g[T \ {pick[T]}] = f[T \ {pick[T]}] /\ f[T \ {pick[T]}] \in V
      BY <2>2, <2>4
    <3>2. T \in SUBSET D
      BY DEF Small
    <3>3. g[T] = step[<<T, f[T \ {pick[T]}]>>]
      BY <2>1, <2>4
    <3>4. step[<<T, f[T \ {pick[T]}]>>] \in V
      BY <3>1, <3>2
    <3>. QED
      BY <3>1, <3>3, <3>4
  <2>5. g[{}] = base
    <3> HIDE DEF Small
    <3>. QED
      BY <2>1, <2>3
  <2>6. g \in [Small(n + 1) -> V]
    <3> HIDE DEF Small
    <3>1. \A T \in Small(n + 1) : g[T] \in V
      <4> HIDE DEF g
      <4>. QED
        BY <2>4, <2>5
    <3>. QED
      BY <3>1
  <2>7. Fits(g, n + 1)
    <3> HIDE DEF g, Small
    <3>. QED
      BY <2>4, <2>5
  <2>. QED
    <3> HIDE DEF g, Fits, Small
    <3>. QED
      BY <2>6, <2>7
<1> HIDE DEF Sizes
<1>5. Nat \subseteq Sizes
  BY <1>3, <1>4, AllNaturals
<1>6. Small(Cardinality(D)) = SUBSET D
  BY <1>1, FS_Subset
<1>7. PICK f \in [Small(Cardinality(D)) -> V] : Fits(f, Cardinality(D))
  <2>1. Cardinality(D) \in Sizes
    BY <1>1, <1>5
  <2>. QED
    BY <2>1 DEF Sizes
<1> HIDE DEF Small
<1>8. f \in [SUBSET D -> V]
  BY <1>6, <1>7
<1>. QED
  BY <1>6, <1>7, <1>8 DEF Recursive

Some(T) == CHOOSE x \in T : TRUE

\* s has the sums of f over the subsets of D.
SumsUp(s, f, D) ==
    /\ SumFunction(f) = s[D] /\ s[{}] = 0
    /\ \A T \in SUBSET D : T # {} => Some(T) \in T /\ s[T] = f[Some(T)] + s[T \ {Some(T)}]

LEMMA SumIsRecursive ==
    ASSUME NEW D, IsFiniteSet(D), NEW f \in [D -> Int]
    PROVE  \E s : SumsUp(s, f, D)
<1> DEFINE Body(s) == [T \in SUBSET D |-> IF T = {} THEN 0
                                          ELSE f[Some(T)] + s[T \ {Some(T)}]]
<1>1. \A T \in SUBSET D : T # {} => Some(T) \in T
  BY DEF Some
<1>2. \E s : s = Body(s)
  <2> DEFINE pick == [T \in SUBSET D |-> Some(T)]
             step == [p \in (SUBSET D) \X Int |-> IF p[1] = {} THEN 0 ELSE f[Some(p[1])] + p[2]]
  <2>1. \A T \in SUBSET D : T # {} => pick[T] \in T
    BY <1>1
  <2>2. step \in [(SUBSET D) \X Int -> Int]
    BY <1>1
  <2>3. \A T \in SUBSET D, v \in Int : T # {} => step[<<T, v>>] = f[Some(T)] + v
    OBVIOUS
  <2>4. \A T \in SUBSET D : pick[T] = Some(T)
    OBVIOUS
  <2> HIDE DEF pick, step
  <2>5. PICK s \in [SUBSET D -> Int] : Recursive(s, D, 0, pick, step)
    <3>1. 0 \in Int
      OBVIOUS
    <3>. QED
      BY <2>1, <2>2, <3>1, RecursionOnSubsets
  <2>6. \A T \in SUBSET D : s[T] = IF T = {} THEN 0 ELSE f[Some(T)] + s[T \ {Some(T)}]
    <3> SUFFICES ASSUME NEW T \in SUBSET D, T # {}
                 PROVE  s[T] = f[Some(T)] + s[T \ {Some(T)}]
      BY <2>5 DEF Recursive
    <3>1. T \ {Some(T)} \in SUBSET D /\ s[T \ {Some(T)}] \in Int
      BY <2>5
    <3>. QED
      BY <2>3, <2>4, <2>5, <3>1 DEF Recursive
  <2>. QED
    BY <2>5, <2>6
<1> DEFINE s == CHOOSE s : s = Body(s)
<1>3. s = Body(s)
  BY <1>2
<1>4. SumFunction(f) = s[D]
  BY DEF SumFunction, SumFunctionOnSet, FoldFunctionOnSet, MapThenFoldSet, Some
<1> HIDE DEF s
<1>5. \A T \in SUBSET D : s[T] = IF T = {} THEN 0 ELSE f[Some(T)] + s[T \ {Some(T)}]
  BY <1>3
<1>. QED
  BY <1>1, <1>4, <1>5 DEF SumsUp

\* A sum after one summand has changed.
LEMMA SumChanges ==
    ASSUME NEW D, IsFiniteSet(D), NEW f \in [D -> Int], NEW g \in [D -> Int],
           NEW i \in D, \A j \in D \ {i} : g[j] = f[j]
    PROVE  /\ SumFunction(f) \in Int
           /\ SumFunction(g) = SumFunction(f) + g[i] - f[i]
<1>1. PICK s : SumsUp(s, f, D)
  BY SumIsRecursive
<1>2. PICK r : SumsUp(r, g, D)
  BY SumIsRecursive
<1> DEFINE Good == {T \in SUBSET D :
                      /\ s[T] \in Int
                      /\ r[T] = s[T] + IF i \in T THEN g[i] - f[i] ELSE 0}
<1>3. ASSUME NEW T \in SUBSET D, \A x \in T : T \ {x} \in Good PROVE T \in Good
  <2>1. CASE T = {}
    BY <1>1, <1>2, <2>1 DEF SumsUp
  <2>2. CASE T # {}
    <3> DEFINE x == Some(T)
    <3>1. /\ x \in T /\ s[T] = f[x] + s[T \ {x}] /\ r[T] = g[x] + r[T \ {x}]
          /\ s[T \ {x}] \in Int
          /\ r[T \ {x}] = s[T \ {x}] + IF i \in T \ {x} THEN g[i] - f[i] ELSE 0
          /\ f[x] \in Int /\ g[x] \in Int /\ f[i] \in Int /\ g[i] \in Int
      BY <1>1, <1>2, <1>3, <2>2 DEF SumsUp
    <3> HIDE DEF x
    <3>2. CASE x = i
      BY <3>1, <3>2
    <3>3. CASE x # i
      <4>1. g[x] = f[x]
        BY <3>1, <3>3
      <4>. QED
        BY <3>1, <3>3, <4>1
    <3>. QED
      BY <3>2, <3>3
  <2>. QED
    BY <2>1, <2>2
<1> HIDE DEF Good
<1>4. D \in Good
  BY <1>3, AllSubsets
<1>. QED
  BY <1>1, <1>2, <1>4 DEF Good, SumsUp

\* A sum of naturals is one, and no summand exceeds it.
LEMMA SumBounds ==
    ASSUME NEW D, IsFiniteSet(D), NEW f \in [D -> Nat]
    PROVE  SumFunction(f) \in Nat /\ \A i \in D : f[i] <= SumFunction(f)
<1>1. PICK s : SumsUp(s, f, D)
  <2>1. f \in [D -> Int]
    OBVIOUS
  <2>. QED
    BY <2>1, SumIsRecursive
<1> DEFINE Good == {T \in SUBSET D : s[T] \in Nat /\ \A i \in T : f[i] <= s[T]}
<1>2. ASSUME NEW T \in SUBSET D, \A x \in T : T \ {x} \in Good PROVE T \in Good
  <2>1. CASE T = {}
    BY <1>1, <2>1 DEF SumsUp
  <2>2. CASE T # {}
    <3> DEFINE x == Some(T)
    <3>1. /\ x \in T /\ s[T] = f[x] + s[T \ {x}] /\ s[T \ {x}] \in Nat
          /\ \A i \in T \ {x} : f[i] <= s[T \ {x}]
          /\ \A i \in T : f[i] \in Nat
      BY <1>1, <1>2, <2>2 DEF SumsUp
    <3> HIDE DEF x
    <3>2. s[T] \in Nat
      BY <3>1
    <3>3. ASSUME NEW i \in T PROVE f[i] <= s[T]
      <4>1. f[x] \in Nat /\ f[i] \in Nat
        BY <3>1
      <4>2. CASE i = x
        BY <3>1, <4>1, <4>2
      <4>3. CASE i # x
        <5>1. f[i] <= s[T \ {x}]
          BY <3>1, <4>3
        <5>. QED
          BY <3>1, <4>1, <5>1
      <4>. QED
        BY <4>2, <4>3
    <3>. QED
      BY <3>2, <3>3
  <2>. QED
    BY <2>1, <2>2
<1> HIDE DEF Good
<1>3. D \in Good
  BY <1>2, AllSubsets
<1>. QED
  BY <1>1, <1>3 DEF Good, SumsUp

LEMMA SumOfZeros ==
    ASSUME NEW D, IsFiniteSet(D), NEW f \in [D -> Int], \A i \in D : f[i] = 0
    PROVE  SumFunction(f) = 0
<1>1. PICK s : SumsUp(s, f, D)
  BY SumIsRecursive
<1> DEFINE Good == {T \in SUBSET D : s[T] = 0}
<1>2. ASSUME NEW T \in SUBSET D, \A x \in T : T \ {x} \in Good PROVE T \in Good
  <2>1. CASE T = {}
    BY <1>1, <2>1 DEF SumsUp
  <2>2. CASE T # {}
    <3>1. Some(T) \in T /\ s[T] = f[Some(T)] + s[T \ {Some(T)}]
      BY <1>1, <2>2 DEF SumsUp
    <3>2. s[T \ {Some(T)}] = 0 /\ f[Some(T)] = 0
      BY <1>2, <3>1
    <3>. QED
      BY <3>1, <3>2
  <2>. QED
    BY <2>1, <2>2
<1> HIDE DEF Good
<1>3. D \in Good
  BY <1>2, AllSubsets
<1>. QED
  BY <1>1, <1>3 DEF Good, SumsUp

\* A finite set of integers has a largest and a smallest element.
LEMMA MaxIsOne ==
    ASSUME NEW S \in SUBSET Int, IsFiniteSet(S), S # {}
    PROVE  Max(S) \in S /\ \A x \in S : x <= Max(S)
<1> DEFINE Good == {T \in SUBSET S : T = {} \/ \E m \in T : \A x \in T : m >= x}
<1>1. ASSUME NEW T \in SUBSET S, \A x \in T : T \ {x} \in Good PROVE T \in Good
  <2> SUFFICES ASSUME NEW y \in T PROVE \E m \in T : \A x \in T : m >= x
    OBVIOUS
  <2>1. CASE T \ {y} = {}
    BY <2>1
  <2>2. CASE T \ {y} # {}
    <3>1. PICK m \in T \ {y} : \A x \in T \ {y} : m >= x
      BY <1>1, <2>2 DEF SumsUp
    <3>2. m \in Int /\ y \in Int /\ \A x \in T : x \in Int
      OBVIOUS
    <3>3. CASE m >= y
      BY <3>1, <3>3
    <3>4. CASE y > m
      <4>1. \A x \in T : y >= x
        BY <3>1, <3>2, <3>4
      <4>. QED
        BY <4>1
    <3>. QED
      BY <3>2, <3>3, <3>4
  <2>. QED
    BY <2>1, <2>2
<1> HIDE DEF Good
<1>2. S \in Good
  BY <1>1, AllSubsets
<1>3. \E m \in S : \A x \in S : m >= x
  BY <1>2 DEF Good
<1>4. Max(S) \in S /\ \A x \in S : Max(S) >= x
  BY <1>3 DEF Max
<1>5. \A x \in S : x \in Int /\ Max(S) \in Int
  BY <1>4
<1>. QED
  BY <1>4, <1>5

LEMMA LeastOf ==
    ASSUME NEW S \in SUBSET Nat, S # {}
    PROVE  Min(S) \in S /\ \A x \in S : Min(S) <= x
<1> DEFINE G == {n \in Nat : \A k \in 0 .. n : k \in S => \E x \in S : \A y \in S : x =< y}
<1>1. 0 \in G
  <2>1. 0 \in S => \A y \in S : 0 =< y
    OBVIOUS
  <2>. QED
    BY <2>1
<1>2. ASSUME NEW n \in Nat, n \in G PROVE n + 1 \in G
  <2> SUFFICES ASSUME n + 1 \in S PROVE \E x \in S : \A y \in S : x =< y
    BY <1>2
  <2>1. CASE \E k \in 0 .. n : k \in S
    BY <1>2, <2>1
  <2>2. CASE \A k \in 0 .. n : k \notin S
    <3>1. \A y \in S : n + 1 =< y
      BY <2>2
    <3>. QED
      BY <3>1
  <2>. QED
    BY <2>1, <2>2
<1>3. Nat \subseteq G
  <2> HIDE DEF G
  <2>. QED
    BY <1>1, <1>2, AllNaturals
<1>4. PICK k \in S : k \in Nat
  OBVIOUS
<1>5. \E x \in S : \A y \in S : x =< y
  BY <1>3, <1>4
<1>. QED
  BY <1>5 DEF Min

LEMMA MinOfTwo ==
    ASSUME NEW a \in Int, NEW b \in Int
    PROVE  Min({a, b}) \in {a, b} /\ Min({a, b}) <= a /\ Min({a, b}) <= b
<1>1. \E m \in {a, b} : \A x \in {a, b} : m =< x
  <2>1. CASE a <= b
    BY <2>1
  <2>2. CASE b <= a
    BY <2>2
  <2>. QED
    BY <2>1, <2>2
<1>2. Min({a, b}) \in {a, b} /\ \A x \in {a, b} : Min({a, b}) =< x
  BY <1>1 DEF Min
<1>. QED
  BY <1>2

LEMMA FiniteImage ==
    ASSUME NEW D, IsFiniteSet(D), NEW f
    PROVE  IsFiniteSet({f[x] : x \in D})
<1> DEFINE T == {f[x] : x \in D}
           g == [x \in D |-> f[x]]
<1>1. g \in Surjection(D, T)
  BY DEF Surjection
<1> HIDE DEF T, g
<1>2. IsFiniteSet(T)
  BY <1>1, FS_Surjection
<1>. QED
  BY <1>2 DEF T

-----------------------------------------------------------------------------
(* Plans.                                                                  *)

Selections == [Denominations -> Nat]

\* The selections of coins out of the available ones.
Within(available, coins) ==
    {p \in Selections : \A d \in Denominations :
        p[d] <= available[d] /\ (d \notin coins => p[d] = 0)}

LEMMA NaturalProduct ==
    ASSUME NEW a \in Nat, NEW b \in Nat
    PROVE  a * b \in Nat /\ a * b = b * a
OBVIOUS

LEMMA Division ==
    ASSUME NEW rest \in Nat, NEW d \in Nat \ {0}, NEW n \in Nat
    PROVE  /\ rest \div d \in Nat /\ n * d \in Nat
           /\ n <= rest \div d <=> n * d <= rest
<1> DEFINE q == rest \div d
           r == rest % d
<1>1. q \in Nat /\ r \in 0 .. d - 1 /\ rest = d * q + r
  OBVIOUS
<1> HIDE DEF q, r
<1>2. n * d \in Nat /\ d * q \in Nat
  BY <1>1
<1>3. ASSUME n <= q PROVE n * d <= rest
  <2>1. PICK k \in Nat : q = n + k
    <3>1. q - n \in Nat /\ q = n + (q - n)
      BY <1>1, <1>3
    <3>. QED
      BY <3>1
  <2>2. d * q = n * d + d * k /\ d * k \in Nat
    BY <2>1
  <2>. QED
    BY <1>1, <1>2, <2>2
<1>4. ASSUME n > q PROVE n * d > rest
  <2>1. PICK k \in Nat : n = q + 1 + k
    <3>1. n - q - 1 \in Nat /\ n = q + 1 + (n - q - 1)
      BY <1>1, <1>4
    <3>. QED
      BY <3>1
  <2>2. n * d = d * q + d + k * d /\ k * d \in Nat
    BY <1>1, <2>1
  <2>. QED
    BY <1>1, <1>2, <2>2
<1>. QED
  BY <1>1, <1>2, <1>3, <1>4 DEF q

LEMMA ValueIs ==
    ASSUME NEW p \in Selections
    PROVE  /\ Value(p) \in Nat
           /\ \A d \in Denominations : d * p[d] <= Value(p)
           /\ \A d \in Denominations, n \in Nat :
                 Value([p EXCEPT ![d] = n]) = Value(p) + d * n - d * p[d]
<1> DEFINE f == [d \in Denominations |-> d * p[d]]
<1>1. \A d \in Denominations : d \in Nat /\ p[d] \in Nat /\ d * p[d] \in Nat
  BY ChangeAssumption DEF Selections
<1>2. f \in [Denominations -> Nat] /\ f \in [Denominations -> Int]
  BY <1>1
<1>3. Value(p) \in Nat /\ \A d \in Denominations : f[d] <= Value(p)
  BY <1>2, ChangeAssumption, SumBounds DEF Value
<1>4. ASSUME NEW d \in Denominations, NEW n \in Nat
      PROVE  Value([p EXCEPT ![d] = n]) = Value(p) + d * n - d * p[d]
  <2> DEFINE q == [p EXCEPT ![d] = n]
             g == [e \in Denominations |-> e * q[e]]
  <2>1. \A e \in Denominations : q[e] = IF e = d THEN n ELSE p[e]
    BY DEF Selections
  <2>2. \A e \in Denominations : e * q[e] \in Int
    BY <1>1, <2>1
  <2>3. g \in [Denominations -> Int] /\ \A e \in Denominations \ {d} : g[e] = f[e]
    BY <2>1, <2>2
  <2>4. g[d] = d * n /\ f[d] = d * p[d]
    BY <2>1
  <2>5. SumFunction(g) = SumFunction(f) + g[d] - f[d]
    <3> HIDE DEF f, g, q
    <3>1. IsFiniteSet(Denominations)
      BY ChangeAssumption
    <3>. QED
      BY <1>2, <2>3, <3>1, SumChanges
  <2>6. Value(q) = SumFunction(g) /\ Value(p) = SumFunction(f)
    BY DEF Value
  <2> HIDE DEF f, g, q
  <2>7. Value(q) = Value(p) + d * n - d * p[d]
    BY <2>4, <2>5, <2>6
  <2>. QED
    BY <2>7 DEF q
<1>. QED
  BY <1>3, <1>4

LEMMA NothingIsWorthNothing == Nothing \in Selections /\ Value(Nothing) = 0
<1> DEFINE f == [d \in Denominations |-> d * Nothing[d]]
<1>1. \A d \in Denominations : d \in Nat /\ Nothing[d] = 0 /\ d * Nothing[d] = 0
  BY ChangeAssumption DEF Nothing
<1>2. f \in [Denominations -> Int] /\ \A d \in Denominations : f[d] = 0
  BY <1>1
<1>3. SumFunction(f) = 0
  <2> HIDE DEF f
  <2>. QED
    BY <1>2, ChangeAssumption, SumOfZeros
<1>. QED
  BY <1>3 DEF Value, Nothing, Selections

-----------------------------------------------------------------------------
(* One turn of plan_change, for a table of what the smaller coins can do.  *)

Usable(table, available, coins, rest) ==
    {n \in 0 .. Min({available[Max(coins)], rest \div Max(coins)}) :
        table[<<coins \ {Max(coins)}, rest - n * Max(coins)>>] # NoPlan}

Turn(table, available, coins, rest) ==
    LET most == Max(Usable(table, available, coins, rest))
    IN  IF rest = 0 THEN Nothing
        ELSE IF coins = {} \/ Usable(table, available, coins, rest) = {} THEN NoPlan
        ELSE [table[<<coins \ {Max(coins)}, rest - most * Max(coins)>>]
                 EXCEPT ![Max(coins)] = most]

\* The table that plan_change's recursion computes.
IsTable(table, available, amount) ==
    table = [left \in (SUBSET Denominations) \X (0 .. amount) |->
                Turn(table, available, left[1], left[2])]

LEMMA LargestCoin ==
    ASSUME NEW coins \in SUBSET Denominations, coins # {}
    PROVE  Max(coins) \in coins /\ Max(coins) \in Nat \ {0} /\ Max(coins) \in Denominations
<1>1. IsFiniteSet(coins) /\ coins \in SUBSET Int
  <2>1. IsFiniteSet(coins)
    BY ChangeAssumption, FS_Subset
  <2>. QED
    BY <2>1, ChangeAssumption
<1>2. Max(coins) \in coins
  BY <1>1, MaxIsOne
<1>. QED
  BY <1>2, ChangeAssumption

LEMMA Counted ==
    ASSUME NEW available \in Selections, NEW rest \in Nat, NEW d \in Denominations,
           NEW n \in Nat
    PROVE  /\ n \in 0 .. Min({available[d], rest \div d}) <=> n <= available[d] /\ n * d <= rest
           /\ IsFiniteSet(0 .. Min({available[d], rest \div d}))
<1>1. available[d] \in Nat /\ d \in Nat \ {0}
  BY ChangeAssumption DEF Selections
<1>2. rest \div d \in Nat /\ (n <= rest \div d <=> n * d <= rest)
  BY <1>1, Division
<1> DEFINE m == Min({available[d], rest \div d})
<1>3. m \in {available[d], rest \div d} /\ m <= available[d] /\ m <= rest \div d
  <2>1. available[d] \in Int /\ rest \div d \in Int
    BY <1>1, <1>2
  <2>. QED
    BY <2>1, MinOfTwo, Zenon
<1>4. m \in Int
  BY <1>1, <1>2, <1>3
<1> HIDE DEF m
<1>5. n \in 0 .. m <=> n <= available[d] /\ n <= rest \div d
  BY <1>1, <1>2, <1>3, <1>4
<1>6. IsFiniteSet(0 .. m)
  BY <1>4, FS_Interval
<1>. QED
  BY <1>2, <1>5, <1>6 DEF m

\* What can be paid with n coins of the largest kind, and that there is a most.
LEMMA UsableIs ==
    ASSUME NEW available \in Selections, NEW amount \in Nat, NEW rest \in 0 .. amount,
           NEW coins \in SUBSET Denominations, coins # {}, NEW table
    PROVE  LET d == Max(coins)
               usable == Usable(table, available, coins, rest)
           IN  /\ \A n \in Nat : n \in usable <=>
                     /\ n <= available[d] /\ n * d <= rest
                     /\ table[<<coins \ {d}, rest - n * d>>] # NoPlan
               /\ usable \subseteq Nat
               /\ usable # {} => Max(usable) \in usable
<1> DEFINE d == Max(coins)
           usable == Usable(table, available, coins, rest)
           S == 0 .. Min({available[d], rest \div d})
<1>1. d \in Denominations /\ rest \in Nat
  BY LargestCoin
<1>2. /\ \A n \in Nat : n \in S <=> n <= available[d] /\ n * d <= rest
      /\ IsFiniteSet(S)
  <2> HIDE DEF d
  <2>1. 0 \in Nat
    OBVIOUS
  <2>. QED
    BY <1>1, <2>1, Counted
<1>3. usable = {n \in S : table[<<coins \ {d}, rest - n * d>>] # NoPlan} /\ S \subseteq Nat
  BY DEF Usable
<1> HIDE DEF d, S, usable
<1>4. usable \subseteq S /\ usable \subseteq Nat
  <2>1. usable \subseteq S
    BY <1>3, Zenon
  <2>. QED
    BY <1>3, <2>1, Zenon
<1>5. IsFiniteSet(usable)
  BY <1>2, <1>4, FS_Subset
<1>6. usable # {} => Max(usable) \in usable
  <2>1. usable \in SUBSET Int
    BY <1>4
  <2>. QED
    BY <1>5, <2>1, MaxIsOne
<1>7. \A n \in Nat : n \in usable <=>
                     /\ n <= available[d] /\ n * d <= rest
                     /\ table[<<coins \ {d}, rest - n * d>>] # NoPlan
  BY <1>2, <1>3
<1>. QED
  BY <1>4, <1>6, <1>7 DEF d, usable

\* A turn takes no more from the rest than there is.
LEMMA UsableGoesOn ==
    ASSUME NEW available \in Selections, NEW amount \in Nat, NEW rest \in 0 .. amount,
           NEW coins \in SUBSET Denominations, coins # {}, NEW table,
           NEW n \in Usable(table, available, coins, rest)
    PROVE  /\ n \in Nat /\ n <= available[Max(coins)]
           /\ n * Max(coins) \in Nat /\ rest - n * Max(coins) \in 0 .. amount
           /\ table[<<coins \ {Max(coins)}, rest - n * Max(coins)>>] # NoPlan
<1> DEFINE d == Max(coins)
<1>1. d \in Nat \ {0}
  BY LargestCoin
<1>2. /\ n \in Nat /\ n <= available[d] /\ n * d <= rest
      /\ table[<<coins \ {d}, rest - n * d>>] # NoPlan
  BY UsableIs
<1> HIDE DEF d
<1>3. n * d \in Nat
  BY <1>1, <1>2, NaturalProduct
<1>4. rest - n * d \in 0 .. amount
  <2> DEFINE m == n * d
  <2> HIDE DEF m
  <2>1. m \in Nat /\ m <= rest => rest - m \in 0 .. amount
    OBVIOUS
  <2>. QED
    BY <1>2, <1>3, <2>1 DEF m
<1>. QED
  BY <1>2, <1>3, <1>4 DEF d

LEMMA TurnsAgree ==
    ASSUME NEW available \in Selections, NEW amount \in Nat, NEW rest \in 0 .. amount,
           NEW coins \in SUBSET Denominations, coins # {}, NEW t, NEW u,
           \A r \in 0 .. amount : t[<<coins \ {Max(coins)}, r>>] = u[<<coins \ {Max(coins)}, r>>]
    PROVE  Turn(t, available, coins, rest) = Turn(u, available, coins, rest)
<1> DEFINE d == Max(coins)
<1>1. Usable(t, available, coins, rest) = Usable(u, available, coins, rest)
  <2>1. ASSUME NEW n \in Usable(t, available, coins, rest)
        PROVE  n \in Usable(u, available, coins, rest)
    <3>1. /\ n \in Nat /\ n <= available[d] /\ n * d <= rest
          /\ t[<<coins \ {d}, rest - n * d>>] # NoPlan
      BY UsableIs
    <3>2. rest - n * d \in 0 .. amount
      BY UsableGoesOn
    <3>3. u[<<coins \ {d}, rest - n * d>>] # NoPlan
      BY <3>1, <3>2, Zenon
    <3>. QED
      BY <3>1, <3>3, UsableIs
  <2>2. ASSUME NEW n \in Usable(u, available, coins, rest)
        PROVE  n \in Usable(t, available, coins, rest)
    <3>1. /\ n \in Nat /\ n <= available[d] /\ n * d <= rest
          /\ u[<<coins \ {d}, rest - n * d>>] # NoPlan
      BY UsableIs
    <3>2. rest - n * d \in 0 .. amount
      BY UsableGoesOn
    <3>3. t[<<coins \ {d}, rest - n * d>>] # NoPlan
      BY <3>1, <3>2, Zenon
    <3>. QED
      BY <3>1, <3>3, UsableIs
  <2>. QED
    BY <2>1, <2>2
<1>2. CASE Usable(t, available, coins, rest) = {}
  BY <1>1, <1>2 DEF Turn
<1>3. CASE Usable(t, available, coins, rest) # {}
  <2> DEFINE n == Max(Usable(t, available, coins, rest))
  <2>1. n \in Usable(t, available, coins, rest)
    BY <1>3, UsableIs
  <2>2. rest - n * d \in 0 .. amount
    BY <2>1, UsableGoesOn
  <2>3. t[<<coins \ {d}, rest - n * d>>] = u[<<coins \ {d}, rest - n * d>>]
    BY <2>2, Zenon
  <2>. QED
    BY <1>1, <2>3, Zenon DEF Turn
<1>. QED
  BY <1>2, <1>3

Results == Selections \cup {NoPlan}

LEMMA TurnGives ==
    ASSUME NEW available \in Selections, NEW amount \in Nat, NEW rest \in 0 .. amount,
           NEW coins \in SUBSET Denominations, NEW t,
           \A r \in 0 .. amount : t[<<coins \ {Max(coins)}, r>>] \in Results
    PROVE  Turn(t, available, coins, rest) \in Results
<1>1. CASE rest = 0 \/ coins = {} \/ Usable(t, available, coins, rest) = {}
  BY <1>1, NothingIsWorthNothing DEF Turn, Results
<1>2. CASE rest # 0 /\ coins # {} /\ Usable(t, available, coins, rest) # {}
  <2> DEFINE d == Max(coins)
             n == Max(Usable(t, available, coins, rest))
             q == t[<<coins \ {d}, rest - n * d>>]
  <2>1. n \in Usable(t, available, coins, rest)
    BY <1>2, UsableIs
  <2>2. rest - n * d \in 0 .. amount /\ n \in Nat /\ q # NoPlan
    BY <1>2, <2>1, UsableGoesOn
  <2>3. q \in Selections
    BY <2>2 DEF Results
  <2>4. Turn(t, available, coins, rest) = [q EXCEPT ![d] = n]
    BY <1>2 DEF Turn
  <2>5. [q EXCEPT ![d] = n] \in Selections
    <3> HIDE DEF q, n, d
    <3>. QED
      BY <2>2, <2>3 DEF Selections
  <2>. QED
    BY <2>4, <2>5 DEF Results
<1>. QED
  BY <1>1, <1>2

\* The recursion of plan_change is well founded.
LEMMA TableExists ==
    ASSUME NEW available \in Selections, NEW amount \in Nat
    PROVE  \E table : IsTable(table, available, amount)
<1> DEFINE V == [0 .. amount -> Results]
           pick == [T \in SUBSET Denominations |-> Max(T)]
           base == [r \in 0 .. amount |-> IF r = 0 THEN Nothing ELSE NoPlan]
           Known(T, row) == [left \in {T \ {Max(T)}} \X (0 .. amount) |-> row[left[2]]]
           step == [p \in (SUBSET Denominations) \X V |->
                      [r \in 0 .. amount |-> Turn(Known(p[1], p[2]), available, p[1], r)]]
<1>1. base \in V
  BY NothingIsWorthNothing DEF Results
<1>2. \A T \in SUBSET Denominations : T # {} => pick[T] \in T
  BY LargestCoin
<1>3. \A T \in SUBSET Denominations, row \in V, r \in 0 .. amount :
         Known(T, row)[<<T \ {Max(T)}, r>>] = row[r]
  OBVIOUS
<1>4. step \in [(SUBSET Denominations) \X V -> V]
  <2> SUFFICES ASSUME NEW T \in SUBSET Denominations, NEW row \in V, NEW r \in 0 .. amount
               PROVE  Turn(Known(T, row), available, T, r) \in Results
    OBVIOUS
  <2>1. \A k \in 0 .. amount : Known(T, row)[<<T \ {Max(T)}, k>>] \in Results
    BY <1>3
  <2> HIDE DEF Known
  <2>. QED
    BY <2>1, TurnGives
<1>5. \A T \in SUBSET Denominations, row \in V : \A r \in 0 .. amount :
         step[<<T, row>>][r] = Turn(Known(T, row), available, T, r)
  <2> HIDE DEF Known
  <2>. QED
    OBVIOUS
<1>6. \A T \in SUBSET Denominations : pick[T] = Max(T)
  OBVIOUS
<1>7. \A r \in 0 .. amount : base[r] = IF r = 0 THEN Nothing ELSE NoPlan
  OBVIOUS
<1> HIDE DEF V, pick, base, Known, step
<1>8. PICK f \in [SUBSET Denominations -> V] : Recursive(f, Denominations, base, pick, step)
  <2>1. IsFiniteSet(Denominations)
    BY ChangeAssumption
  <2>. QED
    BY <1>1, <1>2, <1>4, <2>1, RecursionOnSubsets
<1> DEFINE table == [left \in (SUBSET Denominations) \X (0 .. amount) |-> f[left[1]][left[2]]]
<1>9. \A T \in SUBSET Denominations, r \in 0 .. amount : table[<<T, r>>] = f[T][r]
  OBVIOUS
<1>10. ASSUME NEW T \in SUBSET Denominations, NEW r \in 0 .. amount
       PROVE  f[T][r] = Turn(table, available, T, r)
  <2> HIDE DEF table
  <2>1. CASE T = {}
    BY <1>7, <1>8, <2>1 DEF Recursive, Turn
  <2>2. CASE T # {}
    <3> DEFINE U == T \ {Max(T)}
    <3>1. f[T] = step[<<T, f[U]>>] /\ f[U] \in V
      BY <1>6, <1>8, <2>2 DEF Recursive
    <3>2. f[T][r] = Turn(Known(T, f[U]), available, T, r)
      BY <1>5, <3>1
    <3>3. \A k \in 0 .. amount : Known(T, f[U])[<<U, k>>] = table[<<U, k>>]
      <4>1. U \in SUBSET Denominations
        OBVIOUS
      <4>2. ASSUME NEW k \in 0 .. amount PROVE Known(T, f[U])[<<U, k>>] = table[<<U, k>>]
        <5>1. table[<<U, k>>] = f[U][k]
          BY <1>9, <4>1
        <5>2. Known(T, f[U])[<<U, k>>] = f[U][k]
          BY <1>3, <3>1
        <5>. QED
          BY <5>1, <5>2
      <4>. QED
        BY <4>2
    <3>4. Turn(Known(T, f[U]), available, T, r) = Turn(table, available, T, r)
      BY <2>2, <3>3, TurnsAgree
    <3>. QED
      BY <3>2, <3>4
  <2>. QED
    BY <2>1, <2>2
<1>11. IsTable(table, available, amount)
  <2> DEFINE g == [left \in (SUBSET Denominations) \X (0 .. amount) |->
                      Turn(table, available, left[1], left[2])]
  <2>1. \A left \in (SUBSET Denominations) \X (0 .. amount) :
           f[left[1]][left[2]] = Turn(table, available, left[1], left[2])
    <3> HIDE DEF table
    <3>. QED
      BY <1>10
  <2>2. table = g
    <3>1. \A left \in (SUBSET Denominations) \X (0 .. amount) : table[left] = f[left[1]][left[2]]
      OBVIOUS
    <3>2. table = [left \in (SUBSET Denominations) \X (0 .. amount) |-> table[left]]
      OBVIOUS
    <3> HIDE DEF table
    <3>. QED
      BY <2>1, <3>1, <3>2
  <2>. QED
    <3> HIDE DEF table
    <3>. QED
      BY <2>2 DEF IsTable
<1>. QED
  <2> HIDE DEF table
  <2>. QED
    BY <1>11

LEMMA PlanIsInTable ==
    ASSUME NEW available \in Selections, NEW amount \in Nat
    PROVE  \E table : /\ IsTable(table, available, amount)
                      /\ PlanChange(available, amount) = table[<<Denominations, amount>>]
<1> DEFINE table == CHOOSE t : IsTable(t, available, amount)
<1>1. IsTable(table, available, amount)
  BY TableExists
<1>2. PlanChange(available, amount) = table[<<Denominations, amount>>]
  BY DEF PlanChange, IsTable, Turn, Usable
<1>. QED
  BY <1>1, <1>2

\* An entry of the table is a selection that makes the amount, or there is none.
Exact(table, available, coins, rest) ==
    LET plan == table[<<coins, rest>>]
    IN  \/ plan \in Within(available, coins) /\ Value(plan) = rest
        \/ plan = NoPlan /\ \A p \in Within(available, coins) : Value(p) # rest

LEMMA TableIsExact ==
    ASSUME NEW available \in Selections, NEW amount \in Nat, NEW table,
           IsTable(table, available, amount), NEW coins \in SUBSET Denominations,
           NEW rest \in 0 .. amount
    PROVE  Exact(table, available, coins, rest)
<1> DEFINE Good == {T \in SUBSET Denominations :
                       \A r \in 0 .. amount : Exact(table, available, T, r)}
<1>0. \A d \in Denominations : available[d] \in Nat /\ d \in Nat \ {0}
  BY ChangeAssumption DEF Selections
<1>1. ASSUME NEW T \in SUBSET Denominations, \A d \in T : T \ {d} \in Good,
             NEW r \in 0 .. amount
      PROVE  Exact(table, available, T, r)
  <2> DEFINE plan == table[<<T, r>>]
  <2>1. plan = Turn(table, available, T, r)
    BY DEF IsTable
  <2>2. CASE r = 0
    <3>1. plan = Nothing
      BY <2>1, <2>2 DEF Turn
    <3>2. Nothing \in Within(available, T) /\ Value(Nothing) = 0
      BY <1>0, NothingIsWorthNothing DEF Within, Nothing
    <3>. QED
      BY <2>2, <3>1, <3>2 DEF Exact
  <2>3. CASE r # 0 /\ T = {}
    <3>1. plan = NoPlan
      BY <2>1, <2>3 DEF Turn
    <3>2. ASSUME NEW p \in Within(available, T) PROVE Value(p) = 0
      <4>1. p = Nothing
        BY <2>3 DEF Within, Selections, Nothing
      <4>. QED
        BY <4>1, NothingIsWorthNothing
    <3>. QED
      BY <2>3, <3>1, <3>2 DEF Exact
  <2>4. CASE r # 0 /\ T # {}
    <3> DEFINE d == Max(T)
               U == T \ {d}
               usable == Usable(table, available, T, r)
    <3>1. d \in T /\ d \in Denominations /\ d \in Nat \ {0}
      BY <2>4, LargestCoin
    <3>2. \A k \in 0 .. amount : Exact(table, available, U, k)
      BY <1>1, <3>1
    <3>3. CASE usable = {}
      <4>1. plan = NoPlan
        BY <2>1, <2>4, <3>3 DEF Turn
      <4>2. ASSUME NEW p \in Within(available, T), Value(p) = r PROVE FALSE
        <5> DEFINE n == p[d]
                   q == [p EXCEPT ![d] = 0]
        <5>1. p \in Selections /\ n \in Nat /\ n <= available[d]
          BY <3>1 DEF Within, Selections
        <5>2. d * n <= r /\ Value(q) = r + d * 0 - d * n
          BY <3>1, <4>2, <5>1, ValueIs
        <5>3. d * n = n * d /\ n * d \in Nat
          BY <3>1, <5>1, NaturalProduct
        <5>4. Value(q) = r - n * d /\ n * d <= r /\ r - n * d \in 0 .. amount
          <6> DEFINE m == n * d
          <6> HIDE DEF m, n, q
          <6>1. d * n = m /\ m \in Nat /\ m <= r /\ Value(q) = r + d * 0 - m /\ d * 0 = 0
            BY <3>1, <5>2, <5>3 DEF m
          <6>2. Value(q) = r - m /\ m <= r /\ r - m \in 0 .. amount
            BY <6>1
          <6>. QED
            BY <6>2 DEF m
        <5>5. q \in Within(available, U)
          BY <1>0, <3>1, <5>1 DEF Within, Selections
        <5>6. table[<<U, r - n * d>>] # NoPlan
          <6> DEFINE left == r - n * d
          <6>1. Exact(table, available, U, left)
            BY <3>2, <5>4
          <6>2. Value(q) = left
            BY <5>4
          <6> HIDE DEF left, q, U
          <6>3. table[<<U, left>>] = NoPlan => FALSE
            <7>1. \A x \in Within(available, U) : x # NoPlan
              BY ChangeAssumption DEF Within, Selections
            <7>. QED
              BY <5>5, <6>1, <6>2, <7>1 DEF Exact
          <6>. QED
            BY <6>3 DEF left
        <5>7. n \in usable
          BY <2>4, <5>1, <5>4, <5>6, UsableIs
        <5>. QED
          BY <3>3, <5>7
      <4>. QED
        BY <4>1, <4>2 DEF Exact
    <3>4. CASE usable # {}
      <4> DEFINE n == Max(usable)
                 q == table[<<U, r - n * d>>]
                 p == [q EXCEPT ![d] = n]
      <4>1. n \in usable
        BY <2>4, <3>4, UsableIs
      <4>2. /\ n \in Nat /\ n <= available[d] /\ n * d \in Nat
            /\ r - n * d \in 0 .. amount /\ q # NoPlan
        BY <2>4, <4>1, UsableGoesOn
      <4>3. q \in Within(available, U) /\ Value(q) = r - n * d
        BY <3>2, <4>2 DEF Exact
      <4>4. plan = p
        BY <2>1, <2>4, <3>4 DEF Turn
      <4>5. q \in Selections /\ q[d] = 0
        BY <3>1, <4>3 DEF Within
      <4>6. p \in Within(available, T)
        <5> HIDE DEF n, q, d
        <5>1. p \in Selections /\ \A e \in Denominations : p[e] = IF e = d THEN n ELSE q[e]
          BY <4>2, <4>5 DEF Selections
        <5>2. \A e \in Denominations : q[e] <= available[e] /\ (e \notin U => q[e] = 0)
          BY <4>3 DEF Within
        <5>. QED
          BY <3>1, <4>2, <5>1, <5>2 DEF Within
      <4>7. Value(p) = Value(q) + d * n - d * q[d]
        <5> HIDE DEF n, q, d
        <5>. QED
          BY <3>1, <4>2, <4>5, ValueIs
      <4>8. Value(p) = r
        <5> DEFINE m == n * d
        <5>1. d * n = m /\ d * 0 = 0
          <6> HIDE DEF n, d
          <6>. QED
            BY <3>1, <4>2, NaturalProduct DEF m
        <5> HIDE DEF m, n, p, q, d
        <5>2. Value(p) = (r - m) + m - 0 /\ m \in Nat
          BY <4>2, <4>3, <4>5, <4>7, <5>1 DEF m
        <5>. QED
          BY <5>2
      <4>. QED
        BY <4>4, <4>6, <4>8 DEF Exact
    <3>. QED
      BY <3>3, <3>4
  <2>. QED
    BY <2>2, <2>3, <2>4
<1>2. \A T \in SUBSET Denominations : (\A d \in T : T \ {d} \in Good) => T \in Good
  BY <1>1
<1> HIDE DEF Good
<1>3. SUBSET Denominations \subseteq Good
  <2>1. IsFiniteSet(Denominations)
    BY ChangeAssumption
  <2>. QED
    BY <1>2, <2>1, AllSubsets
<1>. QED
  BY <1>3 DEF Good

Fits(p, available, amount) ==
    (\A d \in Denominations : p[d] <= available[d]) /\ Value(p) = amount

\* plan_change gives a selection of the available coins that makes the amount,
\* or there is none.
LEMMA PlanChangeIs ==
    ASSUME NEW available \in Selections, NEW amount \in Nat
    PROVE  LET plan == PlanChange(available, amount)
           IN  \/ plan \in Selections /\ Fits(plan, available, amount)
               \/ plan = NoPlan /\ \A p \in Selections : ~Fits(p, available, amount)
<1>1. PICK table : /\ IsTable(table, available, amount)
                   /\ PlanChange(available, amount) = table[<<Denominations, amount>>]
  BY PlanIsInTable
<1>2. amount \in 0 .. amount /\ Denominations \in SUBSET Denominations
  OBVIOUS
<1>3. Exact(table, available, Denominations, amount)
  BY <1>1, <1>2, TableIsExact
<1>4. Within(available, Denominations) = {p \in Selections : \A d \in Denominations : p[d] <= available[d]}
  BY DEF Within
<1>. QED
  BY <1>1, <1>3, <1>4 DEF Exact, Fits

-----------------------------------------------------------------------------
(* The invariants.                                                         *)

Outstanding == {"active", "ambiguous"}

Reserves == [status : {"none", "consumed", "released"} \cup Outstanding, plan : Selections]

MoneyTyped ==
    /\ counts \in [Denominations -> Int] /\ \A d \in Denominations : counts[d] <= Loaded[d]
    /\ reserved \in [Denominations -> Nat]
    /\ reserves \in [Purchases \X Purposes -> Reserves]
    /\ cassette \in Selections /\ gone \in Selections

SalesTyped ==
    /\ drifted \in BOOLEAN
    /\ attached \subseteq Purchases /\ collecting \in Purchases \cup {Nobody}
    /\ purchase \in [Purchases -> [price : Nat, accepted : Nat]]
    /\ payer \in [Purchases -> {"none", "cash", "announced", "change", "unpayable",
                                "repay", "settled", "failed"}]
    /\ canceller \in [Purchases -> {"none", "announced", "refund", "settled", "failed"}]

Status(s, purpose) == reserves[<<s, purpose>>].status

\* Where the reserves of a purchase are, by how far its two tasks have come.
StagesOf(s) ==
    /\ payer[s] = "none" => s \notin attached /\ canceller[s] = "none"
    /\ s \notin attached => Status(s, "change") \notin Outstanding
    /\ s \in attached =>
          /\ canceller[s] = "none"
          /\ Status(s, "change") \in Outstanding \/ (payer[s] = "settled" /\ Due(s) > 0)
          /\ payer[s] \in {"cash", "announced", "change"} => Status(s, "change") = "active"
    /\ payer[s] = "change" /\ s \notin attached => canceller[s] # "none"
    /\ payer[s] = "announced" /\ s \notin attached => canceller[s] # "none"
    /\ payer[s] \in {"announced", "change"} => Due(s) > 0
    /\ payer[s] \in {"none", "cash", "announced", "change", "unpayable"} => Status(s, "repay") = "none"
    /\ payer[s] = "repay" => Status(s, "repay") = "active"
    /\ canceller[s] \in {"none", "announced"} => Status(s, "refund") = "none"
    /\ canceller[s] = "refund" => Status(s, "refund") = "active"

Balanced ==
    \A d \in Denominations : reserved[d] = Booked(d) /\ reserved[d] <= counts[d]

TakenAway == \E s \in Purchases : canceller[s] # "none" /\ payer[s] # "cash"

Accounted ==
    \/ Plus(counts, gone) = Loaded
    \/ \E id \in DOMAIN reserves : reserves[id].status = "ambiguous"
    \/ TakenAway

ChangeInvariant ==
    /\ MoneyTyped /\ SalesTyped /\ \A s \in Purchases : StagesOf(s)
    /\ ReleasedTwice \/ Balanced
    /\ Accounted

-----------------------------------------------------------------------------
(* Arithmetic on selections.                                               *)

Held(r, d) == IF r.status \in Outstanding THEN r.plan[d] ELSE 0

LEMMA ReservesAreFinite == IsFiniteSet(Purchases \X Purposes)
<1>1. IsFiniteSet(Purposes)
  <2>1. Purposes = {"change"} \cup {"repay"} \cup {"refund"}
    BY DEF Purposes
  <2>. QED
    BY <2>1, FS_Singleton, FS_Union
<1>. QED
  BY <1>1, ChangeAssumption, FS_Product

SetTo(s, purpose, r) == reserves' = [reserves EXCEPT ![<<s, purpose>>] = r]

\* Replacing one reserve changes what is booked by what the two hold.
LEMMA BookedAfter ==
    ASSUME MoneyTyped, MoneyTyped', NEW s \in Purchases, NEW purpose \in Purposes, NEW r,
           SetTo(s, purpose, r),
           NEW d \in Denominations
    PROVE  /\ Booked(d) \in Nat
           /\ Held(reserves[<<s, purpose>>], d) \in 0 .. Booked(d)
           /\ Held(r, d) \in Nat
           /\ Booked(d)' = Booked(d) + Held(r, d) - Held(reserves[<<s, purpose>>], d)
<1> DEFINE D == Purchases \X Purposes
           id == <<s, purpose>>
           f == [i \in DOMAIN reserves |-> Held(reserves[i], d)]
           g == [i \in DOMAIN reserves' |-> Held(reserves'[i], d)]
<1>1. /\ DOMAIN reserves = D /\ DOMAIN reserves' = D /\ id \in D
      /\ \A i \in D : Held(reserves[i], d) \in Nat
      /\ \A i \in D : Held(reserves'[i], d) \in Nat
      /\ reserves'[id] = r /\ \A i \in D \ {id} : reserves'[i] = reserves[i]
  <2>1. \A i \in D : reserves[i].plan[d] \in Nat /\ reserves'[i].plan[d] \in Nat
    BY DEF MoneyTyped, Selections, Reserves
  <2>. QED
    BY <2>1 DEF MoneyTyped, Held, SetTo
<1>2. IsFiniteSet(D)
  BY ReservesAreFinite
<1>3. Booked(d) = SumFunction(f) /\ Booked(d)' = SumFunction(g)
  BY DEF Booked, Held, Outstanding
<1>4. /\ f \in [D -> Nat] /\ g \in [D -> Nat] /\ f \in [D -> Int] /\ g \in [D -> Int]
      /\ f[id] = Held(reserves[id], d) /\ g[id] = Held(r, d)
      /\ \A i \in D \ {id} : g[i] = f[i]
  BY <1>1
<1> HIDE DEF f, g, D
<1>5. SumFunction(f) \in Nat /\ f[id] <= SumFunction(f)
  BY <1>1, <1>2, <1>4, SumBounds
<1>6. SumFunction(g) = SumFunction(f) + g[id] - f[id]
  <2> HIDE DEF id
  <2>. QED
    BY <1>1, <1>2, <1>4, SumChanges
<1>7. f[id] \in Nat /\ g[id] \in Nat
  BY <1>1, <1>4
<1>. QED
  BY <1>3, <1>4, <1>5, <1>6, <1>7

LEMMA AvailableIs ==
    ASSUME MoneyTyped, NEW held \in [Denominations -> Int]
    PROVE  /\ Available(held) \in Selections
           /\ \A d \in Denominations :
                 Available(held)[d] = IF counts[d] < held[d] THEN 0 ELSE counts[d] - held[d]
BY DEF MoneyTyped, Available, AtLeastZero, Minus, Selections

LEMMA SelectionsAdd ==
    ASSUME NEW p \in Selections, NEW q \in Selections
    PROVE  /\ Plus(p, q) \in Selections
           /\ \A d \in Denominations : Plus(p, q)[d] = p[d] + q[d]
           /\ AtLeastZero(Minus(p, q)) \in Selections
           /\ \A d \in Denominations : AtLeastZero(Minus(p, q))[d] =
                 IF p[d] < q[d] THEN 0 ELSE p[d] - q[d]
BY DEF Plus, AtLeastZero, Minus, Selections

\* A dispenser that pays all but one coin pays no more than it was asked to.
LEMMA PartialIs ==
    ASSUME NEW p \in Selections
    PROVE  PartialPlan(p) \in Selections /\ \A d \in Denominations : PartialPlan(p)[d] <= p[d]
<1> DEFINE used == {d \in Denominations : p[d] > 0}
<1>1. CASE used = {}
  BY <1>1 DEF PartialPlan, Selections
<1>2. CASE used # {}
  <2>1. Max(used) \in used
    <3>1. used \subseteq Denominations
      OBVIOUS
    <3>2. IsFiniteSet(used) /\ used \in SUBSET Int
      <4> HIDE DEF used
      <4>1. IsFiniteSet(used)
        BY <3>1, ChangeAssumption, FS_Subset
      <4>. QED
        BY <3>1, <4>1, ChangeAssumption
    <3> HIDE DEF used
    <3>. QED
      BY <1>2, <3>2, MaxIsOne
  <2>2. PartialPlan(p) = [p EXCEPT ![Max(used)] = p[Max(used)] - 1]
    BY <1>2 DEF PartialPlan
  <2> DEFINE m == Max(used)
  <2>3. m \in Denominations /\ p[m] \in Nat /\ p[m] > 0
    BY <2>1 DEF Selections
  <2> HIDE DEF m
  <2>. QED
    BY <2>2, <2>3 DEF Selections, m
<1>. QED
  BY <1>1, <1>2

LEMMA AnswerIs ==
    ASSUME MoneyTyped, NEW plan \in Selections, NEW status, Answer(plan, status)
    PROVE  /\ gone' \in Selections /\ cassette' \in Selections
           /\ status = "dispensed" => gone' = Plus(gone, plan)
           /\ status \in {"failed", "raised"} => gone' = gone
<1>1. CASE status = "dispensed"
  BY <1>1, SelectionsAdd DEF Answer, MoneyTyped
<1>2. CASE status = "partial"
  <2> DEFINE paid == PartialPlan(plan)
  <2>1. paid \in Selections /\ \A d \in Denominations : paid[d] <= plan[d]
    BY PartialIs
  <2>2. /\ \A d \in Denominations : cassette[d] >= plan[d]
        /\ gone' = Plus(gone, paid) /\ cassette' = Minus(cassette, paid)
    BY <1>2 DEF Answer, CanDispense
  <2> HIDE DEF paid
  <2>3. gone' \in Selections
    BY <2>1, <2>2, SelectionsAdd DEF MoneyTyped
  <2>4. cassette' \in Selections
    BY <2>1, <2>2 DEF MoneyTyped, Selections, Minus
  <2>. QED
    BY <1>2, <2>3, <2>4
<1>3. CASE status \in {"failed", "raised"}
  BY <1>3 DEF Answer, MoneyTyped
<1>. QED
  BY <1>1, <1>2, <1>3 DEF Answer

LEMMA HeldWithoutIs ==
    ASSUME MoneyTyped, NEW s \in Purchases
    PROVE  HeldWithout(s) \in Selections
<1>1. reserved \in Selections /\ reserves[<<s, "change">>].plan \in Selections
  BY DEF MoneyTyped, Selections, Purposes, Reserves
<1>. QED
  BY <1>1, SelectionsAdd DEF HeldWithout

\* The worst change of a price is a natural number.
LEMMA WorstChange ==
    ASSUME NEW price \in Prices
    PROVE  /\ Max(PossibleChange(price) \cup {0}) \in Nat
           /\ Max(PossibleChange(price) \cup {0}) \in PossibleChange(price) \cup {0}
           /\ PossibleChange(price) \subseteq Nat
<1>1. price \in Nat /\ Underpaid(price) \subseteq 0 .. price - 1
  BY ChangeAssumption DEF Underpaid
<1>2. PossibleChange(price) \subseteq Nat
  <2> SUFFICES ASSUME NEW n \in Underpaid(price), NEW b \in BillValues, n + b >= price
               PROVE  n + b - price \in Nat
    BY DEF PossibleChange
  <2>. QED
    BY <1>1, ChangeAssumption
<1>3. IsFiniteSet(PossibleChange(price) \cup {0})
  <2> DEFINE All == (0 .. price - 1) \X BillValues
             sum == [p \in All |-> p[1] + p[2] - price]
             Most == {sum[p] : p \in All}
  <2>1. IsFiniteSet(All)
    <3>1. price - 1 \in Int
      BY <1>1
    <3>2. IsFiniteSet(0 .. price - 1)
      BY <3>1, FS_Interval
    <3>. QED
      BY <3>2, ChangeAssumption, FS_Product
  <2>2. IsFiniteSet(Most)
    <3> HIDE DEF All, sum
    <3>. QED
      BY <2>1, FiniteImage
  <2>3. PossibleChange(price) \subseteq Most
    BY <1>1 DEF PossibleChange
  <2> HIDE DEF Most
  <2>. QED
    BY <2>2, <2>3, FS_Subset, FS_AddElement
<1> DEFINE S == PossibleChange(price) \cup {0}
<1>4. S \in SUBSET Int /\ S # {} /\ S \subseteq Nat
  BY <1>2
<1> HIDE DEF S
<1>5. Max(S) \in S
  BY <1>3, <1>4, MaxIsOne DEF S
<1>. QED
  BY <1>2, <1>4, <1>5 DEF S

-----------------------------------------------------------------------------
(* Each step keeps the types.                                              *)

LEMMA PlanTakes ==
    ASSUME MoneyTyped, NEW held \in Selections, NEW amount \in Nat
    PROVE  LET plan == PlanChange(Available(held), amount)
           IN  \/ plan = NoPlan
               \/ /\ plan \in Selections
                  /\ \A d \in Denominations :
                        held[d] <= counts[d] => held[d] + plan[d] <= counts[d]
<1> DEFINE plan == PlanChange(Available(held), amount)
<1>1. held \in [Denominations -> Int]
  BY DEF Selections
<1>2. plan = NoPlan \/ (plan \in Selections /\ \A d \in Denominations : plan[d] <= Available(held)[d])
  BY <1>1, AvailableIs, PlanChangeIs DEF Fits
<1>3. ASSUME plan \in Selections, \A d \in Denominations : plan[d] <= Available(held)[d],
             NEW d \in Denominations, held[d] <= counts[d]
      PROVE  held[d] + plan[d] <= counts[d]
  <2>1. Available(held)[d] = IF counts[d] < held[d] THEN 0 ELSE counts[d] - held[d]
    BY <1>1, AvailableIs
  <2>2. counts[d] \in Int /\ held[d] \in Nat /\ plan[d] \in Nat
    BY <1>3 DEF MoneyTyped, Selections
  <2> HIDE DEF plan
  <2>. QED
    BY <1>3, <2>1, <2>2
<1>. QED
  BY <1>2, <1>3

LEMMA ReserveIs ==
    ASSUME MoneyTyped, NEW s \in Purchases, NEW purpose \in Purposes
    PROVE  /\ reserves[<<s, purpose>>] \in Reserves
           /\ reserves[<<s, purpose>>].plan \in Selections
           /\ \A status \in {"none", "consumed", "released"} \cup Outstanding :
                Settled(<<s, purpose>>, status) =
                 [reserves EXCEPT ![<<s, purpose>>] =
                     [status |-> status, plan |-> reserves[<<s, purpose>>].plan]]
<1>1. /\ reserves[<<s, purpose>>] \in Reserves
      /\ reserves[<<s, purpose>>].plan \in Selections
  BY DEF MoneyTyped, Reserves
<1>2. \A r \in Reserves : \A status : [r EXCEPT !.status = status] = [status |-> status, plan |-> r.plan]
  BY DEF Reserves
<1>. QED
  BY <1>1, <1>2 DEF Settled

LEMMA ReservesGo ==
    ASSUME MoneyTyped, NEW s \in Purchases, NEW purpose \in Purposes, NEW r \in Reserves
    PROVE  [reserves EXCEPT ![<<s, purpose>>] = r] \in [Purchases \X Purposes -> Reserves]
BY DEF MoneyTyped, Reserves

LEMMA SettledTyped ==
    ASSUME MoneyTyped, NEW s \in Purchases, NEW purpose \in Purposes,
           NEW status \in {"none", "consumed", "released"} \cup Outstanding
    PROVE  Settled(<<s, purpose>>, status) \in [Purchases \X Purposes -> Reserves]
<1> DEFINE r == [status |-> status, plan |-> reserves[<<s, purpose>>].plan]
<1>1. r \in Reserves
  BY ReserveIs DEF Reserves
<1> HIDE DEF r
<1>2. [reserves EXCEPT ![<<s, purpose>>] = r] \in [Purchases \X Purposes -> Reserves]
  BY <1>1, ReservesGo
<1>3. Settled(<<s, purpose>>, status) = [reserves EXCEPT ![<<s, purpose>>] = r]
  BY ReserveIs DEF r
<1>. QED
  BY <1>2, <1>3

LEMMA ReservedTyped ==
    ASSUME MoneyTyped, NEW s \in Purchases, NEW purpose \in Purposes, NEW plan \in Selections
    PROVE  Reserved(<<s, purpose>>, plan) \in [Purchases \X Purposes -> Reserves]
<1>1. [status |-> "active", plan |-> plan] \in Reserves
  BY DEF Reserves, Outstanding
<1>. QED
  BY <1>1, ReservesGo DEF Reserved

LEMMA ConsumeTyped ==
    ASSUME MoneyTyped, NEW s \in Purchases, NEW purpose \in Purposes, Consume(<<s, purpose>>)
    PROVE  /\ counts' \in [Denominations -> Int] /\ \A d \in Denominations : counts'[d] <= Loaded[d]
           /\ reserved' \in [Denominations -> Nat]
           /\ reserves' \in [Purchases \X Purposes -> Reserves]
<1> DEFINE plan == reserves[<<s, purpose>>].plan
<1>1. plan \in Selections /\ reserved \in Selections
  BY ReserveIs DEF MoneyTyped, Selections
<1>2. counts' = Minus(counts, plan) /\ reserved' = AtLeastZero(Minus(reserved, plan))
  BY DEF Consume
<1>3. reserves' \in [Purchases \X Purposes -> Reserves]
  BY SettledTyped DEF Consume
<1> HIDE DEF plan
<1>4. reserved' \in Selections
  BY <1>1, <1>2, SelectionsAdd
<1>5. \A d \in Denominations : counts'[d] = counts[d] - plan[d] /\ counts[d] \in Int
                               /\ plan[d] \in Nat /\ Loaded[d] \in Nat /\ counts[d] <= Loaded[d]
  BY <1>1, <1>2, ChangeAssumption DEF MoneyTyped, Minus, Selections
<1>6. counts' \in [Denominations -> Int] /\ \A d \in Denominations : counts'[d] <= Loaded[d]
  <2>1. \A d \in Denominations : counts'[d] \in Int /\ counts'[d] <= Loaded[d]
    BY <1>5
  <2>. QED
    BY <1>2, <2>1 DEF Minus
<1>. QED
  BY <1>3, <1>4, <1>6 DEF Selections

LEMMA ReleaseTyped ==
    ASSUME MoneyTyped, NEW s \in Purchases, ReleaseAttached(s)
    PROVE  /\ reserved' \in [Denominations -> Nat]
           /\ reserves' \in [Purchases \X Purposes -> Reserves]
<1>1. reserves \in [Purchases \X Purposes -> Reserves]
  BY DEF MoneyTyped, Reserves
<1>2. Settled(<<s, "change">>, "released") \in [Purchases \X Purposes -> Reserves]
  BY SettledTyped DEF Purposes
<1>3. HeldWithout(s) \in [Denominations -> Nat]
  BY HeldWithoutIs DEF Selections
<1>. QED
  BY <1>1, <1>2, <1>3 DEF ReleaseAttached

\* What a session sets aside for its worst case, it has.
LEMMA WorstPlan ==
    ASSUME MoneyTyped, NEW s \in Purchases, NEW price \in Prices, OpenSession(s, price)
    PROVE  LET plan == PlanChange(Available(reserved), Max(PossibleChange(price) \cup {0}))
           IN  /\ plan \in Selections
               /\ \A d \in Denominations :
                     reserved[d] <= counts[d] => reserved[d] + plan[d] <= counts[d]
<1> DEFINE worst == Max(PossibleChange(price) \cup {0})
           plan == PlanChange(Available(reserved), worst)
<1>1. worst \in Nat /\ worst \in PossibleChange(price) \cup {0}
  BY WorstChange
<1>2. reserved \in Selections /\ Available(reserved) \in Selections
  BY AvailableIs DEF MoneyTyped, Selections
<1>3. plan # NoPlan
  <2>1. CASE worst \in PossibleChange(price)
    BY <2>1 DEF OpenSession
  <2>2. CASE worst = 0
    <3>1. Nothing \in Selections /\ Value(Nothing) = 0
          /\ \A d \in Denominations : Nothing[d] <= Available(reserved)[d]
      BY <1>2, NothingIsWorthNothing DEF Nothing, Selections
    <3>2. PlanChange(Available(reserved), 0) # NoPlan
      <4>1. Fits(Nothing, Available(reserved), 0) /\ NoPlan \notin Selections
        BY <3>1, ChangeAssumption DEF Fits, Selections
      <4>. QED
        BY <1>2, <3>1, <4>1, PlanChangeIs
    <3> HIDE DEF worst
    <3>. QED
      BY <2>2, <3>2
  <2>. QED
    BY <1>1, <2>1, <2>2
<1> HIDE DEF worst
<1>. QED
  BY <1>1, <1>2, <1>3, PlanTakes DEF worst


LEMMA SalesTypedKept ==
    ASSUME SalesTyped, [ChangeNext]_changeVars
    PROVE  SalesTyped'
<1> USE DEF SalesTyped
<1>1. CASE UNCHANGED changeVars
  BY <1>1 DEF changeVars
<1>2. ASSUME NEW s \in Purchases, NEW price \in Prices, OpenSession(s, price) PROVE SalesTyped'
  BY <1>2, ChangeAssumption DEF OpenSession
<1>3. ASSUME NEW s \in Purchases, NEW b \in BillValues, StackBill(s, b) PROVE SalesTyped'
  BY <1>3, ChangeAssumption DEF StackBill
<1>4. ASSUME NEW s \in Purchases, FinalizeReserve(s) PROVE SalesTyped'
  BY <1>4 DEF FinalizeReserve, ReleaseAttached, PayerGoes
<1>5. ASSUME NEW s \in Purchases, PreparePayout(s) PROVE SalesTyped'
  BY <1>5 DEF PreparePayout, PayerGoes
<1>6. ASSUME NEW s \in Purchases, NEW status, PayChange(s, status) PROVE SalesTyped'
  BY <1>6 DEF PayChange, PayerGoes
<1>7. ASSUME NEW s \in Purchases, NEW purpose \in {"repay", "refund"}, ReserveRefund(s, purpose)
      PROVE  SalesTyped'
  BY <1>7 DEF ReserveRefund
<1>8. ASSUME NEW s \in Purchases, NEW purpose \in {"repay", "refund"}, NEW status,
             PayRefund(s, purpose, status)
      PROVE  SalesTyped'
  BY <1>8 DEF PayRefund
<1>9. ASSUME NEW s \in Purchases, CancelSale(s) PROVE SalesTyped'
  BY <1>9 DEF CancelSale, ReleaseAttached
<1>10. ASSUME NEW s \in Purchases, LeaveSale(s) PROVE SalesTyped'
  BY <1>10 DEF LeaveSale
<1>11. CASE AcceptDrift
  BY <1>11 DEF AcceptDrift
<1> HIDE DEF SalesTyped
<1>. QED
  BY <1>1, <1>2, <1>3, <1>4, <1>5, <1>6, <1>7, <1>8, <1>9, <1>10, <1>11 DEF ChangeNext

LEMMA MoneyTypedKept ==
    ASSUME MoneyTyped, SalesTyped, [ChangeNext]_changeVars
    PROVE  MoneyTyped'
<1>1. CASE UNCHANGED <<counts, reserved, reserves, cassette, gone>>
  BY <1>1 DEF MoneyTyped
<1>2. ASSUME NEW s \in Purchases, NEW price \in Prices, OpenSession(s, price) PROVE MoneyTyped'
  <2> DEFINE plan == PlanChange(Available(reserved), Max(PossibleChange(price) \cup {0}))
  <2>1. plan \in Selections /\ reserved \in Selections
    BY <1>2, WorstPlan DEF MoneyTyped, Selections
  <2>2. /\ reserved' = Plus(reserved, plan)
        /\ reserves' = Reserved(<<s, "change">>, plan) \/ reserves' = reserves
        /\ UNCHANGED <<counts, cassette, gone>>
    BY <1>2 DEF OpenSession
  <2> HIDE DEF plan
  <2>3. reserved' \in [Denominations -> Nat]
    BY <2>1, <2>2, SelectionsAdd DEF Selections
  <2>4. reserves' \in [Purchases \X Purposes -> Reserves]
    <3>1. "change" \in Purposes
      BY DEF Purposes
    <3>. QED
      BY <2>1, <2>2, <3>1, ReservedTyped DEF MoneyTyped
  <2>. QED
    BY <2>2, <2>3, <2>4 DEF MoneyTyped
<1>4. ASSUME NEW s \in Purchases, FinalizeReserve(s) PROVE MoneyTyped'
  <2> DEFINE plan == PlanChange(Available(HeldWithout(s)), Due(s))
  <2>1. CASE ReleaseAttached(s)
    BY <1>4, <2>1, ReleaseTyped DEF FinalizeReserve, MoneyTyped
  <2>2. CASE /\ plan # NoPlan /\ reserved' = Plus(HeldWithout(s), plan)
             /\ reserves' = Reserved(<<s, "change">>, plan)
    <3>1. Due(s) \in Nat
      BY <1>4 DEF FinalizeReserve, SalesTyped, Due
    <3>2. HeldWithout(s) \in Selections
      BY HeldWithoutIs
    <3>3. plan \in Selections
      BY <2>2, <3>1, <3>2, PlanTakes
    <3> HIDE DEF plan
    <3>4. reserved' \in [Denominations -> Nat]
      BY <2>2, <3>2, <3>3, SelectionsAdd DEF Selections
    <3>5. reserves' \in [Purchases \X Purposes -> Reserves]
      BY <2>2, <3>3, ReservedTyped DEF Purposes
    <3>. QED
      BY <1>4, <3>4, <3>5 DEF FinalizeReserve, MoneyTyped
  <2>. QED
    BY <1>4, <2>1, <2>2 DEF FinalizeReserve
<1>6. ASSUME NEW s \in Purchases, NEW status, PayChange(s, status) PROVE MoneyTyped'
  <2>1. gone' \in Selections /\ cassette' \in Selections
    <3>1. reserves[<<s, "change">>].plan \in Selections
      BY ReserveIs DEF Purposes
    <3>. QED
      BY <1>6, <3>1, AnswerIs DEF PayChange
  <2>2. CASE Consume(<<s, "change">>)
    BY <2>1, <2>2, ConsumeTyped DEF Purposes, MoneyTyped
  <2>3. CASE UNCHANGED <<counts, reserved>> /\ reserves' \in {Settled(<<s, "change">>, "ambiguous"), reserves}
    <3>1. Settled(<<s, "change">>, "ambiguous") \in [Purchases \X Purposes -> Reserves]
      BY SettledTyped DEF Outstanding, Purposes
    <3>. QED
      BY <2>1, <2>3, <3>1 DEF MoneyTyped
  <2>. QED
    BY <1>6, <2>2, <2>3 DEF PayChange
<1>7. ASSUME NEW s \in Purchases, NEW purpose \in {"repay", "refund"}, ReserveRefund(s, purpose)
      PROVE  MoneyTyped'
  <2> DEFINE plan == PlanChange(Available(reserved), purchase[s].accepted)
  <2>1. plan = NoPlan \/ plan \in Selections
    <3>1. reserved \in Selections /\ purchase[s].accepted \in Nat
      BY DEF MoneyTyped, SalesTyped, Selections
    <3>. QED
      BY <3>1, PlanTakes
  <2>2. /\ UNCHANGED <<reserved, reserves>> \/
              /\ plan # NoPlan /\ reserved' = Plus(reserved, plan)
              /\ reserves' = Reserved(<<s, purpose>>, plan)
        /\ UNCHANGED <<counts, cassette, gone>>
    BY <1>7 DEF ReserveRefund
  <2> HIDE DEF plan
  <2>3. CASE UNCHANGED <<reserved, reserves>>
    BY <2>2, <2>3 DEF MoneyTyped
  <2>4. CASE /\ plan # NoPlan /\ reserved' = Plus(reserved, plan)
             /\ reserves' = Reserved(<<s, purpose>>, plan)
    <3>1. reserved' \in [Denominations -> Nat]
      BY <2>1, <2>4, SelectionsAdd DEF MoneyTyped, Selections
    <3>2. reserves' \in [Purchases \X Purposes -> Reserves]
      BY <2>1, <2>4, ReservedTyped DEF Purposes
    <3>. QED
      BY <2>2, <3>1, <3>2 DEF MoneyTyped
  <2>. QED
    BY <2>2, <2>3, <2>4
<1>8. ASSUME NEW s \in Purchases, NEW purpose \in {"repay", "refund"}, NEW status,
             PayRefund(s, purpose, status)
      PROVE  MoneyTyped'
  <2>1. purpose \in Purposes
    BY DEF Purposes
  <2>2. gone' \in Selections /\ cassette' \in Selections
    <3>1. reserves[<<s, purpose>>].plan \in Selections
      BY <2>1, ReserveIs
    <3>. QED
      BY <1>8, <3>1, AnswerIs DEF PayRefund
  <2>3. CASE Consume(<<s, purpose>>)
    BY <2>1, <2>2, <2>3, ConsumeTyped DEF MoneyTyped
  <2>4. CASE UNCHANGED <<counts, reserved>> /\ reserves' \in {Settled(<<s, purpose>>, "ambiguous"), reserves}
    <3>1. Settled(<<s, purpose>>, "ambiguous") \in [Purchases \X Purposes -> Reserves]
      BY <2>1, SettledTyped DEF Outstanding
    <3>. QED
      BY <2>2, <2>4, <3>1 DEF MoneyTyped
  <2>. QED
    BY <1>8, <2>3, <2>4 DEF PayRefund
<1>9. ASSUME NEW s \in Purchases, CancelSale(s) PROVE MoneyTyped'
  BY <1>9, ReleaseTyped DEF CancelSale, MoneyTyped
<1>10. ASSUME NEW s \in Purchases,
              \/ \E b \in BillValues : StackBill(s, b)
              \/ PreparePayout(s) \/ LeaveSale(s)
       PROVE  UNCHANGED <<counts, reserved, reserves, cassette, gone>>
  BY <1>10 DEF StackBill, PreparePayout, LeaveSale
<1>11. UNCHANGED changeVars \/ AcceptDrift => UNCHANGED <<counts, reserved, reserves, cassette, gone>>
  BY DEF changeVars, AcceptDrift
<1>. QED
  BY <1>1, <1>2, <1>4, <1>6, <1>7, <1>8, <1>9, <1>10, <1>11 DEF ChangeNext

-----------------------------------------------------------------------------
(* Each step keeps the stages of every purchase.                           *)

LEMMA ReservesAre ==
    ASSUME MoneyTyped, NEW s \in Purchases, NEW purpose \in Purposes, NEW r,
           SetTo(s, purpose, r)
    PROVE  /\ reserves'[<<s, purpose>>] = r
           /\ \A t \in Purchases, q \in Purposes :
                 t # s \/ q # purpose => reserves'[<<t, q>>] = reserves[<<t, q>>]
BY DEF MoneyTyped, SetTo

\* The two ways a reserve is written.
LEMMA SettlingIs ==
    ASSUME MoneyTyped, NEW s \in Purchases, NEW purpose \in Purposes,
           NEW status \in {"none", "consumed", "released"} \cup Outstanding,
           reserves' = Settled(<<s, purpose>>, status)
    PROVE  /\ SetTo(s, purpose, [status |-> status, plan |-> reserves[<<s, purpose>>].plan])
           /\ Status(s, purpose)' = status
           /\ \A q \in Purposes : q # purpose => Status(s, q)' = Status(s, q)
<1> DEFINE r == [status |-> status, plan |-> reserves[<<s, purpose>>].plan]
<1>1. SetTo(s, purpose, r)
  BY ReserveIs DEF SetTo
<1>2. r.status = status
  OBVIOUS
<1> HIDE DEF r
<1>3. /\ reserves'[<<s, purpose>>] = r
      /\ \A t \in Purchases, q \in Purposes :
            t # s \/ q # purpose => reserves'[<<t, q>>] = reserves[<<t, q>>]
  BY <1>1, ReservesAre
<1>4. /\ Status(s, purpose)' = status
      /\ \A q \in Purposes : q # purpose => Status(s, q)' = Status(s, q)
  BY <1>2, <1>3 DEF Status
<1>. QED
  BY <1>1, <1>4 DEF r

LEMMA ReservingIs ==
    ASSUME MoneyTyped, NEW s \in Purchases, NEW purpose \in Purposes, NEW plan,
           reserves' = Reserved(<<s, purpose>>, plan)
    PROVE  /\ SetTo(s, purpose, [status |-> "active", plan |-> plan])
           /\ Status(s, purpose)' = "active"
           /\ \A q \in Purposes : q # purpose => Status(s, q)' = Status(s, q)
<1> DEFINE r == [status |-> "active", plan |-> plan]
<1>1. SetTo(s, purpose, r)
  BY DEF Reserved, SetTo
<1>2. r.status = "active"
  OBVIOUS
<1> HIDE DEF r
<1>3. /\ reserves'[<<s, purpose>>] = r
      /\ \A t \in Purchases, q \in Purposes :
            t # s \/ q # purpose => reserves'[<<t, q>>] = reserves[<<t, q>>]
  BY <1>1, ReservesAre
<1>4. /\ Status(s, purpose)' = "active"
      /\ \A q \in Purposes : q # purpose => Status(s, q)' = Status(s, q)
  BY <1>2, <1>3 DEF Status
<1>. QED
  BY <1>1, <1>4 DEF r

\* A purchase that a step does not touch.
SameSale(s) ==
    /\ payer'[s] = payer[s] /\ canceller'[s] = canceller[s]
    /\ s \in attached' <=> s \in attached
    /\ payer[s] # "cash" => Due(s)' = Due(s)
    /\ \A q \in Purposes : reserves'[<<s, q>>].status = reserves[<<s, q>>].status

LEMMA Same ==
    ASSUME NEW s \in Purchases, StagesOf(s), SameSale(s)
    PROVE  StagesOf(s)'
BY DEF StagesOf, SameSale, Status, Purposes

\* A step of one purchase touches no other.
Only(s) ==
    /\ \A t \in Purchases \ {s} :
          /\ payer'[t] = payer[t] /\ canceller'[t] = canceller[t] /\ purchase'[t] = purchase[t]
          /\ t \in attached' <=> t \in attached
    /\ \A t \in Purchases \ {s}, q \in Purposes : reserves'[<<t, q>>] = reserves[<<t, q>>]

LEMMA OthersKeepStages ==
    ASSUME \A t \in Purchases : StagesOf(t), NEW s \in Purchases, Only(s), StagesOf(s)'
    PROVE  \A t \in Purchases : StagesOf(t)'
<1> SUFFICES ASSUME NEW t \in Purchases \ {s} PROVE StagesOf(t)'
  OBVIOUS
<1>1. SameSale(t)
  BY DEF Only, SameSale, Due
<1>. QED
  BY <1>1, Same

OneStep(s) ==
    \/ \E price \in Prices : OpenSession(s, price)
    \/ \E b \in BillValues : StackBill(s, b)
    \/ FinalizeReserve(s) \/ PreparePayout(s)
    \/ \E status \in PayoutStatuses : PayChange(s, status)
    \/ \E purpose \in {"repay", "refund"} :
          ReserveRefund(s, purpose) \/ \E status \in PayoutStatuses : PayRefund(s, purpose, status)
    \/ CancelSale(s)

LEMMA OneAtATime ==
    ASSUME MoneyTyped, SalesTyped, NEW s \in Purchases, OneStep(s)
    PROVE  Only(s)
<1> DEFINE Alone == \A t \in Purchases \ {s} :
                       /\ payer'[t] = payer[t] /\ canceller'[t] = canceller[t]
                       /\ purchase'[t] = purchase[t] /\ (t \in attached' <=> t \in attached)
           Written == \/ reserves' = reserves
                      \/ \E q \in Purposes : \E r : SetTo(s, q, r)
<1>0. "change" \in Purposes /\ "repay" \in Purposes /\ "refund" \in Purposes
  BY DEF Purposes
<1>1. ASSUME NEW price \in Prices, OpenSession(s, price) PROVE Alone /\ Written
  BY <1>0, <1>1, ReservingIs DEF OpenSession, SalesTyped
<1>2. ASSUME NEW b \in BillValues, StackBill(s, b) PROVE Alone /\ Written
  BY <1>2 DEF StackBill, SalesTyped
<1>3. ASSUME FinalizeReserve(s) PROVE Alone /\ Written
  <2>1. Alone
    BY <1>3 DEF FinalizeReserve, SalesTyped, ReleaseAttached, PayerGoes
  <2>2. Written
    <3>1. CASE ReleaseAttached(s)
      BY <1>0, <3>1, SettlingIs DEF ReleaseAttached
    <3>2. CASE \E plan : reserves' = Reserved(<<s, "change">>, plan)
      BY <1>0, <3>2, ReservingIs
    <3>. QED
      BY <1>3, <3>1, <3>2 DEF FinalizeReserve
  <2>. QED
    BY <2>1, <2>2
<1>4. ASSUME PreparePayout(s) PROVE Alone /\ Written
  BY <1>4 DEF PreparePayout, SalesTyped, PayerGoes
<1>5. ASSUME NEW status, PayChange(s, status) PROVE Alone /\ Written
  <2>1. Alone
    BY <1>5 DEF PayChange, SalesTyped, PayerGoes
  <2>2. reserves' = reserves \/ \E to \in {"consumed", "ambiguous"} : reserves' = Settled(<<s, "change">>, to)
    BY <1>5 DEF PayChange, Consume
  <2>3. Written
    BY <1>0, <2>2, SettlingIs DEF Outstanding
  <2>. QED
    BY <2>1, <2>3
<1>6. ASSUME NEW purpose \in {"repay", "refund"}, ReserveRefund(s, purpose) PROVE Alone /\ Written
  <2>1. Alone
    BY <1>6 DEF ReserveRefund, SalesTyped
  <2>2. reserves' = reserves \/ \E plan : reserves' = Reserved(<<s, purpose>>, plan)
    BY <1>6 DEF ReserveRefund
  <2>. QED
    BY <1>0, <2>1, <2>2, ReservingIs
<1>7. ASSUME NEW purpose \in {"repay", "refund"}, NEW status, PayRefund(s, purpose, status)
      PROVE  Alone /\ Written
  <2>1. Alone
    BY <1>7 DEF PayRefund, SalesTyped
  <2>2. reserves' = reserves \/ \E to \in {"consumed", "ambiguous"} : reserves' = Settled(<<s, purpose>>, to)
    BY <1>7 DEF PayRefund, Consume
  <2>3. Written
    BY <1>0, <2>2, SettlingIs DEF Outstanding
  <2>. QED
    BY <2>1, <2>3
<1>8. ASSUME CancelSale(s) PROVE Alone /\ Written
  <2>1. Alone
    BY <1>8 DEF CancelSale, SalesTyped, ReleaseAttached
  <2>2. Written
    BY <1>0, <1>8, SettlingIs DEF CancelSale, ReleaseAttached
  <2>. QED
    BY <2>1, <2>2
<1>9. Alone /\ Written
  <2> HIDE DEF Alone, Written
  <2>. QED
    BY <1>1, <1>2, <1>3, <1>4, <1>5, <1>6, <1>7, <1>8 DEF OneStep
<1>10. \A t \in Purchases \ {s}, q \in Purposes : reserves'[<<t, q>>] = reserves[<<t, q>>]
  <2>1. ASSUME NEW p \in Purposes, NEW r, SetTo(s, p, r),
               NEW t \in Purchases \ {s}, NEW q \in Purposes
        PROVE  reserves'[<<t, q>>] = reserves[<<t, q>>]
    BY <2>1, ReservesAre
  <2>. QED
    BY <1>9, <2>1
<1>. QED
  BY <1>9, <1>10 DEF Only

LEMMA StagesKept ==
    ASSUME MoneyTyped, SalesTyped, MoneyTyped', SalesTyped',
           \A t \in Purchases : StagesOf(t), [ChangeNext]_changeVars
    PROVE  \A t \in Purchases : StagesOf(t)'
<1>0. "change" \in Purposes /\ "repay" \in Purposes /\ "refund" \in Purposes
  BY DEF Purposes
<1>1. ASSUME NEW s \in Purchases, OneStep(s), StagesOf(s)' PROVE \A t \in Purchases : StagesOf(t)'
  BY <1>1, OneAtATime, OthersKeepStages
<1>2. ASSUME NEW s \in Purchases, NEW price \in Prices, OpenSession(s, price) PROVE StagesOf(s)'
  <2>1. payer[s] = "none" /\ payer'[s] = "cash" /\ UNCHANGED canceller
    BY <1>2 DEF OpenSession, SalesTyped
  <2>2. CASE reserves' = reserves /\ attached' = attached
    BY <2>1, <2>2 DEF StagesOf, Status
  <2>3. CASE /\ \E plan : reserves' = Reserved(<<s, "change">>, plan)
             /\ attached' = attached \cup {s}
    <3>1. /\ Status(s, "change")' = "active" /\ Status(s, "repay")' = Status(s, "repay")
          /\ Status(s, "refund")' = Status(s, "refund")
      BY <1>0, <2>3, ReservingIs
    <3>. QED
      BY <2>1, <2>3, <3>1 DEF StagesOf, Outstanding
  <2>. QED
    BY <1>2, <2>2, <2>3 DEF OpenSession
<1>3. ASSUME NEW s \in Purchases, NEW b \in BillValues, StackBill(s, b) PROVE StagesOf(s)'
  <2>1. SameSale(s)
    BY <1>3 DEF StackBill, SameSale, SalesTyped
  <2>. QED
    BY <2>1, Same
<1>4. ASSUME NEW s \in Purchases, FinalizeReserve(s) PROVE StagesOf(s)'
  <2>1. /\ payer[s] = "cash" /\ canceller[s] = "none" /\ UNCHANGED <<canceller, purchase>>
        /\ Due(s) >= 0 /\ Due(s)' = Due(s)
    BY <1>4 DEF FinalizeReserve, Due
  <2>2. CASE ReleaseAttached(s) /\ payer'[s] \in {"settled", "unpayable"}
    <3>1. CASE s \in attached
      <4>1. /\ Status(s, "change")' = "released" /\ Status(s, "repay")' = Status(s, "repay")
            /\ Status(s, "refund")' = Status(s, "refund")
        BY <1>0, <2>2, <3>1, SettlingIs DEF ReleaseAttached
      <4>. QED
        BY <2>1, <2>2, <4>1 DEF StagesOf, Outstanding, ReleaseAttached
    <3>2. CASE s \notin attached
      BY <2>1, <2>2, <3>2 DEF StagesOf, ReleaseAttached, Status
    <3>. QED
      BY <3>1, <3>2
  <2>3. CASE /\ \E plan : reserves' = Reserved(<<s, "change">>, plan)
             /\ attached' = attached \cup {s} /\ payer'[s] = "announced" /\ Due(s) > 0
    <3>1. /\ Status(s, "change")' = "active" /\ Status(s, "repay")' = Status(s, "repay")
          /\ Status(s, "refund")' = Status(s, "refund")
      BY <1>0, <2>3, ReservingIs
    <3>. QED
      BY <2>1, <2>3, <3>1 DEF StagesOf, Outstanding
  <2>. QED
    BY <1>4, <2>2, <2>3 DEF FinalizeReserve, PayerGoes, SalesTyped
<1>5. ASSUME NEW s \in Purchases, PreparePayout(s) PROVE StagesOf(s)'
  BY <1>5 DEF PreparePayout, StagesOf, Status, PayerGoes, SalesTyped, Due
<1>6. ASSUME NEW s \in Purchases, NEW status, PayChange(s, status) PROVE StagesOf(s)'
  <2>1. payer[s] = "change" /\ UNCHANGED <<canceller, purchase, attached>> /\ Due(s)' = Due(s)
    BY <1>6 DEF PayChange, Due
  <2>2. CASE Consume(<<s, "change">>) /\ payer'[s] = "settled" /\ s \in attached
    <3>1. /\ Status(s, "change")' = "consumed" /\ Status(s, "repay")' = Status(s, "repay")
          /\ Status(s, "refund")' = Status(s, "refund")
      BY <1>0, <2>2, SettlingIs DEF Consume
    <3>. QED
      BY <2>1, <2>2, <3>1 DEF StagesOf
  <2>3. CASE reserves' = reserves /\ payer'[s] = "unpayable"
    BY <2>1, <2>3 DEF StagesOf, Status
  <2>4. CASE reserves' = Settled(<<s, "change">>, "ambiguous") /\ s \in attached /\ payer'[s] = "unpayable"
    <3>1. /\ Status(s, "change")' = "ambiguous" /\ Status(s, "repay")' = Status(s, "repay")
          /\ Status(s, "refund")' = Status(s, "refund")
      BY <1>0, <2>4, SettlingIs DEF Outstanding
    <3>. QED
      BY <2>1, <2>4, <3>1 DEF StagesOf, Outstanding
  <2>. QED
    BY <1>6, <2>2, <2>3, <2>4 DEF PayChange, PayerGoes, SalesTyped
<1>7. ASSUME NEW s \in Purchases, NEW purpose \in {"repay", "refund"}, ReserveRefund(s, purpose)
      PROVE  StagesOf(s)'
  <2>1. /\ UNCHANGED <<attached, purchase>> /\ Due(s)' = Due(s) /\ purpose \in Purposes
        /\ IF purpose = "repay"
           THEN payer[s] = "unpayable" /\ payer'[s] \in {"repay", "failed"} /\ UNCHANGED canceller
           ELSE canceller[s] = "announced" /\ canceller'[s] \in {"refund", "failed"} /\ UNCHANGED payer
    BY <1>7 DEF ReserveRefund, Due, SalesTyped, Purposes
  <2>2. CASE /\ reserves' = reserves
             /\ IF purpose = "repay" THEN payer'[s] = "failed" ELSE canceller'[s] = "failed"
    BY <2>1, <2>2 DEF StagesOf, Status
  <2>3. CASE \E plan : reserves' = Reserved(<<s, purpose>>, plan)
    <3>1. /\ Status(s, purpose)' = "active"
          /\ \A q \in Purposes : q # purpose => Status(s, q)' = Status(s, q)
      BY <2>1, <2>3, ReservingIs
    <3>. QED
      BY <1>0, <2>1, <3>1 DEF StagesOf
  <2>. QED
    BY <1>7, <2>2, <2>3 DEF ReserveRefund, SalesTyped
<1>8. ASSUME NEW s \in Purchases, NEW purpose \in {"repay", "refund"}, NEW status,
             PayRefund(s, purpose, status)
      PROVE  StagesOf(s)'
  <2>1. UNCHANGED <<attached, purchase>> /\ Due(s)' = Due(s)
    BY <1>8 DEF PayRefund, Due
  <2>2. \A q \in Purposes : q # purpose => Status(s, q)' = Status(s, q)
    <3>1. reserves' = reserves \/ \E to \in {"consumed", "ambiguous"} : reserves' = Settled(<<s, purpose>>, to)
      BY <1>8 DEF PayRefund, Consume
    <3>2. purpose \in Purposes
      BY DEF Purposes
    <3>. QED
      BY <3>1, <3>2, SettlingIs DEF Status, Outstanding
  <2>3. IF purpose = "repay"
        THEN payer[s] = "repay" /\ payer'[s] \in {"settled", "failed"} /\ UNCHANGED canceller
        ELSE canceller[s] = "refund" /\ canceller'[s] \in {"settled", "failed"} /\ UNCHANGED payer
    BY <1>8 DEF PayRefund, SalesTyped
  <2>. QED
    BY <1>0, <2>1, <2>2, <2>3 DEF StagesOf
<1>9. ASSUME NEW s \in Purchases, CancelSale(s) PROVE StagesOf(s)'
  <2>1. /\ payer[s] # "none" /\ canceller[s] = "none" /\ UNCHANGED <<payer, purchase>>
        /\ canceller'[s] \in {"announced", "settled"} /\ Due(s)' = Due(s)
    BY <1>9 DEF CancelSale, SalesTyped, Due
  <2>2. ReleaseAttached(s) /\ s \notin attached'
    BY <1>9 DEF CancelSale, ReleaseAttached
  <2>3. /\ Status(s, "change")' \notin Outstanding /\ Status(s, "repay")' = Status(s, "repay")
        /\ Status(s, "refund")' = Status(s, "refund")
    <3>1. CASE s \in attached
      <4>1. reserves' = Settled(<<s, "change">>, "released")
        BY <2>2, <3>1 DEF ReleaseAttached
      <4>2. Status(s, "change")' = "released" /\ Status(s, "repay")' = Status(s, "repay")
            /\ Status(s, "refund")' = Status(s, "refund")
        BY <1>0, <4>1, SettlingIs
      <4>. QED
        BY <4>2 DEF Outstanding
    <3>2. CASE s \notin attached
      BY <2>2, <3>2 DEF Status, ReleaseAttached, StagesOf
    <3>. QED
      BY <3>1, <3>2
  <2>. QED
    BY <2>1, <2>2, <2>3 DEF StagesOf
<1>10. ASSUME NEW s \in Purchases, OneStep(s) PROVE \A t \in Purchases : StagesOf(t)'
  <2>1. StagesOf(s)'
    BY <1>2, <1>3, <1>4, <1>5, <1>6, <1>7, <1>8, <1>9, <1>10 DEF OneStep
  <2>. QED
    BY <1>1, <1>10, <2>1
<1>11. CASE (\E s \in Purchases : LeaveSale(s)) \/ AcceptDrift \/ UNCHANGED changeVars
  <2>1. UNCHANGED <<payer, canceller, attached, purchase, reserves>>
    BY <1>11 DEF LeaveSale, AcceptDrift, changeVars
  <2>2. \A t \in Purchases : SameSale(t)
    BY <2>1 DEF SameSale, Due
  <2>. QED
    BY <2>2, Same
<1>. QED
  BY <1>10, <1>11 DEF ChangeNext, OneStep

-----------------------------------------------------------------------------
(* What is booked is what the open reserves hold, and the machine has it.  *)

\* A cancellation that released a consumed reserve is not undone.
LEMMA ReleasedTwiceStays ==
    ASSUME MoneyTyped, SalesTyped, ReleasedTwice, [ChangeNext]_changeVars
    PROVE  ReleasedTwice'
<1>1. PICK t \in Purchases : payer[t] = "settled" /\ Due(t) > 0 /\ canceller[t] # "none"
  BY DEF ReleasedTwice
<1>2. SUFFICES payer'[t] = "settled" /\ Due(t)' = Due(t) /\ canceller'[t] # "none"
  BY <1>1 DEF ReleasedTwice
<1>3. ASSUME NEW s \in Purchases, OneStep(s)
      PROVE  payer'[t] = "settled" /\ Due(t)' = Due(t) /\ canceller'[t] # "none"
  <2>1. CASE s # t
    BY <1>1, <1>3, <2>1, OneAtATime DEF Only, Due
  <2>2. CASE s = t
    <3>1. PICK purpose \in {"repay", "refund"} : ReserveRefund(t, purpose)
                                  \/ \E status \in PayoutStatuses : PayRefund(t, purpose, status)
      BY <1>1, <1>3, <2>2 DEF OneStep, OpenSession, StackBill, FinalizeReserve, PreparePayout,
                              PayChange, CancelSale
    <3>2. UNCHANGED purchase
      BY <3>1 DEF ReserveRefund, PayRefund
    <3>3. payer'[t] = "settled" /\ canceller'[t] # "none"
      BY <1>1, <3>1 DEF ReserveRefund, PayRefund, SalesTyped
    <3>. QED
      BY <3>2, <3>3 DEF Due
  <2>. QED
    BY <2>1, <2>2
<1>4. CASE (\E s \in Purchases : LeaveSale(s)) \/ AcceptDrift \/ UNCHANGED changeVars
  BY <1>1, <1>4 DEF LeaveSale, AcceptDrift, changeVars, Due
<1>. QED
  BY <1>3, <1>4 DEF ChangeNext, OneStep

LEMMA HeldIsBooked ==
    ASSUME MoneyTyped, Balanced, NEW s \in Purchases, NEW purpose \in Purposes,
           NEW d \in Denominations
    PROVE  /\ reserves[<<s, purpose>>].plan[d] \in Nat
           /\ Held(reserves[<<s, purpose>>], d) \in Nat
           /\ Held(reserves[<<s, purpose>>], d) <= reserved[d]
<1> DEFINE D == Purchases \X Purposes
           id == <<s, purpose>>
           f == [i \in DOMAIN reserves |-> Held(reserves[i], d)]
<1>1. /\ DOMAIN reserves = D /\ id \in D
      /\ \A i \in D : Held(reserves[i], d) \in Nat /\ reserves[i].plan[d] \in Nat
  <2>1. \A i \in D : reserves[i].plan[d] \in Nat
    BY DEF MoneyTyped, Selections, Reserves
  <2>. QED
    BY <2>1 DEF MoneyTyped, Held
<1>2. IsFiniteSet(D)
  BY ReservesAreFinite
<1>3. Booked(d) = SumFunction(f)
  BY DEF Booked, Held, Outstanding
<1>4. f \in [D -> Nat] /\ f[id] = Held(reserves[id], d)
  BY <1>1
<1> HIDE DEF f, D
<1>5. f[id] <= SumFunction(f)
  BY <1>1, <1>2, <1>4, SumBounds
<1>. QED
  BY <1>1, <1>3, <1>4, <1>5 DEF Balanced

LEMMA BalanceAfter ==
    ASSUME MoneyTyped, MoneyTyped', Balanced, NEW s \in Purchases, NEW purpose \in Purposes, NEW r,
           SetTo(s, purpose, r),
           \A d \in Denominations :
              /\ reserved'[d] = reserved[d] + Held(r, d) - Held(reserves[<<s, purpose>>], d)
              /\ reserved'[d] <= counts'[d]
    PROVE  Balanced'
<1> SUFFICES ASSUME NEW d \in Denominations
             PROVE  (reserved[d] = Booked(d) /\ reserved[d] <= counts[d])'
  BY DEF Balanced
<1>1. Booked(d)' = Booked(d) + Held(r, d) - Held(reserves[<<s, purpose>>], d)
  BY BookedAfter
<1>2. reserved[d] = Booked(d)
  BY DEF Balanced
<1>. QED
  BY <1>1, <1>2

LEMMA BalanceSame ==
    ASSUME Balanced, UNCHANGED <<counts, reserves>>,
           \A d \in Denominations : reserved'[d] = reserved[d]
    PROVE  Balanced'
<1>1. \A d \in Denominations : Booked(d)' = Booked(d)
  BY DEF Booked
<1>. QED
  BY <1>1 DEF Balanced

\* Releasing the change reserve of a purchase takes what it held off the books.
LEMMA WithoutIs ==
    ASSUME MoneyTyped, Balanced, NEW s \in Purchases, StagesOf(s),
           s \in attached => Status(s, "change") \in Outstanding,
           NEW d \in Denominations
    PROVE  /\ HeldWithout(s)[d] = reserved[d] - Held(reserves[<<s, "change">>], d)
           /\ HeldWithout(s)[d] \in Nat /\ HeldWithout(s)[d] <= reserved[d]
           /\ Held(reserves[<<s, "change">>], d) \in Nat
           /\ reserved[d] \in Nat /\ counts[d] \in Int /\ reserved[d] <= counts[d]
<1> DEFINE plan == reserves[<<s, "change">>].plan
<1>0. "change" \in Purposes
  BY DEF Purposes
<1>1. /\ plan[d] \in Nat /\ Held(reserves[<<s, "change">>], d) <= reserved[d]
      /\ Held(reserves[<<s, "change">>], d) \in Nat
      /\ plan \in Selections /\ reserved \in Selections
      /\ reserved[d] \in Nat /\ counts[d] \in Int /\ reserved[d] <= counts[d]
  BY <1>0, HeldIsBooked, ReserveIs DEF MoneyTyped, Selections, Balanced
<1>2. CASE s \in attached
  <2>1. Held(reserves[<<s, "change">>], d) = plan[d]
    BY <1>2 DEF Held, Status
  <2>2. HeldWithout(s) = AtLeastZero(Minus(reserved, plan))
    BY <1>2 DEF HeldWithout
  <2> HIDE DEF plan
  <2>3. HeldWithout(s)[d] = IF reserved[d] < plan[d] THEN 0 ELSE reserved[d] - plan[d]
    BY <1>1, <2>2, SelectionsAdd
  <2>. QED
    BY <1>1, <2>1, <2>3
<1>3. CASE s \notin attached
  <2>1. Held(reserves[<<s, "change">>], d) = 0
    BY <1>3 DEF Held, Status, StagesOf
  <2>2. HeldWithout(s) = reserved
    BY <1>3 DEF HeldWithout
  <2>. QED
    BY <1>1, <2>1, <2>2
<1>. QED
  BY <1>2, <1>3

LEMMA ReleaseBalances ==
    ASSUME MoneyTyped, MoneyTyped', Balanced, NEW s \in Purchases, StagesOf(s),
           s \in attached => Status(s, "change") \in Outstanding,
           ReleaseAttached(s), UNCHANGED counts
    PROVE  Balanced'
<1>0. "change" \in Purposes
  BY DEF Purposes
<1>1. CASE s \in attached
  <2> DEFINE r == [status |-> "released", plan |-> reserves[<<s, "change">>].plan]
  <2>1. SetTo(s, "change", r)
    <3>1. reserves' = Settled(<<s, "change">>, "released")
      BY <1>1 DEF ReleaseAttached
    <3>. QED
      BY <1>0, <3>1, SettlingIs
  <2>2. ASSUME NEW d \in Denominations
        PROVE  /\ reserved'[d] = reserved[d] + Held(r, d) - Held(reserves[<<s, "change">>], d)
               /\ reserved'[d] <= counts'[d]
    <3>1. Held(r, d) = 0
      BY DEF Held, Outstanding
    <3>2. reserved' = HeldWithout(s)
      BY DEF ReleaseAttached
    <3>3. /\ HeldWithout(s)[d] = reserved[d] - Held(reserves[<<s, "change">>], d)
          /\ HeldWithout(s)[d] \in Nat /\ HeldWithout(s)[d] <= reserved[d]
          /\ Held(reserves[<<s, "change">>], d) \in Nat
          /\ reserved[d] \in Nat /\ counts[d] \in Int /\ reserved[d] <= counts[d]
      BY WithoutIs
    <3> HIDE DEF r
    <3>. QED
      BY <3>1, <3>2, <3>3
  <2> HIDE DEF r
  <2>. QED
    BY <1>0, <2>1, <2>2, BalanceAfter
<1>2. CASE s \notin attached
  BY <1>2, BalanceSame DEF ReleaseAttached, HeldWithout
<1>. QED
  BY <1>1, <1>2

LEMMA ConsumeBalances ==
    ASSUME MoneyTyped, MoneyTyped', Balanced, NEW s \in Purchases, NEW purpose \in Purposes,
           Status(s, purpose) = "active", Consume(<<s, purpose>>)
    PROVE  Balanced'
<1> DEFINE plan == reserves[<<s, purpose>>].plan
           r == [status |-> "consumed", plan |-> plan]
<1>1. SetTo(s, purpose, r)
  <2>1. reserves' = Settled(<<s, purpose>>, "consumed")
    BY DEF Consume
  <2>. QED
    BY <2>1, SettlingIs
<1>2. ASSUME NEW d \in Denominations
      PROVE  /\ reserved'[d] = reserved[d] + Held(r, d) - Held(reserves[<<s, purpose>>], d)
             /\ reserved'[d] <= counts'[d]
  <2>1. Held(r, d) = 0 /\ Held(reserves[<<s, purpose>>], d) = plan[d]
    BY DEF Held, Outstanding, Status
  <2>2. /\ plan[d] \in Nat /\ plan[d] <= reserved[d]
        /\ plan \in Selections /\ reserved \in Selections
        /\ reserved[d] \in Nat /\ counts[d] \in Int /\ reserved[d] <= counts[d]
    <3>1. plan[d] \in Nat /\ plan[d] <= reserved[d]
      BY <2>1, HeldIsBooked
    <3>2. plan \in Selections
      BY ReserveIs
    <3>. QED
      BY <3>1, <3>2 DEF MoneyTyped, Selections, Balanced
  <2>3. counts'[d] = counts[d] - plan[d] /\ reserved' = AtLeastZero(Minus(reserved, plan))
    BY DEF Consume, Minus
  <2> HIDE DEF plan, r
  <2>4. reserved'[d] = IF reserved[d] < plan[d] THEN 0 ELSE reserved[d] - plan[d]
    BY <2>2, <2>3, SelectionsAdd
  <2>. QED
    BY <2>1, <2>2, <2>3, <2>4
<1> HIDE DEF r
<1>. QED
  BY <1>1, <1>2, BalanceAfter

LEMMA AmbiguityBalances ==
    ASSUME MoneyTyped, MoneyTyped', Balanced, NEW s \in Purchases, NEW purpose \in Purposes,
           Status(s, purpose) = "active", reserves' = Settled(<<s, purpose>>, "ambiguous"),
           UNCHANGED <<counts, reserved>>
    PROVE  Balanced'
<1> DEFINE plan == reserves[<<s, purpose>>].plan
           r == [status |-> "ambiguous", plan |-> plan]
<1>1. SetTo(s, purpose, r)
  BY SettlingIs DEF Outstanding
<1>2. ASSUME NEW d \in Denominations
      PROVE  /\ reserved'[d] = reserved[d] + Held(r, d) - Held(reserves[<<s, purpose>>], d)
             /\ reserved'[d] <= counts'[d]
  <2>1. Held(r, d) = plan[d] /\ Held(reserves[<<s, purpose>>], d) = plan[d]
    BY DEF Held, Outstanding, Status
  <2>2. plan[d] \in Nat /\ reserved[d] \in Nat /\ reserved[d] <= counts[d]
    BY HeldIsBooked DEF MoneyTyped, Balanced
  <2> HIDE DEF plan, r
  <2>. QED
    BY <2>1, <2>2
<1> HIDE DEF r
<1>. QED
  BY <1>1, <1>2, BalanceAfter

\* Setting a plan aside that the counts can pay.
LEMMA ReservingBalances ==
    ASSUME MoneyTyped, MoneyTyped', Balanced, NEW s \in Purchases, NEW purpose \in Purposes,
           NEW plan \in Selections, reserves' = Reserved(<<s, purpose>>, plan), UNCHANGED counts,
           \A d \in Denominations :
              /\ reserved'[d] = reserved[d] - Held(reserves[<<s, purpose>>], d) + plan[d]
              /\ reserved'[d] <= counts[d]
    PROVE  Balanced'
<1> DEFINE r == [status |-> "active", plan |-> plan]
<1>1. SetTo(s, purpose, r)
  BY ReservingIs
<1>2. ASSUME NEW d \in Denominations
      PROVE  /\ reserved'[d] = reserved[d] + Held(r, d) - Held(reserves[<<s, purpose>>], d)
             /\ reserved'[d] <= counts'[d]
  <2>1. Held(r, d) = plan[d]
    BY DEF Held, Outstanding
  <2>2. /\ Held(reserves[<<s, purpose>>], d) \in Nat /\ plan[d] \in Nat /\ reserved[d] \in Nat
    BY HeldIsBooked DEF MoneyTyped, Selections
  <2> HIDE DEF r
  <2>. QED
    BY <2>1, <2>2
<1> HIDE DEF r
<1>. QED
  BY <1>1, <1>2, BalanceAfter

LEMMA BalanceKept ==
    ASSUME MoneyTyped, SalesTyped, MoneyTyped', SalesTyped', \A t \in Purchases : StagesOf(t),
           ReleasedTwice \/ Balanced, [ChangeNext]_changeVars
    PROVE  ReleasedTwice' \/ Balanced'
<1>0. "change" \in Purposes /\ "repay" \in Purposes /\ "refund" \in Purposes
  BY DEF Purposes
<1>1. CASE ReleasedTwice
  BY <1>1, ReleasedTwiceStays
<1>2. CASE Balanced
  <2> USE <1>2
  <2>1. ASSUME NEW s \in Purchases, NEW price \in Prices, OpenSession(s, price) PROVE Balanced'
    <3> DEFINE plan == PlanChange(Available(reserved), Max(PossibleChange(price) \cup {0}))
    <3>1. /\ plan \in Selections /\ reserved \in Selections
          /\ \A d \in Denominations : reserved[d] + plan[d] <= counts[d]
      BY <2>1, WorstPlan DEF Balanced, MoneyTyped, Selections
    <3>2. /\ reserved' = Plus(reserved, plan) /\ payer[s] = "none" /\ UNCHANGED counts
          /\ reserves' = IF plan # Nothing THEN Reserved(<<s, "change">>, plan) ELSE reserves
      BY <2>1 DEF OpenSession
    <3> HIDE DEF plan
    <3>3. \A d \in Denominations : reserved'[d] = reserved[d] + plan[d]
                                   /\ reserved[d] \in Nat /\ plan[d] \in Nat
      BY <3>1, <3>2, SelectionsAdd DEF Selections
    <3>4. CASE plan = Nothing
      <4>1. \A d \in Denominations : plan[d] = 0
        BY <3>4 DEF Nothing
      <4>2. \A d \in Denominations : reserved'[d] = reserved[d]
        BY <3>3, <4>1
      <4>. QED
        BY <3>2, <3>4, <4>2, BalanceSame
    <3>5. CASE plan # Nothing
      <4>1. \A d \in Denominations : Held(reserves[<<s, "change">>], d) = 0
        BY <3>2 DEF Held, StagesOf, Status
      <4>2. \A d \in Denominations :
               /\ reserved'[d] = reserved[d] - Held(reserves[<<s, "change">>], d) + plan[d]
               /\ reserved'[d] <= counts[d]
        BY <3>1, <3>3, <4>1
      <4>3. reserves' = Reserved(<<s, "change">>, plan) /\ UNCHANGED counts
        BY <3>2, <3>5
      <4>. QED
        BY <1>0, <3>1, <4>2, <4>3, ReservingBalances
    <3>. QED
      BY <3>4, <3>5
  <2>2. ASSUME NEW s \in Purchases, FinalizeReserve(s) PROVE Balanced'
    <3> DEFINE plan == PlanChange(Available(HeldWithout(s)), Due(s))
    <3>1. /\ payer[s] = "cash" /\ UNCHANGED counts
          /\ s \in attached => Status(s, "change") \in Outstanding
      BY <2>2 DEF FinalizeReserve, StagesOf
    <3>2. CASE ReleaseAttached(s)
      BY <3>1, <3>2, ReleaseBalances
    <3>3. CASE /\ plan # NoPlan /\ reserved' = Plus(HeldWithout(s), plan)
               /\ reserves' = Reserved(<<s, "change">>, plan)
      <4>1. Due(s) \in Nat /\ HeldWithout(s) \in Selections
        BY <2>2, HeldWithoutIs DEF FinalizeReserve, SalesTyped, Due
      <4>2. /\ plan \in Selections
            /\ \A d \in Denominations :
                  HeldWithout(s)[d] <= counts[d] => HeldWithout(s)[d] + plan[d] <= counts[d]
        BY <3>3, <4>1, PlanTakes
      <4> HIDE DEF plan
      <4>3. ASSUME NEW d \in Denominations
            PROVE  /\ reserved'[d] = reserved[d] - Held(reserves[<<s, "change">>], d) + plan[d]
                   /\ reserved'[d] <= counts[d]
        <5>1. reserved'[d] = HeldWithout(s)[d] + plan[d] /\ plan[d] \in Nat
          BY <3>3, <4>1, <4>2, SelectionsAdd DEF Selections
        <5>2. /\ HeldWithout(s)[d] = reserved[d] - Held(reserves[<<s, "change">>], d)
              /\ HeldWithout(s)[d] \in Nat /\ HeldWithout(s)[d] <= reserved[d]
              /\ Held(reserves[<<s, "change">>], d) \in Nat
              /\ reserved[d] \in Nat /\ counts[d] \in Int /\ reserved[d] <= counts[d]
          BY <3>1, WithoutIs
        <5>3. HeldWithout(s)[d] <= counts[d]
          BY <5>2
        <5>. QED
          BY <4>2, <5>1, <5>2, <5>3
      <4>. QED
        BY <1>0, <3>1, <3>3, <4>2, <4>3, ReservingBalances
    <3>. QED
      BY <2>2, <3>2, <3>3 DEF FinalizeReserve
  <2>3. ASSUME NEW s \in Purchases, NEW status, PayChange(s, status) PROVE Balanced'
    <3>1. payer[s] = "change" /\ (s \in attached => Status(s, "change") = "active")
      BY <2>3 DEF PayChange, StagesOf
    <3>2. CASE Consume(<<s, "change">>) /\ s \in attached
      BY <1>0, <3>1, <3>2, ConsumeBalances
    <3>3. CASE UNCHANGED <<counts, reserved, reserves>>
      BY <3>3, BalanceSame
    <3>4. CASE /\ reserves' = Settled(<<s, "change">>, "ambiguous") /\ s \in attached
               /\ UNCHANGED <<counts, reserved>>
      BY <1>0, <3>1, <3>4, AmbiguityBalances
    <3>. QED
      BY <2>3, <3>2, <3>3, <3>4 DEF PayChange
  <2>4. ASSUME NEW s \in Purchases, NEW purpose \in {"repay", "refund"}, ReserveRefund(s, purpose)
        PROVE  Balanced'
    <3> DEFINE plan == PlanChange(Available(reserved), purchase[s].accepted)
    <3>1. purpose \in Purposes /\ Status(s, purpose) = "none" /\ UNCHANGED counts
      BY <2>4 DEF ReserveRefund, StagesOf, Purposes
    <3>2. CASE UNCHANGED <<reserved, reserves>>
      BY <3>1, <3>2, BalanceSame
    <3>3. CASE /\ plan # NoPlan /\ reserved' = Plus(reserved, plan)
               /\ reserves' = Reserved(<<s, purpose>>, plan)
      <4>1. purchase[s].accepted \in Nat /\ reserved \in Selections
        BY DEF SalesTyped, MoneyTyped, Selections
      <4>2. /\ plan \in Selections
            /\ \A d \in Denominations : reserved[d] + plan[d] <= counts[d]
        BY <3>3, <4>1, PlanTakes DEF Balanced
      <4> HIDE DEF plan
      <4>3. \A d \in Denominations : Held(reserves[<<s, purpose>>], d) = 0
        BY <3>1 DEF Held, Status, Outstanding
      <4>4. \A d \in Denominations : reserved'[d] = reserved[d] + plan[d]
                                     /\ reserved[d] \in Nat /\ plan[d] \in Nat
        BY <3>3, <4>1, <4>2, SelectionsAdd DEF Selections
      <4>5. \A d \in Denominations :
               /\ reserved'[d] = reserved[d] - Held(reserves[<<s, purpose>>], d) + plan[d]
               /\ reserved'[d] <= counts[d]
        BY <4>2, <4>3, <4>4
      <4>. QED
        BY <3>1, <3>3, <4>2, <4>5, ReservingBalances
    <3>. QED
      BY <2>4, <3>2, <3>3 DEF ReserveRefund
  <2>5. ASSUME NEW s \in Purchases, NEW purpose \in {"repay", "refund"}, NEW status,
               PayRefund(s, purpose, status)
        PROVE  Balanced'
    <3>1. purpose \in Purposes /\ Status(s, purpose) = "active"
      BY <2>5 DEF PayRefund, StagesOf, Purposes
    <3>2. CASE Consume(<<s, purpose>>)
      BY <3>1, <3>2, ConsumeBalances
    <3>3. CASE UNCHANGED <<counts, reserved, reserves>>
      BY <3>3, BalanceSame
    <3>4. CASE /\ reserves' = Settled(<<s, purpose>>, "ambiguous")
               /\ UNCHANGED <<counts, reserved>>
      BY <3>1, <3>4, AmbiguityBalances
    <3>. QED
      BY <2>5, <3>2, <3>3, <3>4 DEF PayRefund
  <2>6. ASSUME NEW s \in Purchases, CancelSale(s) PROVE ReleasedTwice' \/ Balanced'
    <3>1. CASE s \in attached => Status(s, "change") \in Outstanding
      BY <2>6, <3>1, ReleaseBalances DEF CancelSale
    <3>2. CASE payer[s] = "settled" /\ Due(s) > 0
      <4>1. payer'[s] = "settled" /\ Due(s)' > 0 /\ canceller'[s] # "none"
        BY <2>6, <3>2 DEF CancelSale, Due, SalesTyped
      <4>. QED
        BY <4>1 DEF ReleasedTwice
    <3>. QED
      BY <3>1, <3>2 DEF StagesOf
  <2>7. ASSUME \/ \E s \in Purchases :
                     LeaveSale(s) \/ PreparePayout(s) \/ \E b \in BillValues : StackBill(s, b)
               \/ AcceptDrift \/ UNCHANGED changeVars
        PROVE  Balanced'
    <3>1. UNCHANGED <<counts, reserved, reserves>>
      BY <2>7 DEF LeaveSale, PreparePayout, StackBill, AcceptDrift, changeVars
    <3>. QED
      BY <3>1, BalanceSame
  <2>. QED
    BY <2>1, <2>2, <2>3, <2>4, <2>5, <2>6, <2>7 DEF ChangeNext
<1>. QED
  BY <1>1, <1>2

-----------------------------------------------------------------------------
(* What is in the books and what has left make up what was loaded, unless  *)
(* a payout is ambiguous or a cancellation took its reserve away.          *)

LEMMA TakenAwayStays ==
    ASSUME MoneyTyped, SalesTyped, \A t \in Purchases : StagesOf(t), TakenAway,
           [ChangeNext]_changeVars
    PROVE  TakenAway'
<1>1. PICK t \in Purchases : canceller[t] # "none" /\ payer[t] # "cash" /\ payer[t] # "none"
  BY DEF TakenAway, StagesOf
<1>2. SUFFICES canceller'[t] # "none" /\ payer'[t] # "cash"
  BY DEF TakenAway
<1>3. ASSUME NEW s \in Purchases, OneStep(s) PROVE canceller'[t] # "none" /\ payer'[t] # "cash"
  <2>1. CASE s # t
    BY <1>1, <1>3, <2>1, OneAtATime DEF Only
  <2>2. CASE s = t
    BY <1>1, <1>3, <2>2 DEF OneStep, OpenSession, StackBill, FinalizeReserve, PreparePayout,
                            PayChange, PayerGoes, CancelSale, ReserveRefund, PayRefund, SalesTyped
  <2>. QED
    BY <2>1, <2>2
<1>4. CASE (\E s \in Purchases : LeaveSale(s)) \/ AcceptDrift \/ UNCHANGED changeVars
  BY <1>1, <1>4 DEF LeaveSale, AcceptDrift, changeVars
<1>. QED
  BY <1>3, <1>4 DEF ChangeNext, OneStep

\* An ambiguous payout stays one until a cancellation takes its reserve away.
StaysAmbiguous(s) ==
    \/ \A q \in Purposes : Status(s, q) = "ambiguous" => Status(s, q)' = "ambiguous"
    \/ TakenAway'

LEMMA AmbiguousStays ==
    ASSUME MoneyTyped, SalesTyped, \A t \in Purchases : StagesOf(t),
           NEW s \in Purchases, OneStep(s)
    PROVE  StaysAmbiguous(s)
<1>0. "change" \in Purposes /\ "repay" \in Purposes /\ "refund" \in Purposes
  BY DEF Purposes
<1>1. CASE reserves' = reserves
  BY <1>1 DEF StaysAmbiguous, Status
<1>2. ASSUME NEW purpose \in Purposes, Status(s, purpose) # "ambiguous",
             \/ \E plan : reserves' = Reserved(<<s, purpose>>, plan)
             \/ \E to \in {"consumed", "released", "ambiguous"} :
                   reserves' = Settled(<<s, purpose>>, to)
      PROVE  StaysAmbiguous(s)
  <2>1. \A q \in Purposes : q # purpose => Status(s, q)' = Status(s, q)
    BY <1>2, ReservingIs, SettlingIs DEF Outstanding
  <2>. QED
    BY <1>2, <2>1 DEF StaysAmbiguous
<1>3. ASSUME NEW price \in Prices, OpenSession(s, price) PROVE StaysAmbiguous(s)
  <2>1. Status(s, "change") # "ambiguous"
    BY <1>3 DEF OpenSession, StagesOf, Outstanding
  <2>2. reserves' = reserves \/ \E plan : reserves' = Reserved(<<s, "change">>, plan)
    BY <1>3 DEF OpenSession
  <2>. QED
    BY <1>0, <1>1, <1>2, <2>1, <2>2
<1>4. ASSUME FinalizeReserve(s) PROVE StaysAmbiguous(s)
  <2>1. Status(s, "change") # "ambiguous"
    BY <1>4 DEF FinalizeReserve, StagesOf, Outstanding
  <2>2. \/ reserves' = reserves \/ \E plan : reserves' = Reserved(<<s, "change">>, plan)
        \/ reserves' = Settled(<<s, "change">>, "released")
    BY <1>4 DEF FinalizeReserve, ReleaseAttached
  <2>. QED
    BY <1>0, <1>1, <1>2, <2>1, <2>2
<1>5. ASSUME NEW status, PayChange(s, status) PROVE StaysAmbiguous(s)
  <2>1. Status(s, "change") # "ambiguous"
    BY <1>5 DEF PayChange, StagesOf, Outstanding
  <2>2. reserves' = reserves \/ \E to \in {"consumed", "ambiguous"} : reserves' = Settled(<<s, "change">>, to)
    BY <1>5 DEF PayChange, Consume
  <2>. QED
    BY <1>0, <1>1, <1>2, <2>1, <2>2
<1>6. ASSUME NEW purpose \in {"repay", "refund"}, ReserveRefund(s, purpose) PROVE StaysAmbiguous(s)
  <2>1. Status(s, purpose) # "ambiguous" /\ purpose \in Purposes
    BY <1>6 DEF ReserveRefund, StagesOf, Purposes
  <2>2. reserves' = reserves \/ \E plan : reserves' = Reserved(<<s, purpose>>, plan)
    BY <1>6 DEF ReserveRefund
  <2>. QED
    BY <1>1, <1>2, <2>1, <2>2
<1>7. ASSUME NEW purpose \in {"repay", "refund"}, NEW status, PayRefund(s, purpose, status)
      PROVE  StaysAmbiguous(s)
  <2>1. Status(s, purpose) # "ambiguous" /\ purpose \in Purposes
    BY <1>7 DEF PayRefund, StagesOf, Purposes
  <2>2. reserves' = reserves \/ \E to \in {"consumed", "ambiguous"} : reserves' = Settled(<<s, purpose>>, to)
    BY <1>7 DEF PayRefund, Consume
  <2>. QED
    BY <1>1, <1>2, <2>1, <2>2
<1>8. ASSUME CancelSale(s) PROVE StaysAmbiguous(s)
  <2>1. reserves' = reserves \/ reserves' = Settled(<<s, "change">>, "released")
    BY <1>8 DEF CancelSale, ReleaseAttached
  <2>2. CASE Status(s, "change") # "ambiguous"
    BY <1>0, <1>1, <1>2, <2>1, <2>2
  <2>3. CASE Status(s, "change") = "ambiguous"
    <3>1. payer[s] # "cash"
      BY <2>3 DEF StagesOf, Outstanding
    <3>2. payer'[s] # "cash" /\ canceller'[s] # "none"
      BY <1>8, <3>1 DEF CancelSale, SalesTyped
    <3>. QED
      BY <3>2 DEF StaysAmbiguous, TakenAway
  <2>. QED
    BY <2>2, <2>3
<1>9. CASE PreparePayout(s) \/ \E b \in BillValues : StackBill(s, b)
  BY <1>1, <1>9 DEF PreparePayout, StackBill
<1>. QED
  BY <1>3, <1>4, <1>5, <1>6, <1>7, <1>8, <1>9 DEF OneStep

LEMMA AmbiguousIs ==
    ASSUME MoneyTyped
    PROVE  (\E id \in DOMAIN reserves : reserves[id].status = "ambiguous")
              <=> \E s \in Purchases, q \in Purposes : Status(s, q) = "ambiguous"
<1>1. DOMAIN reserves = Purchases \X Purposes
  BY DEF MoneyTyped
<1>2. ASSUME NEW id \in DOMAIN reserves, reserves[id].status = "ambiguous"
      PROVE  \E s \in Purchases, q \in Purposes : Status(s, q) = "ambiguous"
  <2>1. id[1] \in Purchases /\ id[2] \in Purposes /\ id = <<id[1], id[2]>>
    BY <1>1
  <2>2. Status(id[1], id[2]) = "ambiguous"
    BY <1>2, <2>1 DEF Status
  <2>. QED
    BY <2>1, <2>2
<1>3. ASSUME NEW s \in Purchases, NEW q \in Purposes, Status(s, q) = "ambiguous"
      PROVE  \E id \in DOMAIN reserves : reserves[id].status = "ambiguous"
  <2>1. <<s, q>> \in DOMAIN reserves
    BY <1>1
  <2>. QED
    BY <1>3, <2>1 DEF Status
<1>. QED
  BY <1>2, <1>3

\* A payout that is consumed moves its coins from the books to the outside.
LEMMA ConsumeAccounts ==
    ASSUME MoneyTyped, NEW s \in Purchases, NEW purpose \in Purposes,
           Consume(<<s, purpose>>), gone' = Plus(gone, reserves[<<s, purpose>>].plan),
           Plus(counts, gone) = Loaded
    PROVE  Plus(counts', gone') = Loaded
<1> DEFINE plan == reserves[<<s, purpose>>].plan
<1>1. plan \in Selections /\ gone \in Selections
  BY ReserveIs DEF MoneyTyped
<1>2. counts' = Minus(counts, plan) /\ gone' = Plus(gone, plan)
  BY DEF Consume
<1> HIDE DEF plan
<1>3. ASSUME NEW d \in Denominations PROVE counts'[d] + gone'[d] = counts[d] + gone[d]
  <2>1. plan[d] \in Nat /\ gone[d] \in Nat /\ counts[d] \in Int
    BY <1>1 DEF MoneyTyped, Selections
  <2>2. counts'[d] = counts[d] - plan[d] /\ gone'[d] = gone[d] + plan[d]
    BY <1>2 DEF Plus, Minus
  <2>. QED
    BY <2>1, <2>2
<1>. QED
  BY <1>3 DEF Plus

\* The books after a step that found them in balance.
LEMMA BooksKept ==
    ASSUME MoneyTyped, MoneyTyped', SalesTyped, \A t \in Purchases : StagesOf(t),
           Plus(counts, gone) = Loaded, NEW s \in Purchases, OneStep(s)
    PROVE  Accounted'
<1>0. "change" \in Purposes /\ "repay" \in Purposes /\ "refund" \in Purposes
  BY DEF Purposes
<1>1. CASE UNCHANGED <<counts, gone>>
  BY <1>1 DEF Accounted
<1>2. ASSUME NEW purpose \in Purposes, reserves' = Settled(<<s, purpose>>, "ambiguous")
      PROVE  Accounted'
  <2>1. Status(s, purpose)' = "ambiguous"
    BY <1>2, SettlingIs DEF Outstanding
  <2>2. <<s, purpose>> \in DOMAIN reserves'
    BY DEF MoneyTyped
  <2>. QED
    BY <2>1, <2>2 DEF Accounted, Status
<1>3. ASSUME NEW purpose \in Purposes, Consume(<<s, purpose>>),
             gone' = Plus(gone, reserves[<<s, purpose>>].plan)
      PROVE  Accounted'
  BY <1>3, ConsumeAccounts DEF Accounted
<1>4. ASSUME NEW status \in PayoutStatuses, PayChange(s, status) PROVE Accounted'
  <2>1. reserves[<<s, "change">>].plan \in Selections
    BY <1>0, ReserveIs
  <2>2. /\ status = "dispensed" => gone' = Plus(gone, reserves[<<s, "change">>].plan)
        /\ status \in {"failed", "raised"} => gone' = gone
    BY <1>4, <2>1, AnswerIs DEF PayChange
  <2>3. CASE status = "dispensed" /\ s \in attached
    <3>1. Consume(<<s, "change">>)
      BY <1>4, <2>3 DEF PayChange
    <3>. QED
      BY <1>0, <1>3, <2>2, <2>3, <3>1
  <2>4. CASE status \in {"dispensed", "partial"} /\ s \notin attached
    <3>1. payer[s] = "change" /\ canceller[s] # "none" /\ UNCHANGED canceller
      BY <1>4, <2>4 DEF PayChange, StagesOf
    <3>2. payer'[s] = "unpayable"
      BY <1>4, <2>4 DEF PayChange, PayerGoes, SalesTyped
    <3>. QED
      BY <3>1, <3>2 DEF Accounted, TakenAway
  <2>5. CASE status = "partial" /\ s \in attached
    <3>1. reserves' = Settled(<<s, "change">>, "ambiguous")
      BY <1>4, <2>5 DEF PayChange
    <3>. QED
      BY <1>0, <1>2, <3>1
  <2>6. CASE status \in {"failed", "raised"}
    BY <1>1, <1>4, <2>2, <2>6 DEF PayChange
  <2>. QED
    BY <2>3, <2>4, <2>5, <2>6 DEF PayoutStatuses
<1>5. ASSUME NEW purpose \in {"repay", "refund"}, NEW status \in PayoutStatuses,
             PayRefund(s, purpose, status)
      PROVE  Accounted'
  <2>1. purpose \in Purposes /\ reserves[<<s, purpose>>].plan \in Selections
    BY <1>0, ReserveIs
  <2>2. /\ status = "dispensed" => gone' = Plus(gone, reserves[<<s, purpose>>].plan)
        /\ status \in {"failed", "raised"} => gone' = gone
    BY <1>5, <2>1, AnswerIs DEF PayRefund
  <2>3. CASE status = "dispensed"
    <3>1. Consume(<<s, purpose>>)
      BY <1>5, <2>3 DEF PayRefund
    <3>. QED
      BY <1>3, <2>1, <2>2, <2>3, <3>1
  <2>4. CASE status \in {"partial", "failed"}
    <3>1. reserves' = Settled(<<s, purpose>>, "ambiguous")
      BY <1>5, <2>4 DEF PayRefund
    <3>. QED
      BY <1>2, <2>1, <3>1
  <2>5. CASE status = "raised"
    BY <1>1, <1>5, <2>2, <2>5 DEF PayRefund
  <2>. QED
    BY <2>3, <2>4, <2>5 DEF PayoutStatuses
<1>6. CASE \/ \E price \in Prices : OpenSession(s, price)
           \/ \E b \in BillValues : StackBill(s, b)
           \/ FinalizeReserve(s) \/ PreparePayout(s) \/ CancelSale(s)
           \/ \E purpose \in {"repay", "refund"} : ReserveRefund(s, purpose)
  <2>1. UNCHANGED <<counts, gone>>
    BY <1>6 DEF OpenSession, StackBill, FinalizeReserve, PreparePayout, CancelSale, ReserveRefund
  <2>. QED
    BY <1>1, <2>1
<1>. QED
  BY <1>4, <1>5, <1>6 DEF OneStep

LEMMA AccountedKept ==
    ASSUME MoneyTyped, MoneyTyped', SalesTyped, \A t \in Purchases : StagesOf(t),
           Accounted, [ChangeNext]_changeVars
    PROVE  Accounted'
<1>1. CASE TakenAway
  BY <1>1, TakenAwayStays DEF Accounted
<1>2. ASSUME NEW s \in Purchases, OneStep(s), ~TakenAway PROVE Accounted'
  <2>1. CASE Plus(counts, gone) = Loaded
    BY <1>2, <2>1, BooksKept
  <2>2. CASE \E id \in DOMAIN reserves : reserves[id].status = "ambiguous"
    <3>1. PICK t \in Purchases, q \in Purposes : Status(t, q) = "ambiguous"
      BY <2>2, AmbiguousIs
    <3>2. Status(t, q)' = "ambiguous" \/ TakenAway'
      <4>1. CASE t = s
        BY <1>2, <3>1, <4>1, AmbiguousStays DEF StaysAmbiguous
      <4>2. CASE t # s
        BY <1>2, <3>1, <4>2, OneAtATime DEF Only, Status
      <4>. QED
        BY <4>1, <4>2
    <3>3. <<t, q>> \in DOMAIN reserves'
      BY DEF MoneyTyped
    <3>. QED
      BY <3>2, <3>3 DEF Accounted, Status
  <2>. QED
    BY <1>2, <2>1, <2>2 DEF Accounted
<1>3. CASE (\E s \in Purchases : LeaveSale(s)) \/ AcceptDrift \/ UNCHANGED changeVars
  BY <1>3 DEF LeaveSale, AcceptDrift, changeVars, Accounted, TakenAway
<1>. QED
  BY <1>1, <1>2, <1>3 DEF ChangeNext, OneStep

-----------------------------------------------------------------------------
(* The theorems on the money.                                              *)

LEMMA ChangeStarts == ChangeInit => ChangeInvariant
<1> SUFFICES ASSUME ChangeInit PROVE ChangeInvariant
  OBVIOUS
<1> USE DEF ChangeInit
<1>1. Nothing \in Selections /\ Loaded \in Selections
  BY NothingIsWorthNothing, ChangeAssumption DEF Selections
<1>2. MoneyTyped
  <2>1. NoReserve \in Reserves
    BY <1>1 DEF NoReserve, Reserves
  <2>. QED
    BY <1>1, <2>1, ChangeAssumption DEF MoneyTyped, Selections
<1>3. SalesTyped
  BY DEF SalesTyped
<1>4. \A s \in Purchases, q \in Purposes : Status(s, q) = "none"
  BY DEF Status, NoReserve
<1>5. \A s \in Purchases : StagesOf(s)
  BY <1>4 DEF StagesOf, Purposes, Outstanding
<1>6. Balanced
  <2> SUFFICES ASSUME NEW d \in Denominations PROVE reserved[d] = Booked(d) /\ reserved[d] <= counts[d]
    BY DEF Balanced
  <2> DEFINE D == Purchases \X Purposes
             f == [i \in DOMAIN reserves |-> Held(reserves[i], d)]
  <2>1. Booked(d) = SumFunction(f)
    BY DEF Booked, Held, Outstanding
  <2>2. f \in [D -> Int] /\ \A i \in D : f[i] = 0
    BY DEF Held, Outstanding, NoReserve
  <2> HIDE DEF f, D
  <2>3. SumFunction(f) = 0
    BY <2>2, ReservesAreFinite, SumOfZeros DEF D
  <2>4. reserved[d] = 0 /\ counts[d] \in Nat
    BY ChangeAssumption DEF Nothing
  <2>. QED
    BY <2>1, <2>3, <2>4
<1>7. Plus(counts, gone) = Loaded
  <2>1. \A d \in Denominations : Loaded[d] + Nothing[d] = Loaded[d]
    BY ChangeAssumption DEF Nothing
  <2>2. Loaded = [d \in Denominations |-> Loaded[d]]
    BY ChangeAssumption
  <2>. QED
    BY <2>1, <2>2 DEF Plus
<1>. QED
  BY <1>2, <1>3, <1>5, <1>6, <1>7 DEF ChangeInvariant, Accounted

LEMMA ChangeKept ==
    ASSUME ChangeInvariant, [ChangeNext]_changeVars
    PROVE  ChangeInvariant'
<1>1. MoneyTyped /\ SalesTyped /\ \A s \in Purchases : StagesOf(s)
  BY DEF ChangeInvariant
<1>2. MoneyTyped' /\ SalesTyped'
  BY <1>1, MoneyTypedKept, SalesTypedKept
<1>3. \A s \in Purchases : StagesOf(s)'
  BY <1>1, <1>2, StagesKept
<1>4. ReleasedTwice' \/ Balanced'
  BY <1>1, <1>2, BalanceKept DEF ChangeInvariant
<1>5. Accounted'
  BY <1>1, <1>2, AccountedKept DEF ChangeInvariant
<1>. QED
  BY <1>2, <1>3, <1>4, <1>5 DEF ChangeInvariant

LEMMA ChangeHolds == ChangeSpec => []ChangeInvariant
BY ChangeStarts, ChangeKept, PTL DEF ChangeSpec

\* Of each denomination exactly the coins of the open reserves are booked, and the
\* machine has them, however payouts, refunds and cancellations interleave, unless a
\* sale is cancelled after its change was paid.
THEOREM ReservesAlwaysBalance == ChangeSpec => []ReservesBalance
<1>1. ChangeInvariant => ReservesBalance
  BY DEF ChangeInvariant, Balanced, ReservesBalance
<1>. QED
  BY <1>1, ChangeHolds, PTL

\* The books and what has left the machine make up what was loaded, unless a payout
\* is ambiguous or drift shows it, or a cancellation took the reserve of a payout.
THEOREM BooksAreTrue == ChangeSpec => []CountsAreTrue
<1>1. ChangeInvariant => CountsAreTrue
  BY DEF ChangeInvariant, Accounted, TakenAway, CountsAreTrue
<1>. QED
  BY <1>1, ChangeHolds, PTL

\* The planner finds change exactly when some of the free coins make it, and then
\* its plan is such a choice.
THEOREM PlansAlwaysExact == ChangeSpec => []PlanIsExact
<1>1. ASSUME ChangeInvariant PROVE PlanIsExact
  <2> DEFINE free == Available(reserved)
             most == Max({Loaded[d] : d \in Denominations})
             Coins == {p \in [Denominations -> 0 .. most] : \A d \in Denominations : p[d] <= free[d]}
  <2>1. MoneyTyped
    BY <1>1 DEF ChangeInvariant
  <2>2. free \in Selections /\ \A d \in Denominations : free[d] <= Loaded[d]
    <3>1. /\ free \in Selections
          /\ \A d \in Denominations : free[d] = IF counts[d] < reserved[d] THEN 0 ELSE counts[d] - reserved[d]
      BY <2>1, AvailableIs DEF MoneyTyped
    <3>2. \A d \in Denominations : counts[d] \in Int /\ reserved[d] \in Nat /\ Loaded[d] \in Nat
                                   /\ counts[d] <= Loaded[d]
      BY <2>1, ChangeAssumption DEF MoneyTyped
    <3> HIDE DEF free
    <3>. QED
      BY <3>1, <3>2
  <2>3. \A d \in Denominations : Loaded[d] <= most /\ most \in Int
    <3> DEFINE All == {Loaded[d] : d \in Denominations}
    <3>1. IsFiniteSet(All)
      BY ChangeAssumption, FiniteImage
    <3>2. All \in SUBSET Int
      BY ChangeAssumption
    <3>3. \A d \in Denominations : Loaded[d] \in All
      OBVIOUS
    <3> HIDE DEF All
    <3>4. All # {} => Max(All) \in All /\ \A x \in All : x <= Max(All)
      BY <3>1, <3>2, MaxIsOne
    <3>. QED
      BY <3>2, <3>3, <3>4 DEF All
  <2>4. ASSUME NEW p \in Selections, \A d \in Denominations : p[d] <= free[d] PROVE p \in Coins
    <3>1. ASSUME NEW d \in Denominations PROVE p[d] \in 0 .. most
      <4>1. p[d] \in Nat /\ free[d] \in Nat /\ Loaded[d] \in Nat
        BY <2>2, ChangeAssumption DEF Selections
      <4> HIDE DEF free, most
      <4>. QED
        BY <2>2, <2>3, <2>4, <4>1
    <3> HIDE DEF free, most
    <3>. QED
      BY <2>4, <3>1 DEF Selections
  <2>5. ASSUME NEW p \in Coins PROVE p \in Selections
    <3>1. p \in [Denominations -> 0 .. most]
      OBVIOUS
    <3> HIDE DEF most, Coins
    <3>2. \A d \in Denominations : p[d] \in Nat
      BY <2>3, <3>1
    <3>. QED
      BY <3>1, <3>2 DEF Selections
  <2>6. ASSUME NEW amount \in Nat
        PROVE  LET plan == PlanChange(free, amount)
               IN  IF \E p \in Coins : Value(p) = amount
                   THEN plan \in Coins /\ Value(plan) = amount
                   ELSE plan = NoPlan
    <3>1. LET plan == PlanChange(free, amount)
          IN  \/ plan \in Selections /\ Fits(plan, free, amount)
              \/ plan = NoPlan /\ \A p \in Selections : ~Fits(p, free, amount)
      BY <2>2, PlanChangeIs
    <3>2. \A p \in Coins : p \in Selections /\ \A d \in Denominations : p[d] <= free[d]
      BY <2>5
    <3> HIDE DEF free, Coins
    <3>. QED
      BY <2>4, <3>1, <3>2 DEF Fits
  <2>7. \A amount \in {Value(p) : p \in [Denominations -> 0 .. 1]} \cup Prices : amount \in Nat
    <3>1. \A p \in [Denominations -> 0 .. 1] : p \in Selections
      BY DEF Selections
    <3>2. \A p \in Selections : Value(p) \in Nat
      BY ValueIs
    <3>. QED
      BY <3>1, <3>2, ChangeAssumption
  <2>. QED
    BY <2>6, <2>7 DEF PlanIsExact
<1>. QED
  BY <1>1, ChangeHolds, PTL

-----------------------------------------------------------------------------
(* A sale that was accepted finds its change.                              *)

\* A purchase that is not the active one has no task that could still book or
\* pay anything.
IdleSale(t) ==
    /\ canceller[t] \notin {"announced", "refund"}
    /\ payer[t] \in {"none", "settled", "failed"} \/ (payer[t] = "cash" /\ canceller[t] # "none")

\* Every change the cash of a sale can still come to is one that can be given.
Foreseen(s) ==
    /\ purchase[s].price \in Prices
    /\ \/ purchase[s].accepted \in Underpaid(purchase[s].price)
       \/ Due(s) \in PossibleChange(purchase[s].price)
    /\ \A due \in PossibleChange(purchase[s].price) :
          PlanChange(Available(HeldWithout(s)), due) # NoPlan

Unopened == \A t \in Purchases : payer[t] = "none" => purchase[t].accepted = 0

RefundsAreCash ==
    \A t \in Purchases : canceller[t] \in {"announced", "refund"} => payer[t] = "cash"

OthersIdle == \A t \in Purchases : collecting # t => IdleSale(t)

OpenSalesForeseen ==
    \A s \in Purchases : payer[s] = "cash" /\ canceller[s] = "none" => Foreseen(s)

SupportInvariant == Unopened /\ RefundsAreCash /\ OthersIdle /\ OpenSalesForeseen

\* The sums that bills make, without recursion: the least closed set.
Closed(T) == 0 \in T /\ \A m \in T, b \in BillValues : m + b \in T
BillSums == {n \in Nat : \A T \in SUBSET Nat : Closed(T) => n \in T}

LEMMA BillSumsAre ==
    /\ Closed(BillSums)
    /\ \A n \in BillSums : n = 0 \/ \E b \in BillValues : b <= n /\ n - b \in BillSums
<1>1. Closed(BillSums)
  <2>1. 0 \in BillSums
    BY DEF BillSums, Closed
  <2>2. ASSUME NEW m \in BillSums, NEW b \in BillValues PROVE m + b \in BillSums
    <3>1. m + b \in Nat
      BY ChangeAssumption DEF BillSums
    <3>. QED
      BY <3>1 DEF BillSums, Closed
  <2>. QED
    BY <2>1, <2>2 DEF Closed
<1> DEFINE T == {n \in BillSums : n = 0 \/ \E b \in BillValues : b <= n /\ n - b \in BillSums}
<1>2. T \in SUBSET Nat
  BY DEF BillSums
<1>3. Closed(T)
  <2>1. 0 \in T
    BY <1>1 DEF Closed
  <2>2. ASSUME NEW m \in T, NEW b \in BillValues PROVE m + b \in T
    <3>1. m \in Nat /\ b \in Nat /\ m \in BillSums
      BY <1>2, ChangeAssumption
    <3>2. m + b \in BillSums
      BY <1>1, <3>1 DEF Closed
    <3>3. b <= m + b /\ (m + b) - b = m
      BY <3>1
    <3>. QED
      BY <3>1, <3>2, <3>3
  <2> HIDE DEF T
  <2>. QED
    BY <2>1, <2>2 DEF Closed
<1>4. \A n \in BillSums : n \in T
  <2> HIDE DEF T
  <2>. QED
    BY <1>2, <1>3 DEF BillSums
<1>. QED
  BY <1>1, <1>4

\* The totals below a price start with none and grow bill by bill.
LEMMA UnderpaidGrows ==
    ASSUME NEW price \in Nat \ {0}
    PROVE  /\ 0 \in Underpaid(price) /\ Underpaid(price) \subseteq 0 .. price - 1
           /\ \A n \in Underpaid(price), b \in BillValues :
                 n + b < price => n + b \in Underpaid(price)
<1> DEFINE Body(R) == [n \in 0 .. price - 1 |->
                          n = 0 \/ \E b \in BillValues : b <= n /\ R[n - b]]
           F == [n \in 0 .. price - 1 |-> n \in BillSums]
           Reachable == CHOOSE R : R = Body(R)
<1>1. ASSUME NEW R, R = Body(R), NEW n \in 0 .. price - 1
      PROVE  R[n] <=> (n = 0 \/ \E b \in BillValues : b <= n /\ R[n - b])
  BY <1>1
<1>2. Body(F) = F
  <2>1. ASSUME NEW n \in 0 .. price - 1
        PROVE  (n = 0 \/ \E b \in BillValues : b <= n /\ F[n - b]) <=> n \in BillSums
    <3>1. \A b \in BillValues : b <= n => n - b \in 0 .. price - 1 /\ (n - b) + b = n
      BY ChangeAssumption
    <3>2. ASSUME NEW b \in BillValues, b <= n PROVE F[n - b] <=> n - b \in BillSums
      BY <3>1, <3>2
    <3>3. ASSUME NEW b \in BillValues, b <= n, n - b \in BillSums PROVE n \in BillSums
      BY <3>1, <3>3, BillSumsAre DEF Closed
    <3>4. 0 \in BillSums
      BY BillSumsAre DEF Closed
    <3> HIDE DEF F
    <3>5. ASSUME NEW b \in BillValues, b <= n, F[n - b] PROVE n \in BillSums
      BY <3>2, <3>3, <3>5
    <3>6. ASSUME n \in BillSums, n # 0 PROVE \E b \in BillValues : b <= n /\ F[n - b]
      <4>1. PICK b \in BillValues : b <= n /\ n - b \in BillSums
        BY <3>6, BillSumsAre
      <4>. QED
        BY <3>2, <4>1
    <3>. QED
      BY <3>4, <3>5, <3>6, Zenon
  <2> HIDE DEF F
  <2>2. Body(F) = [n \in 0 .. price - 1 |-> n \in BillSums]
    <3>1. ASSUME NEW n \in 0 .. price - 1
          PROVE  (n = 0 \/ \E b \in BillValues : b <= n /\ F[n - b]) = (n \in BillSums)
      BY <2>1
    <3>. QED
      BY <3>1, Zenon
  <2>. QED
    BY <2>2 DEF F
<1>3. Reachable = Body(Reachable)
  <2>1. \E R : R = Body(R)
    <3> HIDE DEF F, Body
    <3>. QED
      BY <1>2
  <2> HIDE DEF Body
  <2>. QED
    BY <2>1
<1>4. Underpaid(price) = {n \in 0 .. price - 1 : Reachable[n]}
  BY DEF Underpaid
<1>5. 0 \in 0 .. price - 1
  OBVIOUS
<1>6. ASSUME NEW n \in 0 .. price - 1, Reachable[n], NEW b \in BillValues, n + b < price
      PROVE  n + b \in 0 .. price - 1 /\ Reachable[n + b]
  <2>1. b \in Nat /\ n + b \in 0 .. price - 1 /\ b <= n + b /\ (n + b) - b = n
    BY <1>6, ChangeAssumption
  <2> HIDE DEF Reachable, Body
  <2>2. Reachable[(n + b) - b]
    BY <1>6, <2>1
  <2>. QED
    BY <1>1, <1>3, <2>1, <2>2
<1>7. Reachable[0]
  <2> HIDE DEF Reachable, Body
  <2>. QED
    BY <1>1, <1>3, <1>5
<1> HIDE DEF Reachable, Body
<1>. QED
  BY <1>4, <1>5, <1>6, <1>7

LEMMA BillsReach ==
    ASSUME NEW price \in Prices, NEW n \in Underpaid(price), NEW b \in BillValues
    PROVE  n + b \in Underpaid(price) \/ n + b - price \in PossibleChange(price)
<1>1. price \in Nat \ {0} /\ n \in Nat /\ b \in Nat
  <2>1. price \in Nat \ {0} /\ b \in Nat
    BY ChangeAssumption
  <2>. QED
    BY <2>1, UnderpaidGrows
<1>2. CASE n + b < price
  BY <1>1, <1>2, UnderpaidGrows
<1>3. CASE n + b >= price
  <2>1. <<n, b>> \in {q \in Underpaid(price) \X BillValues : q[1] + q[2] >= price}
    BY <1>3
  <2>2. <<n, b>>[1] + <<n, b>>[2] - price = n + b - price
    OBVIOUS
  <2>. QED
    BY <2>1, <2>2 DEF PossibleChange
<1>. QED
  BY <1>1, <1>2, <1>3

\* More coins never make an amount impossible.
LEMMA MoreCoinsPay ==
    ASSUME NEW free \in Selections, NEW more \in Selections, NEW amount \in Nat,
           \A d \in Denominations : free[d] <= more[d],
           PlanChange(free, amount) # NoPlan
    PROVE  PlanChange(more, amount) # NoPlan
<1>1. PlanChange(free, amount) \in Selections /\ Fits(PlanChange(free, amount), free, amount)
  BY PlanChangeIs
<1>2. Fits(PlanChange(free, amount), more, amount)
  BY <1>1 DEF Fits, Selections
<1>3. NoPlan \notin Selections
  BY ChangeAssumption DEF Selections
<1>. QED
  BY <1>1, <1>2, <1>3, PlanChangeIs

LEMMA HeldAfterIs ==
    ASSUME MoneyTyped', NEW s \in Purchases
    PROVE  /\ HeldWithout(s)' \in Selections
           /\ \A d \in Denominations :
                 HeldWithout(s)'[d] = IF s \in attached'
                                      THEN IF reserved'[d] < reserves'[<<s, "change">>].plan[d] THEN 0
                                           ELSE reserved'[d] - reserves'[<<s, "change">>].plan[d]
                                      ELSE reserved'[d]
<1>1. reserved' \in Selections /\ reserves'[<<s, "change">>].plan \in Selections
  BY DEF MoneyTyped, Selections, Purposes, Reserves
<1>2. HeldWithout(s)' = IF s \in attached'
                        THEN AtLeastZero(Minus(reserved', reserves'[<<s, "change">>].plan))
                        ELSE reserved'
  BY DEF HeldWithout
<1>. QED
  BY <1>1, <1>2, SelectionsAdd

LEMMA HeldNowIs ==
    ASSUME MoneyTyped, NEW s \in Purchases
    PROVE  /\ HeldWithout(s) \in Selections
           /\ \A d \in Denominations :
                 HeldWithout(s)[d] = IF s \in attached
                                     THEN IF reserved[d] < reserves[<<s, "change">>].plan[d] THEN 0
                                          ELSE reserved[d] - reserves[<<s, "change">>].plan[d]
                                     ELSE reserved[d]
<1>1. reserved \in Selections /\ reserves[<<s, "change">>].plan \in Selections
  BY DEF MoneyTyped, Selections, Purposes, Reserves
<1>. QED
  BY <1>1, SelectionsAdd DEF HeldWithout

\* Change that could be given still can when no more is booked.
LEMMA StillPaid ==
    ASSUME MoneyTyped, MoneyTyped', NEW s \in Purchases, NEW held \in Selections,
           counts' = counts, \A d \in Denominations : HeldWithout(s)'[d] <= held[d],
           NEW amount \in Nat, PlanChange(Available(held), amount) # NoPlan
    PROVE  PlanChange(Available(HeldWithout(s)), amount)' # NoPlan
<1> DEFINE less == HeldWithout(s)'
<1>1. less \in Selections
  BY HeldAfterIs
<1>2. PlanChange(Available(HeldWithout(s)), amount)' = PlanChange(Available(less), amount)
  BY DEF Available
<1>3. held \in [Denominations -> Int] /\ less \in [Denominations -> Int]
  BY <1>1 DEF Selections
<1> HIDE DEF less
<1>4. /\ Available(held) \in Selections /\ Available(less) \in Selections
      /\ \A d \in Denominations :
            /\ Available(held)[d] = IF counts[d] < held[d] THEN 0 ELSE counts[d] - held[d]
            /\ Available(less)[d] = IF counts[d] < less[d] THEN 0 ELSE counts[d] - less[d]
  BY <1>3, AvailableIs
<1>5. \A d \in Denominations : Available(held)[d] <= Available(less)[d]
  <2>1. ASSUME NEW d \in Denominations
        PROVE  counts[d] \in Int /\ held[d] \in Nat /\ less[d] \in Nat /\ less[d] <= held[d]
    BY <1>1 DEF MoneyTyped, Selections, less
  <2>. QED
    BY <1>4, <2>1
<1>. QED
  BY <1>2, <1>4, <1>5, MoreCoinsPay

LEMMA StillForeseen ==
    ASSUME MoneyTyped, MoneyTyped', NEW s \in Purchases, Foreseen(s),
           counts' = counts, purchase'[s] = purchase[s],
           \A d \in Denominations : HeldWithout(s)'[d] <= HeldWithout(s)[d]
    PROVE  Foreseen(s)'
<1>1. HeldWithout(s) \in Selections
  BY HeldWithoutIs
<1>2. purchase[s].price \in Prices
  BY DEF Foreseen
<1>3. ASSUME NEW due \in PossibleChange(purchase[s].price)
      PROVE  PlanChange(Available(HeldWithout(s)), due)' # NoPlan
  <2>1. due \in Nat /\ PlanChange(Available(HeldWithout(s)), due) # NoPlan
    BY <1>2, WorstChange DEF Foreseen
  <2>. QED
    BY <1>1, <2>1, StillPaid
<1>4. Due(s)' = Due(s)
  BY DEF Due
<1>. QED
  BY <1>2, <1>3, <1>4 DEF Foreseen

LEMMA UnopenedKept ==
    ASSUME SalesTyped, Unopened, [ChangeNext]_changeVars
    PROVE  Unopened'
<1> USE DEF Unopened
<1>1. ASSUME NEW s \in Purchases, OneStep(s) PROVE Unopened'
  <2> SUFFICES ASSUME NEW t \in Purchases, payer'[t] = "none" PROVE purchase'[t].accepted = 0
    OBVIOUS
  <2>1. ASSUME NEW price \in Prices, OpenSession(s, price) PROVE purchase'[t].accepted = 0
    BY <2>1 DEF OpenSession, SalesTyped
  <2>2. ASSUME NEW b \in BillValues, StackBill(s, b) PROVE purchase'[t].accepted = 0
    BY <2>2 DEF StackBill, SalesTyped
  <2>3. CASE FinalizeReserve(s)
    BY <2>3 DEF FinalizeReserve, PayerGoes, SalesTyped
  <2>4. CASE PreparePayout(s)
    BY <2>4 DEF PreparePayout, PayerGoes, SalesTyped
  <2>5. ASSUME NEW status, PayChange(s, status) PROVE purchase'[t].accepted = 0
    BY <2>5 DEF PayChange, PayerGoes, SalesTyped
  <2>6. ASSUME NEW purpose \in {"repay", "refund"}, ReserveRefund(s, purpose)
        PROVE  purchase'[t].accepted = 0
    BY <2>6 DEF ReserveRefund, SalesTyped
  <2>7. ASSUME NEW purpose \in {"repay", "refund"}, NEW status, PayRefund(s, purpose, status)
        PROVE  purchase'[t].accepted = 0
    BY <2>7 DEF PayRefund, SalesTyped
  <2>8. CASE CancelSale(s)
    BY <2>8 DEF CancelSale
  <2>. QED
    BY <1>1, <2>1, <2>2, <2>3, <2>4, <2>5, <2>6, <2>7, <2>8 DEF OneStep
<1>2. CASE (\E s \in Purchases : LeaveSale(s)) \/ AcceptDrift \/ UNCHANGED changeVars
  BY <1>2 DEF LeaveSale, AcceptDrift, changeVars
<1>. QED
  BY <1>1, <1>2 DEF ChangeNext, OneStep

LEMMA RefundsKept ==
    ASSUME SalesTyped, RefundsAreCash, [ChangeNext]_changeVars
    PROVE  RefundsAreCash'
<1> USE DEF RefundsAreCash
<1>1. ASSUME NEW s \in Purchases, OneStep(s) PROVE RefundsAreCash'
  <2> SUFFICES ASSUME NEW t \in Purchases, canceller'[t] \in {"announced", "refund"}
               PROVE  payer'[t] = "cash"
    OBVIOUS
  <2>1. ASSUME NEW price \in Prices, OpenSession(s, price) PROVE payer'[t] = "cash"
    BY <2>1 DEF OpenSession, SalesTyped
  <2>2. ASSUME NEW b \in BillValues, StackBill(s, b) PROVE payer'[t] = "cash"
    BY <2>2 DEF StackBill
  <2>3. CASE FinalizeReserve(s)
    BY <2>3 DEF FinalizeReserve, PayerGoes, SalesTyped
  <2>4. CASE PreparePayout(s)
    BY <2>4 DEF PreparePayout, PayerGoes, SalesTyped
  <2>5. ASSUME NEW status, PayChange(s, status) PROVE payer'[t] = "cash"
    BY <2>5 DEF PayChange, PayerGoes, SalesTyped
  <2>6. ASSUME NEW purpose \in {"repay", "refund"}, ReserveRefund(s, purpose)
        PROVE  payer'[t] = "cash"
    BY <2>6 DEF ReserveRefund, SalesTyped
  <2>7. ASSUME NEW purpose \in {"repay", "refund"}, NEW status, PayRefund(s, purpose, status)
        PROVE  payer'[t] = "cash"
    BY <2>7 DEF PayRefund, SalesTyped
  <2>8. CASE CancelSale(s)
    BY <2>8 DEF CancelSale, SalesTyped
  <2>. QED
    BY <1>1, <2>1, <2>2, <2>3, <2>4, <2>5, <2>6, <2>7, <2>8 DEF OneStep
<1>2. CASE (\E s \in Purchases : LeaveSale(s)) \/ AcceptDrift \/ UNCHANGED changeVars
  BY <1>2 DEF LeaveSale, AcceptDrift, changeVars
<1>. QED
  BY <1>1, <1>2 DEF ChangeNext, OneStep

\* What a sale that is not the active one can still do.
LEMMA IdleSteps ==
    ASSUME SalesTyped, NEW s \in Purchases, IdleSale(s), OneStep(s)
    PROVE  (\E price \in Prices : OpenSession(s, price)) \/ CancelSale(s)
<1>1. ASSUME NEW b \in BillValues, StackBill(s, b) PROVE FALSE
  BY <1>1 DEF StackBill, IdleSale
<1>2. CASE FinalizeReserve(s)
  BY <1>2 DEF FinalizeReserve, IdleSale
<1>3. CASE PreparePayout(s)
  BY <1>3 DEF PreparePayout, IdleSale
<1>4. ASSUME NEW status, PayChange(s, status) PROVE FALSE
  BY <1>4 DEF PayChange, IdleSale
<1>5. ASSUME NEW purpose \in {"repay", "refund"}, ReserveRefund(s, purpose) PROVE FALSE
  BY <1>5 DEF ReserveRefund, IdleSale
<1>6. ASSUME NEW purpose \in {"repay", "refund"}, NEW status, PayRefund(s, purpose, status)
      PROVE  FALSE
  BY <1>6 DEF PayRefund, IdleSale
<1>. QED
  BY <1>1, <1>2, <1>3, <1>4, <1>5, <1>6 DEF OneStep

LEMMA OthersStayIdle ==
    ASSUME MoneyTyped, SalesTyped, RefundsAreCash, OthersIdle, [ChangeNext]_changeVars
    PROVE  OthersIdle'
<1>1. ASSUME NEW s \in Purchases, OneStep(s) PROVE OthersIdle'
  <2>1. ASSUME NEW t \in Purchases \ {s}, IdleSale(t) PROVE IdleSale(t)'
    BY <1>1, <2>1, OneAtATime DEF Only, IdleSale
  <2>2. ASSUME NEW price \in Prices, OpenSession(s, price) PROVE OthersIdle'
    <3>1. collecting = Nobody /\ collecting' = s
      BY <2>2 DEF OpenSession
    <3>. QED
      BY <2>1, <3>1, ChangeAssumption DEF OthersIdle
  <2>3. CASE CancelSale(s)
    <3>1. ASSUME collecting' # s PROVE IdleSale(s)'
      <4>1. CASE collecting # s
        BY <2>3, <4>1 DEF CancelSale, OthersIdle, IdleSale, SalesTyped
      <4>2. CASE collecting = s
        BY <2>3, <3>1, <4>2 DEF CancelSale, IdleSale, SalesTyped
      <4>. QED
        BY <4>1, <4>2
    <3>2. ASSUME NEW t \in Purchases \ {s}, collecting' # t PROVE collecting # t
      BY <2>3, <3>2, ChangeAssumption DEF CancelSale
    <3>. QED
      BY <2>1, <3>1, <3>2 DEF OthersIdle
  <2>4. CASE collecting' = collecting /\ collecting = s
    BY <2>1, <2>4 DEF OthersIdle
  <2>5. CASE collecting # s
    BY <1>1, <2>2, <2>3, <2>5, IdleSteps DEF OthersIdle
  <2>6. CASE collecting = s
    <3>1. collecting' = collecting \/ CancelSale(s)
      BY <1>1, <2>6, ChangeAssumption DEF OneStep, OpenSession, StackBill, FinalizeReserve,
         PreparePayout, PayChange, ReserveRefund, PayRefund
    <3>. QED
      BY <2>3, <2>4, <2>6, <3>1
  <2>. QED
    BY <2>5, <2>6
<1>2. ASSUME NEW s \in Purchases, LeaveSale(s) PROVE OthersIdle'
  <2>1. /\ collecting = s /\ UNCHANGED <<payer, canceller>>
        /\ payer[s] \in {"settled", "failed"} \/ (payer[s] = "cash" /\ canceller[s] = "settled")
    BY <1>2 DEF LeaveSale
  <2>2. \A t \in Purchases : IdleSale(t)
    BY <2>1 DEF OthersIdle, IdleSale, RefundsAreCash
  <2>. QED
    BY <2>1, <2>2 DEF OthersIdle, IdleSale
<1>3. CASE AcceptDrift \/ UNCHANGED changeVars
  BY <1>3 DEF AcceptDrift, changeVars, OthersIdle, IdleSale
<1>. QED
  BY <1>1, <1>2, <1>3 DEF ChangeNext, OneStep

\* Opening a session checks every change against what is free before its own reserve.
LEMMA OpenedIsForeseen ==
    ASSUME MoneyTyped, MoneyTyped', SalesTyped, Unopened, NEW s \in Purchases, StagesOf(s),
           NEW price \in Prices, OpenSession(s, price)
    PROVE  Foreseen(s)'
<1> DEFINE plan == PlanChange(Available(reserved), Max(PossibleChange(price) \cup {0}))
<1>1. /\ payer[s] = "none" /\ s \notin attached
      /\ \A due \in PossibleChange(price) : PlanChange(Available(reserved), due) # NoPlan
      /\ reserved' = Plus(reserved, plan) /\ counts' = counts
      /\ reserves' = IF plan # Nothing THEN Reserved(<<s, "change">>, plan) ELSE reserves
      /\ attached' = IF plan # Nothing THEN attached \cup {s} ELSE attached
  BY DEF OpenSession, StagesOf
<1>2. purchase'[s].price = price /\ purchase'[s].accepted = 0
  BY <1>1 DEF OpenSession, SalesTyped, Unopened
<1>3. plan \in Selections /\ reserved \in Selections
  BY WorstPlan DEF MoneyTyped, Selections
<1>4. plan # Nothing => reserves'[<<s, "change">>].plan = plan
  <2> HIDE DEF plan
  <2>. QED
    BY <1>1 DEF Reserved, MoneyTyped, Purposes
<1> HIDE DEF plan
<1>5. ASSUME NEW d \in Denominations PROVE HeldWithout(s)'[d] <= reserved[d]
  <2>1. reserved'[d] = reserved[d] + plan[d] /\ reserved[d] \in Nat /\ plan[d] \in Nat
    BY <1>1, <1>3 DEF Plus, Selections
  <2>2. HeldWithout(s)'[d] = IF s \in attached'
                             THEN IF reserved'[d] < reserves'[<<s, "change">>].plan[d] THEN 0
                                  ELSE reserved'[d] - reserves'[<<s, "change">>].plan[d]
                             ELSE reserved'[d]
    BY HeldAfterIs
  <2>3. CASE plan = Nothing
    <3>1. s \notin attached' /\ plan[d] = 0
      BY <1>1, <2>3 DEF Nothing
    <3>. QED
      BY <2>1, <2>2, <3>1
  <2>4. CASE plan # Nothing
    <3>1. s \in attached' /\ reserves'[<<s, "change">>].plan[d] = plan[d]
      BY <1>1, <1>4, <2>4
    <3>. QED
      BY <2>1, <2>2, <3>1
  <2>. QED
    BY <2>3, <2>4
<1>6. ASSUME NEW due \in PossibleChange(price)
      PROVE  PlanChange(Available(HeldWithout(s)), due)' # NoPlan
  <2>1. due \in Nat
    BY WorstChange
  <2>. QED
    BY <1>1, <1>3, <1>5, <2>1, StillPaid
<1>7. 0 \in Underpaid(price)
  BY ChangeAssumption, UnderpaidGrows
<1>. QED
  BY <1>2, <1>6, <1>7 DEF Foreseen

LEMMA StackedIsForeseen ==
    ASSUME MoneyTyped, SalesTyped, NEW s \in Purchases, Foreseen(s),
           NEW b \in BillValues, StackBill(s, b)
    PROVE  Foreseen(s)'
<1> DEFINE price == purchase[s].price
           n == purchase[s].accepted
<1>1. /\ price \in Prices /\ n \in Nat /\ n < price /\ Due(s) = n - price
      /\ purchase'[s].price = price /\ purchase'[s].accepted = n + b
      /\ Due(s)' = n + b - price
  <2>1. price \in Prices /\ n \in Nat /\ n < price /\ Due(s) = n - price
    BY DEF StackBill, Foreseen, SalesTyped, Due
  <2>2. purchase'[s].price = price /\ purchase'[s].accepted = n + b
    <3>1. purchase'[s] = [purchase[s] EXCEPT !.accepted = n + b]
      BY DEF StackBill, SalesTyped
    <3>2. purchase[s] \in [price : Nat, accepted : Nat]
      BY DEF SalesTyped
    <3> HIDE DEF n
    <3>. QED
      BY <3>1, <3>2
  <2>3. Due(s)' = n + b - price
    <3>1. Due(s)' = purchase'[s].accepted - purchase'[s].price
      BY DEF Due
    <3>2. n \in Nat /\ b \in Nat /\ price \in Nat
      BY <2>1, ChangeAssumption
    <3> HIDE DEF n, price
    <3>. QED
      BY <2>2, <3>1, <3>2
  <2>. QED
    BY <2>1, <2>2, <2>3
<1>2. Due(s) \notin PossibleChange(price)
  <2>1. price \in Nat /\ PossibleChange(price) \subseteq Nat
    BY <1>1, ChangeAssumption, WorstChange
  <2> HIDE DEF price, n
  <2>. QED
    BY <1>1, <2>1
<1>3. n \in Underpaid(price)
  BY <1>2 DEF Foreseen
<1>4. n + b \in Underpaid(price) \/ n + b - price \in PossibleChange(price)
  <2> HIDE DEF price, n
  <2>. QED
    BY <1>1, <1>3, BillsReach
<1>5. HeldWithout(s)' = HeldWithout(s) /\ Available(HeldWithout(s))' = Available(HeldWithout(s))
  BY DEF StackBill, HeldWithout, Available
<1>. QED
  BY <1>1, <1>4, <1>5 DEF Foreseen

LEMMA ForeseenKept ==
    ASSUME MoneyTyped, MoneyTyped', SalesTyped, \A s \in Purchases : StagesOf(s),
           SupportInvariant, [ChangeNext]_changeVars
    PROVE  OpenSalesForeseen'
<1> SUFFICES ASSUME NEW t \in Purchases, payer'[t] = "cash", canceller'[t] = "none"
             PROVE  Foreseen(t)'
  BY DEF OpenSalesForeseen
<1>1. ASSUME NEW s \in Purchases, OneStep(s), t = s PROVE Foreseen(t)'
  <2>1. ASSUME NEW price \in Prices, OpenSession(t, price) PROVE Foreseen(t)'
    BY <2>1, OpenedIsForeseen DEF SupportInvariant
  <2>2. ASSUME NEW b \in BillValues, StackBill(t, b) PROVE Foreseen(t)'
    <3>1. Foreseen(t)
      BY <2>2 DEF StackBill, SupportInvariant, OpenSalesForeseen
    <3>. QED
      BY <2>2, <3>1, StackedIsForeseen
  <2>3. ~FinalizeReserve(t) /\ ~PreparePayout(t)
    BY DEF FinalizeReserve, PreparePayout, PayerGoes, SalesTyped
  <2>4. ASSUME NEW status, PayChange(t, status) PROVE FALSE
    BY <2>4 DEF PayChange, PayerGoes, SalesTyped
  <2>5. ASSUME NEW purpose \in {"repay", "refund"}, ReserveRefund(t, purpose) PROVE FALSE
    BY <2>5 DEF ReserveRefund, SalesTyped
  <2>6. ASSUME NEW purpose \in {"repay", "refund"}, NEW status, PayRefund(t, purpose, status)
        PROVE  FALSE
    BY <2>6 DEF PayRefund, SalesTyped
  <2>7. ~CancelSale(t)
    BY DEF CancelSale, SalesTyped
  <2>. QED
    BY <1>1, <2>1, <2>2, <2>3, <2>4, <2>5, <2>6, <2>7 DEF OneStep
<1>2. ASSUME NEW s \in Purchases, OneStep(s), t # s PROVE Foreseen(t)'
  <2>1. /\ payer[t] = "cash" /\ canceller[t] = "none" /\ purchase'[t] = purchase[t]
        /\ t \in attached' <=> t \in attached
        /\ \A q \in Purposes : reserves'[<<t, q>>] = reserves[<<t, q>>]
    BY <1>2, OneAtATime DEF Only
  <2>2. collecting = t /\ Foreseen(t)
    BY <2>1 DEF SupportInvariant, OthersIdle, IdleSale, OpenSalesForeseen
  <2>3. CancelSale(s)
    <3>1. IdleSale(s)
      BY <1>2, <2>2 DEF SupportInvariant, OthersIdle
    <3>2. ASSUME NEW price \in Prices, OpenSession(s, price) PROVE FALSE
      BY <2>2, <3>2, ChangeAssumption DEF OpenSession
    <3>. QED
      BY <1>2, <3>1, <3>2, IdleSteps
  <2>4. counts' = counts /\ reserved' = HeldWithout(s)
    BY <2>3 DEF CancelSale, ReleaseAttached
  <2>5. ASSUME NEW d \in Denominations PROVE HeldWithout(t)'[d] <= HeldWithout(t)[d]
    <3>1. reserved'[d] <= reserved[d]
      <4>1. /\ reserved[d] \in Nat /\ reserves[<<s, "change">>].plan[d] \in Nat
            /\ HeldWithout(s)[d] = IF s \in attached
                                   THEN IF reserved[d] < reserves[<<s, "change">>].plan[d] THEN 0
                                        ELSE reserved[d] - reserves[<<s, "change">>].plan[d]
                                   ELSE reserved[d]
        BY HeldNowIs DEF MoneyTyped, Purposes, Reserves, Selections
      <4>. QED
        BY <2>4, <4>1
    <3>2. reserves'[<<t, "change">>] = reserves[<<t, "change">>]
      BY <2>1 DEF Purposes
    <3>3. /\ HeldWithout(t)[d] = IF t \in attached
                                 THEN IF reserved[d] < reserves[<<t, "change">>].plan[d] THEN 0
                                      ELSE reserved[d] - reserves[<<t, "change">>].plan[d]
                                 ELSE reserved[d]
          /\ HeldWithout(t)'[d] = IF t \in attached'
                                  THEN IF reserved'[d] < reserves'[<<t, "change">>].plan[d] THEN 0
                                       ELSE reserved'[d] - reserves'[<<t, "change">>].plan[d]
                                  ELSE reserved'[d]
      BY HeldNowIs, HeldAfterIs
    <3>4. reserved[d] \in Nat /\ reserved'[d] \in Nat /\ reserves[<<t, "change">>].plan[d] \in Nat
      BY DEF MoneyTyped, Purposes, Reserves, Selections
    <3>. QED
      BY <2>1, <3>1, <3>2, <3>3, <3>4
  <2>. QED
    BY <2>1, <2>2, <2>4, <2>5, StillForeseen
<1>3. CASE (\E s \in Purchases : LeaveSale(s)) \/ AcceptDrift \/ UNCHANGED changeVars
  <2>1. UNCHANGED <<counts, reserved, reserves, attached, purchase, payer, canceller>>
    BY <1>3 DEF LeaveSale, AcceptDrift, changeVars
  <2>2. Foreseen(t)
    BY <2>1 DEF SupportInvariant, OpenSalesForeseen
  <2>. QED
    BY <2>1, <2>2 DEF Foreseen, Due, HeldWithout, Available
<1>. QED
  BY <1>1, <1>2, <1>3 DEF ChangeNext, OneStep

LEMMA SupportStarts == ChangeInit => SupportInvariant
BY DEF ChangeInit, SupportInvariant, Unopened, RefundsAreCash, OthersIdle, OpenSalesForeseen, IdleSale

LEMMA SupportKept ==
    ASSUME ChangeInvariant, ChangeInvariant', SupportInvariant, [ChangeNext]_changeVars
    PROVE  SupportInvariant'
<1>1. /\ MoneyTyped /\ MoneyTyped' /\ SalesTyped /\ \A s \in Purchases : StagesOf(s)
      /\ Unopened /\ RefundsAreCash /\ OthersIdle
  BY DEF ChangeInvariant, SupportInvariant
<1>2. OpenSalesForeseen'
  BY <1>1, ForeseenKept
<1>. QED
  BY <1>1, <1>2, UnopenedKept, RefundsKept, OthersStayIdle DEF SupportInvariant

LEMMA SupportHolds == ChangeSpec => []SupportInvariant
BY ChangeHolds, SupportStarts, SupportKept, PTL DEF ChangeSpec

\* The step that looks for the change of a paid sale finds it.
LEMMA ChangeIsFound ==
    ASSUME ChangeInvariant, SupportInvariant, [ChangeNext]_changeVars,
           NEW s \in Purchases, payer[s] = "cash"
    PROVE  payer'[s] # "unpayable"
<1>1. MoneyTyped /\ SalesTyped
  BY DEF ChangeInvariant
<1>2. ASSUME FinalizeReserve(s), payer'[s] = "unpayable" PROVE FALSE
  <2>1. /\ Due(s) > 0 /\ PlanChange(Available(HeldWithout(s)), Due(s)) = NoPlan
        /\ canceller[s] = "none"
    BY <1>1, <1>2 DEF FinalizeReserve, PayerGoes, SalesTyped
  <2>2. Foreseen(s)
    BY <2>1 DEF SupportInvariant, OpenSalesForeseen
  <2>3. purchase[s].accepted \notin Underpaid(purchase[s].price)
    <3>1. purchase[s].price \in Nat \ {0} /\ purchase[s].accepted \in Nat
      BY <1>1, <2>2, ChangeAssumption DEF Foreseen, SalesTyped
    <3>2. purchase[s].accepted > purchase[s].price
      BY <2>1, <3>1 DEF Due
    <3>3. Underpaid(purchase[s].price) \subseteq 0 .. purchase[s].price - 1
      BY <3>1, UnderpaidGrows
    <3>. QED
      BY <3>1, <3>2, <3>3
  <2>. QED
    BY <2>1, <2>2, <2>3 DEF Foreseen
<1>3. ASSUME NEW t \in Purchases, OneStep(t), t # s PROVE payer'[s] = payer[s]
  BY <1>1, <1>3, OneAtATime DEF Only
<1>4. ASSUME OneStep(s), ~FinalizeReserve(s) PROVE payer'[s] # "unpayable"
  <2>1. ASSUME NEW price \in Prices, OpenSession(s, price) PROVE FALSE
    BY <2>1 DEF OpenSession
  <2>2. ASSUME NEW b \in BillValues, StackBill(s, b) PROVE payer'[s] # "unpayable"
    BY <2>2 DEF StackBill
  <2>3. ~PreparePayout(s) /\ \A status : ~PayChange(s, status)
    BY DEF PreparePayout, PayChange
  <2>4. ASSUME NEW purpose \in {"repay", "refund"}, ReserveRefund(s, purpose)
        PROVE  payer'[s] # "unpayable"
    BY <1>1, <2>4 DEF ReserveRefund, SalesTyped
  <2>5. ASSUME NEW purpose \in {"repay", "refund"}, NEW status, PayRefund(s, purpose, status)
        PROVE  payer'[s] # "unpayable"
    BY <1>1, <2>5 DEF PayRefund, SalesTyped
  <2>6. CASE CancelSale(s)
    BY <2>6 DEF CancelSale
  <2>. QED
    BY <1>4, <2>1, <2>2, <2>3, <2>4, <2>5, <2>6 DEF OneStep
<1>5. CASE (\E t \in Purchases : LeaveSale(t)) \/ AcceptDrift \/ UNCHANGED changeVars
  BY <1>5 DEF LeaveSale, AcceptDrift, changeVars
<1>. QED
  BY <1>2, <1>3, <1>4, <1>5 DEF ChangeNext, OneStep

\* A sale that was accepted because every change could be given finds its plan when
\* the payment completes, whatever bills made it up.
THEOREM SupportedSalesFindChange == ChangeSpec => SupportedSaleFindsChange
<1>1. ASSUME ChangeInvariant, SupportInvariant, [ChangeNext]_changeVars
      PROVE  [\A s \in Purchases : payer[s] = "cash" => payer'[s] # "unpayable"]_changeVars
  BY <1>1, ChangeIsFound
<1>. QED
  BY <1>1, ChangeHolds, SupportHolds, PTL DEF ChangeSpec, SupportedSaleFindsChange

(***************************************************************************)
(* Types.  The invariant types every variable.                             *)
(***************************************************************************)

LEMMA ChangeTypes == ChangeSpec => []ChangeTypeOK
<1>1. ChangeInvariant => ChangeTypeOK
  BY DEF ChangeInvariant, MoneyTyped, SalesTyped, ChangeTypeOK, Reserves, Selections
<1>. QED
  BY <1>1, ChangeHolds, PTL

=============================================================================
