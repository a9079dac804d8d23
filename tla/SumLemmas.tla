----------------------------- MODULE SumLemmas ------------------------------
(***************************************************************************)
(* Lemmas about numbers: the least of a set, induction for properties that *)
(* are given as sets, remainders, and sums over finite sets, one element   *)
(* after the other.                                                        *)
(***************************************************************************)
EXTENDS Integers, FiniteSetsExt, FiniteSetTheorems, WellFoundedInduction, TLAPS

-----------------------------------------------------------------------------
LEMMA MinOfTwo ==
  ASSUME NEW i \in Int, NEW j \in Int
  PROVE  /\ Min({i, j}) \in {i, j}
         /\ Min({i, j}) <= i /\ Min({i, j}) <= j
<1>1. \E x \in {i, j} : \A y \in {i, j} : x <= y
  <2>1. CASE i <= j
    BY <2>1
  <2>2. CASE ~(i <= j)
    BY <2>2
  <2> QED
    BY <2>1, <2>2
<1> QED
  BY <1>1 DEF Min

LEMMA MaxOfTwo ==
  ASSUME NEW i \in Int, NEW j \in Int
  PROVE  /\ Max({i, j}) \in {i, j}
         /\ i <= Max({i, j}) /\ j <= Max({i, j})
<1>1. \E x \in {i, j} : \A y \in {i, j} : y <= x
  <2>1. CASE i <= j
    BY <2>1
  <2>2. CASE ~(i <= j)
    BY <2>2
  <2> QED
    BY <2>1, <2>2
<1> QED
  BY <1>1 DEF Max

\* Remainders of numbers that are not far away.
LEMMA NearMod ==
  ASSUME NEW M \in Nat, M > 0, NEW x \in -M .. 2 * M - 1
  PROVE  x % M = IF x < 0 THEN x + M ELSE IF x < M THEN x ELSE x - M
<1>1. CASE x < 0
  BY <1>1
<1>2. CASE x \in 0 .. M - 1
  BY <1>2
<1>3. CASE x >= M
  BY <1>3
<1> QED
  BY <1>1, <1>2, <1>3

LEMMA Grows ==
  ASSUME NEW a \in Int, NEW b \in Int, NEW M \in Nat, a <= b
  PROVE  a * M <= b * M
<1>1. (b - a) * M >= 0
  OBVIOUS
<1>2. (b - a) * M = b * M - a * M
  OBVIOUS
<1>3. b * M \in Int /\ a * M \in Int
  OBVIOUS
<1> QED
  BY <1>1, <1>2, <1>3

\* What a quotient and a remainder are.
LEMMA DivisionIs ==
  ASSUME NEW M \in Nat, M > 0, NEW x \in Int
  PROVE  /\ x \div M \in Int /\ x % M \in 0 .. M - 1 /\ (x \div M) * M \in Int
         /\ x = (x \div M) * M + (x % M)
         /\ (x \div M) * M <= x /\ x < (x \div M) * M + M
<1>1. x \div M \in Int /\ x % M \in 0 .. M - 1
  OBVIOUS
<1>2. x = (x \div M) * M + (x % M)
  OBVIOUS
<1> DEFINE y == (x \div M) * M
<1>3. y \in Int
  BY <1>1
<1> HIDE DEF y
<1>4. x = y + (x % M)
  BY <1>2 DEF y
<1>5. y <= x /\ x < y + M
  BY <1>1, <1>3, <1>4
<1> QED
  BY <1>1, <1>2, <1>3, <1>5 DEF y

\* There is no other quotient.
LEMMA DivisionIsUnique ==
  ASSUME NEW M \in Nat, M > 0, NEW q \in Int, NEW r \in 0 .. M - 1
  PROVE  (q * M + r) \div M = q /\ (q * M + r) % M = r
<1> DEFINE x == q * M + r
<1>1. x \in Int
  OBVIOUS
<1>2. q * M \in Int /\ (q + 1) * M = q * M + M /\ (q - 1) * M = q * M - M
  OBVIOUS
<1>3. x >= q * M /\ x < q * M + M
  BY <1>2
<1> HIDE DEF x
<1> DEFINE k == x \div M
<1>4. k \in Int /\ k * M <= x /\ x < k * M + M
  BY <1>1, DivisionIs
<1> HIDE DEF k
<1>5. ~(k >= q + 1)
  <2> SUFFICES ASSUME k >= q + 1 PROVE FALSE
    OBVIOUS
  <2>1. (q + 1) * M <= k * M
    BY <1>4, Grows
  <2>2. k * M \in Int
    BY <1>4
  <2> QED
    BY <1>1, <1>2, <1>3, <1>4, <2>1, <2>2
<1>6. ~(k <= q - 1)
  <2> SUFFICES ASSUME k <= q - 1 PROVE FALSE
    OBVIOUS
  <2>1. k * M <= (q - 1) * M
    BY <1>4, Grows
  <2>2. k * M \in Int
    BY <1>4
  <2> QED
    BY <1>1, <1>2, <1>3, <1>4, <2>1, <2>2
<1>7. k = q
  BY <1>4, <1>5, <1>6
<1>8. x % M = r
  <2>1. x % M \in 0 .. M - 1 /\ x = q * M + (x % M)
    BY <1>1, <1>7, DivisionIs DEF k
  <2>2. x = q * M + r
    BY DEF x
  <2> QED
    BY <1>2, <2>1, <2>2
<1> QED
  BY <1>7, <1>8 DEF k, x

\* What grows with a factor shrinks without it.
LEMMA Shrinks ==
  ASSUME NEW a \in Int, NEW b \in Int, NEW M \in Nat, M > 0, a * M <= b * M
  PROVE  a <= b
<1> SUFFICES ASSUME b + 1 <= a PROVE FALSE
  OBVIOUS
<1>1. (b + 1) * M <= a * M
  BY Grows
<1>2. (b + 1) * M = b * M + M /\ b * M \in Int /\ a * M \in Int
  OBVIOUS
<1> QED
  BY <1>1, <1>2

-----------------------------------------------------------------------------
(* Induction over numbers, for properties that are given as a set          *)

LEMMA NatIsWellFounded ==
  \E R : IsWellFoundedOn(R, Nat) /\ \A x, y \in Nat : y < x => <<y, x>> \in R
<1>1. \A x, y \in Nat : y < x => <<y, x>> \in OpToRel(<, Nat)
  BY Zenon DEF OpToRel
<1> QED
  BY <1>1, NatLessThanWellFounded, Zenon

\* Every set of numbers has a least one.
LEMMA LeastNumber ==
  ASSUME NEW T \in SUBSET Nat, T # {}
  PROVE  \E x \in T : \A y \in T : x <= y
<1>1. PICK R : IsWellFoundedOn(R, Nat) /\ \A x, y \in Nat : y < x => <<y, x>> \in R
  BY NatIsWellFounded
<1>2. \E x \in T : \A y \in T : ~(<<y, x>> \in R)
  BY <1>1, WFMin
<1>3. \A x, y \in T : ~(<<y, x>> \in R) => x <= y
  <2> TAKE x, y \in T
  <2> HAVE ~(<<y, x>> \in R)
  <2>1. x \in Nat /\ y \in Nat
    OBVIOUS
  <2>2. ~(y < x)
    BY <1>1, <2>1
  <2> QED
    BY <2>1, <2>2
<1> QED
  BY <1>2, <1>3

\* Induction, for a property that is given as a set.
LEMMA Induction ==
  ASSUME NEW S, 0 \in S, \A n \in Nat : n \in S => n + 1 \in S
  PROVE  Nat \subseteq S
<1> SUFFICES ASSUME Nat \ S # {} PROVE FALSE
  OBVIOUS
<1>1. PICK x \in Nat \ S : \A y \in Nat \ S : x <= y
  BY LeastNumber
<1>2. x # 0 /\ x - 1 \in Nat /\ x - 1 < x
  BY <1>1
<1>3. x - 1 \in S
  BY <1>1, <1>2
<1>4. (x - 1) + 1 = x
  BY <1>1
<1> QED
  BY <1>1, <1>2, <1>3, <1>4

\* Induction over the subsets of a finite set.
LEMMA SubsetInduction ==
  ASSUME NEW T, IsFiniteSet(T), NEW Q, {} \in Q,
         \A s \in SUBSET T : s # {} /\ (\A x \in s : s \ {x} \in Q) => s \in Q
  PROVE  SUBSET T \subseteq Q
<1> DEFINE Sized(n) == \A s \in SUBSET T : Cardinality(s) = n => s \in Q
           N == {n \in Nat : Sized(n)}
<1>1. \A s \in SUBSET T : IsFiniteSet(s) /\ Cardinality(s) \in Nat
  BY FS_Subset, FS_CardinalityType
<1>2. 0 \in N
  BY <1>1, FS_EmptySet
<1>3. ASSUME NEW n \in Nat, n \in N PROVE n + 1 \in N
  <2> SUFFICES ASSUME NEW s \in SUBSET T, Cardinality(s) = n + 1 PROVE s \in Q
    OBVIOUS
  <2>1. s # {}
    BY FS_EmptySet
  <2>2. ASSUME NEW x \in s PROVE s \ {x} \in Q
    <3>1. Cardinality(s \ {x}) = Cardinality(s) - 1
      BY <1>1, FS_RemoveElement
    <3>2. Cardinality(s \ {x}) = n /\ s \ {x} \in SUBSET T
      BY <3>1
    <3> QED
      BY <1>3, <3>2
  <2> QED
    BY <2>1, <2>2
<1>4. Nat \subseteq N
  <2> HIDE DEF N
  <2> QED
    BY <1>2, <1>3, Induction
<1> QED
  BY <1>1, <1>4

-----------------------------------------------------------------------------
(* Images and extremes of finite sets *)

LEMMA ImageIsFinite ==
  ASSUME NEW T, IsFiniteSet(T), NEW g
  PROVE  IsFiniteSet({g[x] : x \in T})
<1> DEFINE U == {g[x] : x \in T}
           m == [x \in T |-> g[x]]
<1>1. m \in [T -> U] /\ \A u \in U : \E x \in T : m[x] = u
  OBVIOUS
<1>2. m \in Surjection(T, U)
  BY <1>1, Zenon DEF Surjection
<1> HIDE DEF U, m
<1>3. IsFiniteSet(U)
  BY <1>2, FS_Surjection
<1> QED
  BY <1>3 DEF U

LEMMA LargestNumber ==
  ASSUME NEW T, IsFiniteSet(T), T # {}, \A x \in T : x \in Int
  PROVE  Max(T) \in T /\ \A x \in T : x <= Max(T)
<1> DEFINE Q == {s \in SUBSET T : s # {} => \E x \in s : \A y \in s : y <= x}
<1>1. {} \in Q
  OBVIOUS
<1>2. ASSUME NEW s \in SUBSET T, s # {}, \A x \in s : s \ {x} \in Q PROVE s \in Q
  <2>1. PICK x \in s : TRUE
    BY <1>2
  <2>2. CASE s \ {x} = {}
    <3>1. \A y \in s : y = x
      BY <2>1, <2>2
    <3>2. x \in Int
      BY <2>1
    <3> QED
      BY <2>1, <3>1, <3>2
  <2>3. CASE s \ {x} # {}
    <3>1. PICK y \in s \ {x} : \A z \in s \ {x} : z <= y
      BY <1>2, <2>1, <2>3
    <3>2. x \in Int /\ y \in Int /\ \A z \in s : z \in Int
      BY <2>1, <3>1
    <3>3. CASE x <= y
      BY <3>1, <3>2, <3>3
    <3>4. CASE ~(x <= y)
      BY <3>1, <3>2, <3>4, <2>1
    <3> QED
      BY <3>3, <3>4
  <2> QED
    BY <2>2, <2>3
<1> HIDE DEF Q
<1>3. SUBSET T \subseteq Q
  BY <1>1, <1>2, SubsetInduction
<1>4. T \in Q
  BY <1>3
<1>5. \E x \in T : \A y \in T : x >= y
  BY <1>4 DEF Q
<1> QED
  BY <1>5 DEF Max

LEMMA SmallestNumber ==
  ASSUME NEW T, IsFiniteSet(T), T # {}, \A x \in T : x \in Int
  PROVE  Min(T) \in T /\ \A x \in T : Min(T) <= x
<1> DEFINE N == {-x : x \in T}
<1>1. IsFiniteSet(N)
  <2> DEFINE g == [x \in T |-> -x]
  <2>1. N = {g[x] : x \in T}
    OBVIOUS
  <2> HIDE DEF g
  <2> QED
    BY <2>1, ImageIsFinite
<1>2. N # {} /\ \A x \in N : x \in Int
  OBVIOUS
<1>3. Max(N) \in N /\ \A x \in N : x <= Max(N)
  BY <1>1, <1>2, LargestNumber
<1>4. PICK m \in T : Max(N) = -m
  BY <1>3
<1>5. ASSUME NEW x \in T PROVE m <= x
  <2>1. -x <= -m
    BY <1>3, <1>4
  <2> QED
    BY <2>1
<1>6. \E x \in T : \A y \in T : x <= y
  BY <1>5
<1> QED
  BY <1>6 DEF Min

-----------------------------------------------------------------------------
(* Sums over finite sets *)

Pick(s) == CHOOSE x \in s : TRUE

\* The sum of g over each subset, one element after the other.
SumsOf(g, T) ==
  CHOOSE f : f = [s \in SUBSET T |-> IF s = {} THEN 0 ELSE g[Pick(s)] + f[s \ {Pick(s)}]]

AddsUp(f, g, T) ==
  \A s \in SUBSET T : f[s] = IF s = {} THEN 0 ELSE g[Pick(s)] + f[s \ {Pick(s)}]

LEMMA SumFunctionIs ==
  ASSUME NEW g, NEW T
  PROVE  SumFunctionOnSet(g, T) = SumsOf(g, T)[T]
BY DEF SumFunctionOnSet, FoldFunctionOnSet, MapThenFoldSet, SumsOf, Pick

LEMMA SumsAddUp ==
  ASSUME NEW g, NEW T, IsFiniteSet(T)
  PROVE  AddsUp(SumsOf(g, T), g, T)
<1> DEFINE Body(f, s) == IF s = {} THEN 0 ELSE g[Pick(s)] + f[s \ {Pick(s)}]
           Defined(f, n) == \A s \in SUBSET T : Cardinality(s) <= n => f[s] = Body(f, s)
           S == {n \in Nat : \E f : Defined(f, n)}
           Eqn(f) == f = [s \in SUBSET T |-> Body(f, s)]
<1>1. \A s \in SUBSET T : IsFiniteSet(s) /\ Cardinality(s) \in Nat
  BY FS_Subset, FS_CardinalityType
<1>2. \A s \in SUBSET T : s # {} =>
        /\ Pick(s) \in s /\ s \ {Pick(s)} \in SUBSET T
        /\ Cardinality(s \ {Pick(s)}) = Cardinality(s) - 1
  <2> SUFFICES ASSUME NEW s \in SUBSET T, s # {}
               PROVE  /\ Pick(s) \in s /\ s \ {Pick(s)} \in SUBSET T
                      /\ Cardinality(s \ {Pick(s)}) = Cardinality(s) - 1
    OBVIOUS
  <2>1. Pick(s) \in s
    BY DEF Pick
  <2> QED
    BY <1>1, <2>1, FS_RemoveElement
<1>3. 0 \in S
  <2> DEFINE f == [s \in SUBSET T |-> 0]
  <2>1. \A s \in SUBSET T : Cardinality(s) <= 0 => s = {}
    BY <1>1, FS_EmptySet
  <2>2. Defined(f, 0)
    BY <2>1
  <2> HIDE DEF Defined
  <2> QED
    BY <2>2
<1>4. ASSUME NEW n \in Nat, n \in S PROVE n + 1 \in S
  <2>1. PICK f : Defined(f, n)
    <3> HIDE DEF Defined
    <3> QED
      BY <1>4
  <2> DEFINE h == [s \in SUBSET T |-> IF Cardinality(s) <= n THEN f[s] ELSE Body(f, s)]
  <2>2. \A s \in SUBSET T : h[s] = Body(f, s)
    <3> HIDE DEF Body
    <3> QED
      BY <2>1
  <2>3. \A s \in SUBSET T : Cardinality(s) <= n => h[s] = f[s]
    <3> HIDE DEF Body
    <3> QED
      OBVIOUS
  <2> HIDE DEF h
  <2>4. ASSUME NEW s \in SUBSET T, Cardinality(s) <= n + 1 PROVE Body(f, s) = Body(h, s)
    <3>1. CASE s = {}
      BY <3>1
    <3>2. CASE s # {}
      <4>1. s \ {Pick(s)} \in SUBSET T /\ Cardinality(s \ {Pick(s)}) = Cardinality(s) - 1
        BY <1>2, <3>2
      <4>2. Cardinality(s \ {Pick(s)}) <= n
        BY <1>1, <2>4, <4>1
      <4>3. h[s \ {Pick(s)}] = f[s \ {Pick(s)}]
        BY <2>3, <4>1, <4>2
      <4> QED
        BY <3>2, <4>3
    <3> QED
      BY <3>1, <3>2
  <2>5. Defined(h, n + 1)
    <3> HIDE DEF Body
    <3> QED
      BY <2>2, <2>4
  <2> HIDE DEF Defined
  <2> QED
    BY <2>5
<1>5. \E f : Eqn(f)
  <2>1. Cardinality(T) \in S
    <3> HIDE DEF S
    <3> QED
      BY <1>1, <1>3, <1>4, Induction
  <2>2. PICK f : Defined(f, Cardinality(T))
    <3> HIDE DEF Defined
    <3> QED
      BY <2>1
  <2> DEFINE h == [s \in SUBSET T |-> f[s]]
  <2>3. \A s \in SUBSET T : Cardinality(s) <= Cardinality(T)
    BY FS_Subset
  <2>4. \A s \in SUBSET T : h[s] = f[s]
    OBVIOUS
  <2>5. ASSUME NEW s \in SUBSET T PROVE f[s] = Body(h, s)
    <3> HIDE DEF h
    <3>1. f[s] = Body(f, s)
      <4> HIDE DEF Body
      <4> QED
        BY <2>2, <2>3
    <3>2. Body(f, s) = Body(h, s)
      BY <1>2, <2>4
    <3> QED
      BY <3>1, <3>2
  <2>6. Eqn(h)
    <3> HIDE DEF Body
    <3> QED
      BY <2>5
  <2> HIDE DEF Eqn
  <2> QED
    BY <2>6
<1> DEFINE F == CHOOSE f : Eqn(f)
<1>6. Eqn(F)
  <2> HIDE DEF Eqn
  <2> QED
    BY <1>5
<1>7. F = SumsOf(g, T)
  BY DEF SumsOf
<1>8. \A s \in SUBSET T : F[s] = Body(F, s)
  <2> HIDE DEF F, Body
  <2> QED
    BY <1>6
<1> HIDE DEF F
<1>9. AddsUp(F, g, T)
  BY <1>8 DEF AddsUp
<1> QED
  BY <1>7, <1>9

\* What adds up is the sum.
LEMMA SumsAreUnique ==
  ASSUME NEW g, NEW h, NEW T, IsFiniteSet(T), \A x \in T : g[x] = h[x],
         NEW U, T \subseteq U, NEW f, AddsUp(f, g, U),
         NEW V, T \subseteq V, NEW k, AddsUp(k, h, V)
  PROVE  f[T] = k[T]
<1> DEFINE Q == {s \in SUBSET T : f[s] = k[s]}
<1>1. {} \in Q
  BY DEF AddsUp
<1>2. ASSUME NEW s \in SUBSET T, s # {}, \A x \in s : s \ {x} \in Q PROVE s \in Q
  <2>1. Pick(s) \in s
    BY <1>2 DEF Pick
  <2>2. f[s] = g[Pick(s)] + f[s \ {Pick(s)}] /\ k[s] = h[Pick(s)] + k[s \ {Pick(s)}]
    BY <1>2 DEF AddsUp
  <2>3. f[s \ {Pick(s)}] = k[s \ {Pick(s)}] /\ g[Pick(s)] = h[Pick(s)]
    BY <1>2, <2>1
  <2> QED
    BY <2>2, <2>3
<1> HIDE DEF Q
<1>3. T \in Q
  BY <1>1, <1>2, SubsetInduction
<1> QED
  BY <1>3 DEF Q

LEMMA SumIs ==
  ASSUME NEW g, NEW T, IsFiniteSet(T), NEW U, T \subseteq U, NEW f, AddsUp(f, g, U)
  PROVE  f[T] = SumFunctionOnSet(g, T)
<1>1. \A x \in T : g[x] = g[x]
  OBVIOUS
<1>2. AddsUp(SumsOf(g, T), g, T)
  BY SumsAddUp
<1>3. f[T] = SumsOf(g, T)[T]
  BY <1>1, <1>2, SumsAreUnique
<1> QED
  BY <1>3, SumFunctionIs

LEMMA SumAgrees ==
  ASSUME NEW g, NEW h, NEW T, IsFiniteSet(T), \A x \in T : g[x] = h[x]
  PROVE  SumFunctionOnSet(g, T) = SumFunctionOnSet(h, T)
BY SumFunctionIs, SumsAddUp, SumsAreUnique

LEMMA SumOfNone == ASSUME NEW g PROVE SumFunctionOnSet(g, {}) = 0
BY SumFunctionIs, SumsAddUp, FS_EmptySet DEF AddsUp

LEMMA SumPicks ==
  ASSUME NEW g, NEW T, IsFiniteSet(T), T # {}
  PROVE  Pick(T) \in T /\ SumFunctionOnSet(g, T) = g[Pick(T)] + SumFunctionOnSet(g, T \ {Pick(T)})
<1> DEFINE f == SumsOf(g, T)
<1>1. AddsUp(f, g, T)
  BY SumsAddUp
<1>2. Pick(T) \in T
  BY DEF Pick
<1>3. f[T \ {Pick(T)}] = SumFunctionOnSet(g, T \ {Pick(T)})
  <2>1. IsFiniteSet(T \ {Pick(T)}) /\ T \ {Pick(T)} \subseteq T
    BY FS_Subset
  <2> HIDE DEF f
  <2> QED
    BY <1>1, <2>1, SumIs
<1>4. f[T] = g[Pick(T)] + f[T \ {Pick(T)}]
  <2> HIDE DEF f
  <2> QED
    BY <1>1 DEF AddsUp
<1> QED
  BY <1>2, <1>3, <1>4, SumFunctionIs

LEMMA SumIsNumber ==
  ASSUME NEW g, NEW T, IsFiniteSet(T), \A x \in T : g[x] \in Int
  PROVE  SumFunctionOnSet(g, T) \in Int /\ ((\A x \in T : g[x] >= 0) => SumFunctionOnSet(g, T) >= 0)
<1> DEFINE Q == {s \in SUBSET T : /\ SumFunctionOnSet(g, s) \in Int
                                  /\ (\A x \in T : g[x] >= 0) => SumFunctionOnSet(g, s) >= 0}
<1>1. {} \in Q
  BY SumOfNone
<1>2. ASSUME NEW s \in SUBSET T, s # {}, \A x \in s : s \ {x} \in Q PROVE s \in Q
  <2>1. Pick(s) \in s /\ SumFunctionOnSet(g, s) = g[Pick(s)] + SumFunctionOnSet(g, s \ {Pick(s)})
    BY <1>2, FS_Subset, SumPicks
  <2> QED
    BY <1>2, <2>1
<1> HIDE DEF Q
<1>3. T \in Q
  BY <1>1, <1>2, SubsetInduction
<1> QED
  BY <1>3 DEF Q

\* The order does not matter.
LEMMA SumWithout ==
  ASSUME NEW g, NEW T, IsFiniteSet(T), \A x \in T : g[x] \in Int, NEW x \in T
  PROVE  SumFunctionOnSet(g, T) = g[x] + SumFunctionOnSet(g, T \ {x})
<1> DEFINE Q == {s \in SUBSET T : \A y \in s : SumFunctionOnSet(g, s) = g[y] + SumFunctionOnSet(g, s \ {y})}
<1>1. {} \in Q
  OBVIOUS
<1>2. ASSUME NEW s \in SUBSET T, s # {}, \A y \in s : s \ {y} \in Q PROVE s \in Q
  <2> SUFFICES ASSUME NEW y \in s PROVE SumFunctionOnSet(g, s) = g[y] + SumFunctionOnSet(g, s \ {y})
    OBVIOUS
  <2> DEFINE p == Pick(s)
  <2>1. p \in s /\ SumFunctionOnSet(g, s) = g[p] + SumFunctionOnSet(g, s \ {p})
    BY <1>2, FS_Subset, SumPicks
  <2> HIDE DEF p
  <2>2. CASE y = p
    BY <2>1, <2>2
  <2>3. CASE y # p
    <3>1. y \in s \ {p} /\ p \in s \ {y} /\ (s \ {p}) \ {y} = (s \ {y}) \ {p}
      BY <2>1, <2>3
    <3>2. SumFunctionOnSet(g, s \ {p}) = g[y] + SumFunctionOnSet(g, (s \ {p}) \ {y})
      BY <1>2, <2>1, <3>1
    <3>3. SumFunctionOnSet(g, s \ {y}) = g[p] + SumFunctionOnSet(g, (s \ {y}) \ {p})
      BY <1>2, <3>1
    <3> DEFINE r == SumFunctionOnSet(g, (s \ {p}) \ {y})
    <3>4. r \in Int
      BY FS_Subset, SumIsNumber
    <3>5. g[y] \in Int /\ g[p] \in Int
      BY <2>1
    <3>6. SumFunctionOnSet(g, s \ {p}) = g[y] + r /\ SumFunctionOnSet(g, s \ {y}) = g[p] + r
      BY <3>1, <3>2, <3>3
    <3> HIDE DEF r
    <3> QED
      BY <2>1, <3>4, <3>5, <3>6
  <2> QED
    BY <2>2, <2>3
<1> HIDE DEF Q
<1>3. T \in Q
  BY <1>1, <1>2, SubsetInduction
<1> QED
  BY <1>3 DEF Q

\* What counts nothing may be left out.
LEMMA SumOfPart ==
  ASSUME NEW g, NEW T, IsFiniteSet(T), \A x \in T : g[x] \in Int,
         NEW U \in SUBSET T, \A x \in T \ U : g[x] = 0
  PROVE  SumFunctionOnSet(g, T) = SumFunctionOnSet(g, U)
<1> DEFINE Q == {s \in SUBSET T : U \subseteq s => SumFunctionOnSet(g, s) = SumFunctionOnSet(g, U)}
<1>1. {} \in Q
  <2> SUFFICES ASSUME U \subseteq {} PROVE SumFunctionOnSet(g, {}) = SumFunctionOnSet(g, U)
    OBVIOUS
  <2>1. U = {}
    OBVIOUS
  <2> QED
    BY <2>1
<1>2. ASSUME NEW s \in SUBSET T, s # {}, \A x \in s : s \ {x} \in Q PROVE s \in Q
  <2> SUFFICES ASSUME U \subseteq s, s # U PROVE SumFunctionOnSet(g, s) = SumFunctionOnSet(g, U)
    OBVIOUS
  <2>1. PICK x \in s : x \notin U
    OBVIOUS
  <2>2. SumFunctionOnSet(g, s \ {x}) = SumFunctionOnSet(g, U)
    BY <1>2, <2>1
  <2>3. SumFunctionOnSet(g, s) = g[x] + SumFunctionOnSet(g, s \ {x})
    BY FS_Subset, SumWithout
  <2>4. SumFunctionOnSet(g, s \ {x}) \in Int /\ g[x] = 0
    BY <2>1, FS_Subset, SumIsNumber
  <2> QED
    BY <2>2, <2>3, <2>4
<1> HIDE DEF Q
<1>3. T \in Q
  BY <1>1, <1>2, SubsetInduction
<1> QED
  BY <1>3 DEF Q

\* The same elements by other names.
LEMMA SumRenamed ==
  ASSUME NEW g, NEW T, IsFiniteSet(T), NEW m, NEW h,
         \A x, y \in T : m[x] = m[y] => x = y,
         \A x \in T : g[x] = h[m[x]] /\ g[x] \in Int
  PROVE  SumFunctionOnSet(g, T) = SumFunctionOnSet(h, {m[x] : x \in T})
<1> DEFINE Image(s) == {m[x] : x \in s}
           Q == {s \in SUBSET T : IsFiniteSet(Image(s)) /\ SumFunctionOnSet(g, s) = SumFunctionOnSet(h, Image(s))}
<1>1. {} \in Q
  <2>1. Image({}) = {}
    OBVIOUS
  <2>2. SumFunctionOnSet(g, {}) = SumFunctionOnSet(h, {})
    BY SumOfNone
  <2> QED
    BY <2>1, <2>2, FS_EmptySet
<1>2. ASSUME NEW s \in SUBSET T, s # {}, \A x \in s : s \ {x} \in Q PROVE s \in Q
  <2>1. PICK x \in s : TRUE
    BY <1>2
  <2>2. IsFiniteSet(s) /\ IsFiniteSet(Image(s))
    <3>1. IsFiniteSet(Image(s \ {x}) \cup {m[x]})
      BY <1>2, <2>1, FS_AddElement
    <3>2. Image(s) = Image(s \ {x}) \cup {m[x]}
      OBVIOUS
    <3> QED
      BY <3>1, <3>2, FS_Subset
  <2>3. m[x] \in Image(s) /\ Image(s \ {x}) = Image(s) \ {m[x]}
    OBVIOUS
  <2>4. \A z \in Image(s) : h[z] \in Int
    OBVIOUS
  <2>5. SumFunctionOnSet(g, s \ {x}) = SumFunctionOnSet(h, Image(s \ {x}))
    BY <1>2, <2>1
  <2> HIDE DEF Image
  <2>6. SumFunctionOnSet(g, s) = g[x] + SumFunctionOnSet(g, s \ {x})
    BY <2>2, SumWithout
  <2>7. SumFunctionOnSet(h, Image(s)) = h[m[x]] + SumFunctionOnSet(h, Image(s) \ {m[x]})
    BY <2>2, <2>3, <2>4, SumWithout
  <2>8. SumFunctionOnSet(g, s) = SumFunctionOnSet(h, Image(s))
    BY <2>3, <2>5, <2>6, <2>7
  <2> QED
    BY <2>2, <2>8
<1> HIDE DEF Q, Image
<1>3. T \in Q
  BY <1>1, <1>2, SubsetInduction
<1> QED
  BY <1>3 DEF Q, Image

\* Two sums compare as their terms do.
LEMMA SumsCompare ==
  ASSUME NEW T, IsFiniteSet(T), NEW g, NEW h, NEW a \in Int, NEW b \in Int,
         \A x \in T : g[x] \in Int /\ h[x] \in Int /\ a * g[x] <= b * h[x]
  PROVE  a * SumFunctionOnSet(g, T) <= b * SumFunctionOnSet(h, T)
<1> DEFINE Q == {s \in SUBSET T : a * SumFunctionOnSet(g, s) <= b * SumFunctionOnSet(h, s)}
<1>1. {} \in Q
  <2>1. SumFunctionOnSet(g, {}) = 0 /\ SumFunctionOnSet(h, {}) = 0
    BY SumOfNone
  <2> QED
    BY <2>1
<1>2. ASSUME NEW s \in SUBSET T, s # {}, \A x \in s : s \ {x} \in Q PROVE s \in Q
  <2>1. PICK x \in s : TRUE
    BY <1>2
  <2>2. IsFiniteSet(s) /\ IsFiniteSet(s \ {x})
    BY FS_Subset
  <2> DEFINE G == SumFunctionOnSet(g, s \ {x})
             H == SumFunctionOnSet(h, s \ {x})
  <2>3. SumFunctionOnSet(g, s) = g[x] + G
    BY <2>1, <2>2, SumWithout
  <2>4. SumFunctionOnSet(h, s) = h[x] + H
    BY <2>1, <2>2, SumWithout
  <2>5. G \in Int /\ H \in Int
    BY <2>2, SumIsNumber
  <2>6. a * G <= b * H
    BY <1>2, <2>1
  <2> HIDE DEF G, H
  <2>7. a * (g[x] + G) = a * g[x] + a * G /\ b * (h[x] + H) = b * h[x] + b * H
    BY <2>1, <2>5
  <2>8. a * g[x] \in Int /\ a * G \in Int /\ b * h[x] \in Int /\ b * H \in Int
    BY <2>1, <2>5
  <2>9. a * (g[x] + G) <= b * (h[x] + H)
    BY <2>1, <2>6, <2>7, <2>8
  <2> QED
    BY <2>3, <2>4, <2>9
<1> HIDE DEF Q
<1>3. SUBSET T \subseteq Q
  BY <1>1, <1>2, SubsetInduction
<1> QED
  BY <1>3 DEF Q

\* A sum of as many terms as there are elements, none above b.
LEMMA SumIsBounded ==
  ASSUME NEW T, IsFiniteSet(T), NEW g, NEW a \in Int, NEW b \in Int,
         \A x \in T : g[x] \in Int /\ a * g[x] <= b
  PROVE  a * SumFunctionOnSet(g, T) <= b * Cardinality(T)
<1> DEFINE Q == {s \in SUBSET T : a * SumFunctionOnSet(g, s) <= b * Cardinality(s)}
<1>1. {} \in Q
  <2>1. SumFunctionOnSet(g, {}) = 0 /\ Cardinality({}) = 0
    BY SumOfNone, FS_EmptySet
  <2> QED
    BY <2>1
<1>2. ASSUME NEW s \in SUBSET T, s # {}, \A x \in s : s \ {x} \in Q PROVE s \in Q
  <2>1. PICK x \in s : TRUE
    BY <1>2
  <2>2. IsFiniteSet(s) /\ IsFiniteSet(s \ {x})
    BY FS_Subset
  <2> DEFINE G == SumFunctionOnSet(g, s \ {x})
             n == Cardinality(s \ {x})
  <2>3. SumFunctionOnSet(g, s) = g[x] + G
    BY <2>1, <2>2, SumWithout
  <2>4. Cardinality(s) = n + 1 /\ n \in Nat
    <3>1. Cardinality(s \ {x}) = Cardinality(s) - 1 /\ Cardinality(s) \in Nat /\ Cardinality(s \ {x}) \in Nat
      BY <2>1, <2>2, FS_RemoveElement, FS_CardinalityType
    <3> QED
      BY <3>1
  <2>5. G \in Int
    BY <2>2, SumIsNumber
  <2>6. a * G <= b * n
    BY <1>2, <2>1
  <2> HIDE DEF G, n
  <2>7. a * (g[x] + G) = a * g[x] + a * G /\ b * (n + 1) = b * n + b
    BY <2>1, <2>4, <2>5
  <2>8. a * g[x] \in Int /\ a * G \in Int /\ b * n \in Int
    BY <2>1, <2>4, <2>5
  <2>9. a * (g[x] + G) <= b * (n + 1)
    BY <2>1, <2>6, <2>7, <2>8
  <2> QED
    BY <2>3, <2>4, <2>9
<1> HIDE DEF Q
<1>3. SUBSET T \subseteq Q
  BY <1>1, <1>2, SubsetInduction
<1> QED
  BY <1>3 DEF Q

\* A sum over an interval, its last number apart.
LEMMA SumExtends ==
  ASSUME NEW g, NEW a \in Int, NEW b \in Int, a <= b, \A i \in a .. b : g[i] \in Int
  PROVE  SumFunctionOnSet(g, a .. b) = SumFunctionOnSet(g, a .. b - 1) + g[b]
<1> DEFINE T == a .. b
           U == T \ {b}
<1>1. IsFiniteSet(T) /\ b \in T /\ \A i \in T : g[i] \in Int
  BY FS_Interval
<1>2. U = a .. b - 1
  OBVIOUS
<1>3. IsFiniteSet(U)
  BY <1>1, FS_Subset
<1> HIDE DEF T
<1>4. SumFunctionOnSet(g, T) = g[b] + SumFunctionOnSet(g, U)
  <2>1. ASSUME NEW x \in T
        PROVE  SumFunctionOnSet(g, T) = g[x] + SumFunctionOnSet(g, T \ {x})
    BY <1>1, SumWithout, ZenonT(60)
  <2> QED
    BY <1>1, <2>1
<1>5. SumFunctionOnSet(g, U) \in Int
  BY <1>1, <1>3, SumIsNumber
<1>6. g[b] \in Int
  BY <1>1
<1> DEFINE s == SumFunctionOnSet(g, U)
           t == SumFunctionOnSet(g, T)
<1>7. t = s + g[b]
  <2>1. t = g[b] + s /\ s \in Int /\ g[b] \in Int
    BY <1>4, <1>5, <1>6
  <2> HIDE DEF s, t
  <2> QED
    BY <2>1
<1> QED
  BY <1>2, <1>7 DEF T
=============================================================================
