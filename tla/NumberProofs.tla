----------------------------- MODULE NumberProofs ----------------------------
(***************************************************************************)
(* Lemmas about numbers, for the proofs about the other modules: the least  *)
(* of some and induction, quotients, and the finite sums of the modules    *)
(* that add up numbers of clients or subscriptions with MapThenSumSet.     *)
(*                                                                         *)
(* MapThenSumSet is a recursive function on the subsets of a set.  That     *)
(* there is such a function, and that it has its value whatever element is *)
(* taken first, is shown by looking at a smallest set for which it fails:  *)
(* the strict subsets of a finite set are well-founded.                    *)
(***************************************************************************)
EXTENDS Integers, FiniteSetsExt, FiniteSetTheorems, WellFoundedInduction, TLAPS

\* The sum of the values that f has on S.
SumOf(f, S) == MapThenSumSet(LAMBDA x : f[x], S)

-----------------------------------------------------------------------------
(***************************************************************************)
(* Least sets and least numbers.                                           *)
(***************************************************************************)

\* Among any subsets of a finite set one is minimal.
LEMMA LeastSubset ==
  ASSUME NEW S, IsFiniteSet(S), NEW F, F \subseteq SUBSET S, F # {}
  PROVE  \E U \in F : \A V \in F : V \subseteq U => V = U
<1>1. F \subseteq FiniteSubsetsOf(S)
  BY FS_Subset DEF FiniteSubsetsOf
<1>2. PICK U \in F : \A V \in F : ~(<<V, U>> \in StrictSubsetOrdering(S))
  BY <1>1, FS_StrictSubsetOrderingWellFounded, WFMin
<1> QED
  BY <1>2 DEF StrictSubsetOrdering

\* A set of natural numbers has a least one.
LEMMA LeastNumber ==
  ASSUME NEW T, T \subseteq Nat, T # {}
  PROVE  \E n \in T : \A m \in T : n <= m
<1>1. PICK k \in T : TRUE
  OBVIOUS
<1> DEFINE F == {0..m : m \in {n \in T : n <= k}}
<1>2. /\ IsFiniteSet(0..k)
      /\ F \subseteq SUBSET (0..k)
      /\ 0..k \in F
  <2>1. k \in Int /\ 0 \in Int
    BY <1>1
  <2>2. IsFiniteSet(0..k)
    BY <2>1, FS_Interval
  <2>3. 0..k \in F
    BY <1>1
  <2>4. ASSUME NEW m \in {n \in T : n <= k} PROVE 0..m \subseteq 0..k
    BY <1>1, <2>4
  <2>5. F \subseteq SUBSET (0..k)
    BY <2>4
  <2> HIDE DEF F
  <2> QED
    BY <2>2, <2>3, <2>5
<1>3. PICK U \in F : \A V \in F : V \subseteq U => V = U
  <2> DEFINE S == 0..k
  <2>1. IsFiniteSet(S) /\ F \subseteq SUBSET S /\ F # {}
    BY <1>2
  <2> HIDE DEF F, S
  <2> QED
    BY <2>1, LeastSubset
<1>4. PICK n \in T : n <= k /\ U = 0..n
  BY <1>3
<1>5. ASSUME NEW m \in T, m < n PROVE FALSE
  <2>1. 0..m \in F /\ 0..m \subseteq 0..n /\ n \in 0..n /\ n \notin 0..m
    BY <1>1, <1>4, <1>5
  <2> QED
    BY <1>3, <1>4, <2>1
<1> QED
  BY <1>4, <1>5

\* Induction over the natural numbers, as a set of them, to be cited.
LEMMA NumberInduction ==
  ASSUME NEW T, 0 \in T, \A n \in Nat : n \in T => n + 1 \in T
  PROVE  \A n \in Nat : n \in T
<1> DEFINE F == Nat \ T
<1>1. SUFFICES ASSUME F # {} PROVE FALSE
  OBVIOUS
<1>2. PICK n \in F : \A m \in F : n <= m
  <2>1. F \subseteq Nat
    OBVIOUS
  <2> HIDE DEF F
  <2> QED
    BY <1>1, <2>1, LeastNumber
<1>3. n # 0 /\ n - 1 \in Nat /\ n - 1 \in T
  BY <1>2
<1>4. n \in T
  BY <1>3
<1> QED
  BY <1>2, <1>4

-----------------------------------------------------------------------------
(***************************************************************************)
(* Quotients and remainders.                                               *)
(***************************************************************************)

LEMMA Divided ==
  ASSUME NEW m \in Nat, NEW k \in Nat \ {0}
  PROVE  /\ m \div k \in Nat /\ m % k \in Nat /\ m % k < k
         /\ m = k * (m \div k) + (m % k)
BY SMT

\* A quotient is found by trapping its dividend between two multiples.
LEMMA Quotient ==
  ASSUME NEW x \in Nat, NEW b \in Nat \ {0}, NEW k \in Nat,
         k * b <= x, x < (k + 1) * b
  PROVE  x \div b = k
<1> DEFINE q == x \div b
<1>1. q \in Nat /\ q * b <= x /\ x < (q + 1) * b
  BY SMT
<1> HIDE DEF q
<1>2. ASSUME q < k PROVE FALSE
  <2>1. k >= q + 1
    BY <1>1, <1>2
  <2>2. k * b >= (q + 1) * b
    BY <1>1, <2>1
  <2> QED
    BY <1>1, <2>2
<1>3. ASSUME q > k PROVE FALSE
  <2>1. q >= k + 1
    BY <1>1, <1>3
  <2>2. q * b >= (k + 1) * b
    BY <1>1, <2>1
  <2> QED
    BY <1>1, <2>2
<1> QED
  BY <1>1, <1>2, <1>3 DEF q

\* Counting through q rounds of b and r more.
LEMMA Placed ==
  ASSUME NEW q \in Nat, NEW b \in Nat \ {0}, NEW r \in 0..(b - 1)
  PROVE  /\ q * b + r \in Nat
         /\ (q * b + r) \div b = q
         /\ (q * b + r) % b = r
<1>1. q * b \in Nat /\ (q + 1) * b = q * b + b
  OBVIOUS
<1> DEFINE x == q * b + r
<1>2. x \in Nat /\ q * b <= x /\ x < (q + 1) * b
  BY <1>1
<1> HIDE DEF x
<1>3. x \div b = q
  BY <1>2, Quotient
<1>4. x = b * (x \div b) + (x % b) /\ x % b \in Nat
  BY <1>2, Divided
<1>5. b * q = q * b
  OBVIOUS
<1>6. x = q * b + r
  BY DEF x
<1>7. x % b = r
  BY <1>1, <1>3, <1>4, <1>5, <1>6
<1> QED
  BY <1>2, <1>3, <1>7 DEF x

-----------------------------------------------------------------------------
(***************************************************************************)
(* The recursive function behind a sum.                                    *)
(***************************************************************************)

Pick(s) == CHOOSE x \in s : TRUE

IsSum(g, f, S) ==
  g = [s \in SUBSET S |-> IF s = {} THEN 0 ELSE f[Pick(s)] + g[s \ {Pick(s)}]]

LEMMA SumIsSum ==
  ASSUME NEW f, NEW S
  PROVE  SumOf(f, S) = (CHOOSE g : IsSum(g, f, S))[S]
BY DEF SumOf, MapThenSumSet, MapThenFoldSet, IsSum, Pick

LEMMA PickIsIn ==
  ASSUME NEW s, s # {}
  PROVE  /\ Pick(s) \in s
         /\ \A S : s \subseteq S => s \ {Pick(s)} \in SUBSET S
BY DEF Pick

\* Two such functions agree on what both are defined for.
LEMMA SumsAgree ==
  ASSUME NEW f, NEW S, IsFiniteSet(S), NEW U \in SUBSET S,
         NEW g, IsSum(g, f, S), NEW h, IsSum(h, f, U)
  PROVE  g[U] = h[U]
<1> DEFINE F == {s \in SUBSET U : g[s] # h[s]}
<1>1. SUFFICES ASSUME F # {} PROVE FALSE
  OBVIOUS
<1>2. PICK s \in F : \A t \in F : t \subseteq s => t = s
  <2>1. IsFiniteSet(U)
    BY FS_Subset
  <2>2. F \subseteq SUBSET U
    OBVIOUS
  <2> HIDE DEF F
  <2> QED
    BY <1>1, <2>1, <2>2, LeastSubset
<1>3. CASE s = {}
  BY <1>3 DEF IsSum
<1>4. CASE s # {}
  <2> DEFINE t == s \ {Pick(s)}
  <2>1. Pick(s) \in s /\ t \in SUBSET U /\ t # s /\ t \subseteq s
    BY <1>4, PickIsIn
  <2>2. g[t] = h[t]
    BY <1>2, <2>1
  <2>3. g[s] = f[Pick(s)] + g[t] /\ h[s] = f[Pick(s)] + h[t]
    BY <1>4 DEF IsSum
  <2> QED
    BY <2>2, <2>3
<1> QED
  BY <1>3, <1>4

\* There is one for every finite set.
LEMMA SumExists ==
  ASSUME NEW f, NEW S, IsFiniteSet(S)
  PROVE  \E g : IsSum(g, f, S)
<1> DEFINE F == {U \in SUBSET S : ~ \E g : IsSum(g, f, U)}
<1>1. SUFFICES ASSUME F # {} PROVE FALSE
  OBVIOUS
<1>2. PICK U \in F : \A V \in F : V \subseteq U => V = U
  <2>1. F \subseteq SUBSET S
    OBVIOUS
  <2> HIDE DEF F
  <2> QED
    BY <1>1, <2>1, LeastSubset
<1> DEFINE It(V) == CHOOSE g : IsSum(g, f, V)
           G == [s \in SUBSET U |->
                   IF s = {} THEN 0
                   ELSE f[Pick(s)] + It(s \ {Pick(s)})[s \ {Pick(s)}]]
<1>3. ASSUME NEW V \in SUBSET U, V # U
      PROVE  IsFiniteSet(V) /\ IsSum(It(V), f, V)
  <2>1. \E g : IsSum(g, f, V)
    BY <1>2, <1>3
  <2> QED
    BY <2>1, FS_Subset
<1>4. ASSUME NEW V \in SUBSET U, V # U PROVE G[V] = It(V)[V]
  <2>1. CASE V = {}
    <3>1. G[V] = 0
      BY <2>1
    <3>2. IsSum(It(V), f, V)
      BY <1>3, <1>4
    <3>3. It(V)[V] = 0
      <4> HIDE DEF It
      <4> QED
        BY <2>1, <3>2 DEF IsSum
    <3> QED
      BY <3>1, <3>3
  <2>2. CASE V # {}
    <3> DEFINE t == V \ {Pick(V)}
    <3>1. t \in SUBSET V /\ t \in SUBSET U /\ t # U
      BY <2>2, PickIsIn
    <3>2. IsSum(It(t), f, t) /\ IsSum(It(V), f, V) /\ IsFiniteSet(V)
      BY <1>3, <1>4, <3>1
    <3>3. It(V)[t] = It(t)[t]
      BY <3>1, <3>2, SumsAgree
    <3>4. It(V)[V] = f[Pick(V)] + It(V)[t]
      BY <2>2, <3>2 DEF IsSum
    <3>5. G[V] = f[Pick(V)] + It(t)[t]
      BY <2>2
    <3> QED
      BY <3>3, <3>4, <3>5
  <2> QED
    BY <2>1, <2>2
<1>5. IsSum(G, f, U)
  <2>1. ASSUME NEW s \in SUBSET U, s # {}
        PROVE  G[s \ {Pick(s)}] = It(s \ {Pick(s)})[s \ {Pick(s)}]
    BY <1>4, <2>1, PickIsIn
  <2> HIDE DEF It
  <2> QED
    BY <2>1 DEF IsSum
<1> QED
  BY <1>2, <1>5

\* The sum of a finite set that is not empty: a first element and the rest.
LEMMA SumRecursion ==
  ASSUME NEW f, NEW S, IsFiniteSet(S)
  PROVE  SumOf(f, S) = IF S = {} THEN 0
                       ELSE f[Pick(S)] + SumOf(f, S \ {Pick(S)})
<1> DEFINE It(V) == CHOOSE g : IsSum(g, f, V)
<1>1. \A V \in SUBSET S : IsSum(It(V), f, V) /\ SumOf(f, V) = It(V)[V]
  <2> TAKE V \in SUBSET S
  <2>1. \E g : IsSum(g, f, V)
    BY FS_Subset, SumExists
  <2> QED
    BY <2>1, SumIsSum
<1> HIDE DEF It
<1>2. CASE S = {}
  BY <1>1, <1>2 DEF IsSum
<1>3. CASE S # {}
  <2> DEFINE t == S \ {Pick(S)}
  <2>1. t \in SUBSET S
    BY <1>3, PickIsIn
  <2>2. It(S)[t] = It(t)[t]
    BY <1>1, <2>1, SumsAgree
  <2>3. It(S)[S] = f[Pick(S)] + It(S)[t]
    BY <1>1, <1>3 DEF IsSum
  <2> QED
    BY <1>1, <1>3, <2>1, <2>2, <2>3
<1> QED
  BY <1>2, <1>3

-----------------------------------------------------------------------------
(***************************************************************************)
(* Sums of integers.                                                       *)
(***************************************************************************)

\* What holds of all finite sets if it holds of a set whenever it does of its
\* subsets without one of its elements; as a set of subsets, to be cited.
LEMMA SubsetInduction ==
  ASSUME NEW S, IsFiniteSet(S), NEW G,
         \A T \in SUBSET S : (\A x \in T : T \ {x} \in G) => T \in G
  PROVE  \A T \in SUBSET S : T \in G
<1> DEFINE F == (SUBSET S) \ G
<1>1. SUFFICES ASSUME F # {} PROVE FALSE
  OBVIOUS
<1>2. PICK U \in F : \A V \in F : V \subseteq U => V = U
  <2>1. F \subseteq SUBSET S
    OBVIOUS
  <2> HIDE DEF F
  <2> QED
    BY <1>1, <2>1, LeastSubset
<1>3. ASSUME NEW x \in U PROVE U \ {x} \in G
  <2>1. U \ {x} \in SUBSET S /\ U \ {x} # U /\ U \ {x} \subseteq U
    BY <1>3
  <2> QED
    BY <1>2, <2>1
<1> QED
  BY <1>2, <1>3

LEMMA SumEmpty == \A f : SumOf(f, {}) = 0
BY SumRecursion, FS_EmptySet

LEMMA SumIsInt ==
  ASSUME NEW f, NEW S, IsFiniteSet(S), \A x \in S : f[x] \in Int
  PROVE  SumOf(f, S) \in Int
<1> DEFINE G == {T \in SUBSET S : SumOf(f, T) \in Int}
<1>1. ASSUME NEW T \in SUBSET S, \A x \in T : T \ {x} \in G
      PROVE  T \in G
  <2>1. IsFiniteSet(T)
    BY FS_Subset
  <2>2. SumOf(f, T) = IF T = {} THEN 0 ELSE f[Pick(T)] + SumOf(f, T \ {Pick(T)})
    BY <2>1, SumRecursion
  <2>3. CASE T = {}
    BY <2>2, <2>3
  <2>4. CASE T # {}
    <3>1. Pick(T) \in T
      BY <2>4, PickIsIn
    <3>2. f[Pick(T)] \in Int /\ SumOf(f, T \ {Pick(T)}) \in Int
      BY <1>1, <3>1
    <3> QED
      BY <2>2, <2>4, <3>2
  <2> QED
    BY <2>3, <2>4
<1>2. \A T \in SUBSET S : T \in G
  <2> HIDE DEF G
  <2> QED
    BY <1>1, SubsetInduction
<1> QED
  BY <1>2

LEMMA SumOfZeros ==
  ASSUME NEW f, NEW S, IsFiniteSet(S), \A x \in S : f[x] = 0
  PROVE  SumOf(f, S) = 0
<1> DEFINE G == {T \in SUBSET S : SumOf(f, T) = 0}
<1>1. ASSUME NEW T \in SUBSET S, \A x \in T : T \ {x} \in G
      PROVE  T \in G
  <2>1. IsFiniteSet(T)
    BY FS_Subset
  <2>2. SumOf(f, T) = IF T = {} THEN 0 ELSE f[Pick(T)] + SumOf(f, T \ {Pick(T)})
    BY <2>1, SumRecursion
  <2>3. CASE T = {}
    BY <2>2, <2>3
  <2>4. CASE T # {}
    <3>1. Pick(T) \in T
      BY <2>4, PickIsIn
    <3>2. f[Pick(T)] = 0 /\ SumOf(f, T \ {Pick(T)}) = 0
      BY <1>1, <3>1
    <3> QED
      BY <2>2, <2>4, <3>2
  <2> QED
    BY <2>3, <2>4
<1>2. \A T \in SUBSET S : T \in G
  <2> HIDE DEF G
  <2> QED
    BY <1>1, SubsetInduction
<1> QED
  BY <1>2

\* Any element may be taken first.
LEMMA SumTakes ==
  ASSUME NEW f, NEW S, IsFiniteSet(S), \A x \in S : f[x] \in Int,
         NEW y \in S
  PROVE  SumOf(f, S) = f[y] + SumOf(f, S \ {y})
<1> DEFINE Good(T) == \A z \in T : SumOf(f, T) = f[z] + SumOf(f, T \ {z})
           G == {T \in SUBSET S : Good(T)}
<1>1. ASSUME NEW T \in SUBSET S, \A x \in T : T \ {x} \in G
      PROVE  T \in G
  <2> SUFFICES ASSUME NEW z \in T
               PROVE  SumOf(f, T) = f[z] + SumOf(f, T \ {z})
    OBVIOUS
  <2> DEFINE p == Pick(T)
  <2>1. \A U \in SUBSET S : IsFiniteSet(U) /\ SumOf(f, U) \in Int
    BY FS_Subset, SumIsInt
  <2>2. p \in T /\ SumOf(f, T) = f[p] + SumOf(f, T \ {p})
    BY <2>1, PickIsIn, SumRecursion
  <2> HIDE DEF p
  <2>3. CASE p = z
    BY <2>2, <2>3
  <2>4. CASE p # z
    <3> DEFINE U == (T \ {p}) \ {z}
    <3>1. Good(T \ {p}) /\ Good(T \ {z})
      BY <1>1, <2>2
    <3>2. SumOf(f, T \ {p}) = f[z] + SumOf(f, U)
      BY <2>4, <3>1
    <3>3. U = (T \ {z}) \ {p}
      OBVIOUS
    <3>4. SumOf(f, T \ {z}) = f[p] + SumOf(f, U)
      BY <2>2, <2>4, <3>1, <3>3
    <3>5. f[p] \in Int /\ f[z] \in Int /\ SumOf(f, U) \in Int
      BY <2>1, <2>2
    <3> HIDE DEF U
    <3> QED
      BY <2>2, <3>2, <3>4, <3>5
  <2> QED
    BY <2>3, <2>4
<1>2. \A T \in SUBSET S : T \in G
  <2> HIDE DEF G
  <2> QED
    BY <1>1, SubsetInduction
<1> QED
  BY <1>2

\* Sums are compared value by value.
LEMMA SumsCompare ==
  ASSUME NEW f, NEW g, NEW S, IsFiniteSet(S),
         \A x \in S : f[x] \in Int /\ g[x] \in Int /\ f[x] <= g[x]
  PROVE  /\ SumOf(f, S) <= SumOf(g, S)
         /\ (\E x \in S : f[x] < g[x]) => SumOf(f, S) < SumOf(g, S)
<1> DEFINE Good(T) == /\ SumOf(f, T) <= SumOf(g, T)
                      /\ (\E x \in T : f[x] < g[x]) => SumOf(f, T) < SumOf(g, T)
           G == {T \in SUBSET S : Good(T)}
<1>1. ASSUME NEW T \in SUBSET S, \A x \in T : T \ {x} \in G
      PROVE  T \in G
  <2>1. \A U \in SUBSET S : /\ IsFiniteSet(U)
                            /\ SumOf(f, U) \in Int /\ SumOf(g, U) \in Int
    BY FS_Subset, SumIsInt
  <2>2. CASE T = {}
    <3>1. SumOf(f, T) = 0 /\ SumOf(g, T) = 0
      BY <2>2, SumEmpty
    <3> QED
      BY <2>2, <3>1
  <2>3. ASSUME NEW x \in T
        PROVE  /\ SumOf(f, T) <= SumOf(g, T)
               /\ f[x] < g[x] => SumOf(f, T) < SumOf(g, T)
    <3>1. /\ SumOf(f, T) = f[x] + SumOf(f, T \ {x})
          /\ SumOf(g, T) = g[x] + SumOf(g, T \ {x})
      BY <2>1, SumTakes
    <3>2. SumOf(f, T \ {x}) <= SumOf(g, T \ {x})
      BY <1>1
    <3>3. /\ f[x] \in Int /\ g[x] \in Int /\ f[x] <= g[x]
          /\ SumOf(f, T \ {x}) \in Int /\ SumOf(g, T \ {x}) \in Int
      BY <2>1
    <3> QED
      BY <3>1, <3>2, <3>3
  <2> QED
    BY <2>2, <2>3
<1>2. \A T \in SUBSET S : T \in G
  <2> HIDE DEF G
  <2> QED
    BY <1>1, SubsetInduction
<1> QED
  BY <1>2

LEMMA SumsEqual ==
  ASSUME NEW f, NEW g, NEW S, IsFiniteSet(S),
         \A x \in S : f[x] \in Int /\ f[x] = g[x]
  PROVE  SumOf(f, S) = SumOf(g, S)
<1>1. SumOf(f, S) <= SumOf(g, S) /\ SumOf(g, S) <= SumOf(f, S)
  BY SumsCompare
<1>2. SumOf(f, S) \in Int /\ SumOf(g, S) \in Int
  BY SumIsInt
<1> QED
  BY <1>1, <1>2

\* A sum changes by what one of its values changes by.
LEMMA SumChanges ==
  ASSUME NEW f, NEW g, NEW S, IsFiniteSet(S), NEW y \in S,
         \A x \in S : f[x] \in Int /\ g[x] \in Int,
         \A x \in S : x # y => f[x] = g[x]
  PROVE  SumOf(g, S) = SumOf(f, S) + (g[y] - f[y])
<1>1. SumOf(f, S \ {y}) = SumOf(g, S \ {y})
  BY SumsEqual, FS_RemoveElement
<1>2. /\ SumOf(f, S) = f[y] + SumOf(f, S \ {y})
      /\ SumOf(g, S) = g[y] + SumOf(g, S \ {y})
  BY SumTakes
<1>3. SumOf(f, S \ {y}) \in Int /\ f[y] \in Int /\ g[y] \in Int
  BY SumIsInt, FS_RemoveElement
<1> QED
  BY <1>1, <1>2, <1>3

\* A sum of natural numbers is no less than each of them.
LEMMA SumOfNumbers ==
  ASSUME NEW f, NEW S, IsFiniteSet(S), \A x \in S : f[x] \in Nat
  PROVE  /\ SumOf(f, S) \in Nat
         /\ \A x \in S : f[x] <= SumOf(f, S)
<1> DEFINE G == {T \in SUBSET S : SumOf(f, T) >= 0}
<1>1. \A U \in SUBSET S : IsFiniteSet(U) /\ SumOf(f, U) \in Int
  BY FS_Subset, SumIsInt
<1>2. ASSUME NEW T \in SUBSET S, \A x \in T : T \ {x} \in G
      PROVE  T \in G
  <2>1. CASE T = {}
    BY <2>1, SumEmpty
  <2>2. ASSUME NEW x \in T PROVE SumOf(f, T) >= 0
    <3>1. SumOf(f, T) = f[x] + SumOf(f, T \ {x})
      BY <1>1, SumTakes
    <3>2. SumOf(f, T \ {x}) >= 0 /\ SumOf(f, T \ {x}) \in Int /\ f[x] \in Nat
      BY <1>1, <1>2
    <3> QED
      BY <3>1, <3>2
  <2> QED
    BY <2>1, <2>2
<1>3. \A T \in SUBSET S : T \in G
  <2> HIDE DEF G
  <2> QED
    BY <1>2, SubsetInduction
<1>4. ASSUME NEW x \in S PROVE f[x] <= SumOf(f, S)
  <2>1. SumOf(f, S) = f[x] + SumOf(f, S \ {x})
    BY SumTakes
  <2>2. SumOf(f, S \ {x}) \in Int /\ SumOf(f, S \ {x}) >= 0 /\ f[x] \in Nat
    BY <1>1, <1>3
  <2> QED
    BY <2>1, <2>2
<1> QED
  BY <1>1, <1>3, <1>4

-----------------------------------------------------------------------------
(***************************************************************************)
(* Recursion over the numbers: the sum of the first n values of a function  *)
(* exists for every n, put together from the functions on 0..n.            *)
(***************************************************************************)

SumsTo(g, counts, n) ==
  g = [k \in 0..n |-> IF k = 0 THEN 0 ELSE g[k - 1] + counts[k]]

SumsAll(g, counts) ==
  g = [k \in Nat |-> IF k = 0 THEN 0 ELSE g[k - 1] + counts[k]]

LEMMA SumsToExists ==
  ASSUME NEW counts
  PROVE  \A n \in Nat : \E g : SumsTo(g, counts, n)
<1> DEFINE T == {n \in Nat : \E g : SumsTo(g, counts, n)}
<1>1. 0 \in T
  <2>1. SumsTo([k \in 0..0 |-> 0], counts, 0)
    BY DEF SumsTo
  <2> QED
    BY <2>1
<1>2. ASSUME NEW n \in Nat, n \in T PROVE n + 1 \in T
  <2>1. PICK g : SumsTo(g, counts, n)
    BY <1>2
  <2> DEFINE h == [k \in 0..(n + 1) |->
                     IF k = n + 1 THEN g[n] + counts[n + 1] ELSE g[k]]
  <2>2. ASSUME NEW k \in 0..(n + 1)
        PROVE  h[k] = IF k = 0 THEN 0 ELSE h[k - 1] + counts[k]
    BY <2>1 DEF SumsTo
  <2>3. SumsTo(h, counts, n + 1)
    BY <2>2 DEF SumsTo
  <2> QED
    BY <2>3
<1> HIDE DEF T
<1>3. \A n \in Nat : n \in T
  BY <1>1, <1>2, NumberInduction
<1> QED
  BY <1>3 DEF T

LEMMA SumsToAgree ==
  ASSUME NEW counts, NEW m \in Nat, NEW n \in Nat, m <= n,
         NEW g, SumsTo(g, counts, m), NEW h, SumsTo(h, counts, n)
  PROVE  g[m] = h[m]
<1> DEFINE T == {k \in Nat : k <= m => g[k] = h[k]}
<1>1. 0 \in T
  BY DEF SumsTo
<1>2. ASSUME NEW k \in Nat, k \in T PROVE k + 1 \in T
  <2> SUFFICES ASSUME k + 1 <= m PROVE g[k + 1] = h[k + 1]
    OBVIOUS
  <2>1. g[k] = h[k]
    BY <1>2
  <2>2. k + 1 \in 0..m /\ k + 1 \in 0..n /\ k + 1 # 0 /\ (k + 1) - 1 = k
    OBVIOUS
  <2>3. g[k + 1] = g[k] + counts[k + 1] /\ h[k + 1] = h[k] + counts[k + 1]
    BY <2>2 DEF SumsTo
  <2> QED
    BY <2>1, <2>3
<1> HIDE DEF T
<1>3. \A k \in Nat : k \in T
  BY <1>1, <1>2, NumberInduction
<1> QED
  BY <1>3 DEF T

LEMMA SumsAllExists ==
  ASSUME NEW counts
  PROVE  \E g : SumsAll(g, counts)
<1> DEFINE To(n) == CHOOSE g : SumsTo(g, counts, n)
           h == [k \in Nat |-> To(k)[k]]
<1>1. \A n \in Nat : SumsTo(To(n), counts, n)
  BY SumsToExists
<1> HIDE DEF To
<1>2. ASSUME NEW k \in Nat
      PROVE  h[k] = IF k = 0 THEN 0 ELSE h[k - 1] + counts[k]
  <2>1. CASE k = 0
    BY <1>1, <2>1 DEF SumsTo
  <2>2. CASE k # 0
    <3>1. k - 1 \in Nat /\ k - 1 <= k
      BY <2>2
    <3>2. To(k)[k - 1] = To(k - 1)[k - 1]
      BY <1>1, <3>1, SumsToAgree
    <3>3. To(k)[k] = To(k)[k - 1] + counts[k]
      BY <1>1, <2>2 DEF SumsTo
    <3> QED
      BY <2>2, <3>1, <3>2, <3>3
  <2> QED
    BY <2>1, <2>2
<1>3. SumsAll(h, counts)
  BY <1>2 DEF SumsAll
<1> QED
  BY <1>3

-----------------------------------------------------------------------------
(***************************************************************************)
(* With a quotient q and a remainder r, the first r clients have q + 1      *)
(* messages and the others q: a client starts where that many end.         *)
(***************************************************************************)

\* The number of the first message of client c, in closed form.
FirstOf(q, r, c) == (c - 1) * q + (IF c - 1 <= r THEN c - 1 ELSE r)

LEMMA FirstOfNext ==
  ASSUME NEW q \in Nat, NEW r \in Nat, NEW c \in Nat \ {0}
  PROVE  /\ FirstOf(q, r, 1) = 0
         /\ FirstOf(q, r, c) \in Nat
         /\ FirstOf(q, r, c + 1) = FirstOf(q, r, c) + (q + (IF c <= r THEN 1 ELSE 0))
<1>1. PICK d \in Nat : c = d + 1
  <2>1. c - 1 \in Nat /\ c = (c - 1) + 1
    OBVIOUS
  <2> QED
    BY <2>1
<1>2. (d + 1) * q = d * q + q /\ d * q \in Nat
  OBVIOUS
<1>3. FirstOf(q, r, c) = d * q + (IF d <= r THEN d ELSE r)
  BY <1>1 DEF FirstOf
<1>4. FirstOf(q, r, c + 1) = (d + 1) * q + (IF d + 1 <= r THEN d + 1 ELSE r)
  BY <1>1 DEF FirstOf
<1>5. FirstOf(q, r, 1) = 0
  BY DEF FirstOf
<1> QED
  BY <1>1, <1>2, <1>3, <1>4, <1>5

\* What comes later starts later.
LEMMA FirstOfGrows ==
  ASSUME NEW q \in Nat, NEW r \in Nat,
         NEW c \in Nat \ {0}, NEW d \in Nat \ {0}, c <= d
  PROVE  FirstOf(q, r, c) <= FirstOf(q, r, d)
<1> DEFINE T == {n \in Nat : FirstOf(q, r, c) <= FirstOf(q, r, c + n)}
<1>1. 0 \in T
  <2>1. c + 0 = c /\ FirstOf(q, r, c) \in Nat
    BY FirstOfNext
  <2> QED
    BY <2>1
<1>2. ASSUME NEW n \in Nat, n \in T PROVE n + 1 \in T
  <2>1. c + n \in Nat \ {0} /\ c + (n + 1) = (c + n) + 1
    OBVIOUS
  <2>2. /\ FirstOf(q, r, c) \in Nat /\ FirstOf(q, r, c + n) \in Nat
        /\ FirstOf(q, r, (c + n) + 1) =
             FirstOf(q, r, c + n) + (q + (IF c + n <= r THEN 1 ELSE 0))
    BY <2>1, FirstOfNext
  <2>3. FirstOf(q, r, c) <= FirstOf(q, r, c + n)
    BY <1>2
  <2>4. FirstOf(q, r, c) <= FirstOf(q, r, c + (n + 1))
    BY <2>1, <2>2, <2>3
  <2> QED
    BY <2>4
<1> HIDE DEF T
<1>3. d - c \in T
  BY <1>1, <1>2, NumberInduction
<1>4. c + (d - c) = d
  OBVIOUS
<1> QED
  BY <1>3, <1>4 DEF T

\* Shares of that many cover the numbers of k * q + r messages, one after the
\* other.
LEMMA SharesFit ==
  ASSUME NEW k \in Nat \ {0}, NEW q \in Nat, NEW r \in Nat, r < k
  PROVE  /\ FirstOf(q, r, 1) = 0 /\ FirstOf(q, r, k + 1) = k * q + r
         /\ \A c \in 1..(k + 1) : FirstOf(q, r, c) \in Nat
         /\ \A c \in 1..k :
              FirstOf(q, r, c + 1) = FirstOf(q, r, c) + (q + (IF c <= r THEN 1 ELSE 0))
         /\ \A c, d \in 1..k : c < d => FirstOf(q, r, c + 1) <= FirstOf(q, r, d)
<1>1. \A c \in 1..(k + 1) : c \in Nat \ {0}
  OBVIOUS
<1>2. FirstOf(q, r, k + 1) = k * q + r
  <2>1. (k + 1) - 1 = k /\ ~(k <= r)
    OBVIOUS
  <2> QED
    BY <2>1 DEF FirstOf
<1>3. FirstOf(q, r, 1) = 0 /\ \A c \in 1..(k + 1) : FirstOf(q, r, c) \in Nat
  BY <1>1, FirstOfNext
<1>4. ASSUME NEW c \in 1..k
      PROVE  FirstOf(q, r, c + 1) = FirstOf(q, r, c) + (q + (IF c <= r THEN 1 ELSE 0))
  <2>1. c \in Nat \ {0}
    OBVIOUS
  <2> QED
    BY <2>1, FirstOfNext
<1>5. ASSUME NEW c \in 1..k, NEW d \in 1..k, c < d
      PROVE  FirstOf(q, r, c + 1) <= FirstOf(q, r, d)
  BY <1>5, FirstOfGrows
<1> QED
  BY <1>2, <1>3, <1>4, <1>5

\* They add up to all the messages.
LEMMA SharesSum ==
  ASSUME NEW k \in Nat \ {0}, NEW q \in Nat, NEW r \in Nat, r < k, NEW share,
         \A c \in 1..k : share[c] = q + (IF c <= r THEN 1 ELSE 0)
  PROVE  SumOf(share, 1..k) = k * q + r
<1> DEFINE m == k * q + r
           first(c) == FirstOf(q, r, c)
           T == {n \in Nat : n <= k => SumOf(share, 1..n) = first(n + 1)}
<1>1. /\ first(1) = 0 /\ first(k + 1) = m
      /\ \A c \in 1..k : /\ share[c] \in Nat
                         /\ first(c + 1) = first(c) + share[c]
      /\ \A c \in 1..(k + 1) : first(c) \in Nat
  <2>1. FirstOf(q, r, k + 1) = k * q + r
    <3>1. (k + 1) - 1 = k /\ ~(k <= r)
      OBVIOUS
    <3> QED
      BY <3>1 DEF FirstOf
  <2>2. \A c \in 1..(k + 1) : c \in Nat \ {0}
    OBVIOUS
  <2>3. FirstOf(q, r, 1) = 0 /\ \A c \in 1..(k + 1) : FirstOf(q, r, c) \in Nat
    BY <2>2, FirstOfNext
  <2>4. ASSUME NEW c \in 1..k
        PROVE  /\ share[c] \in Nat
               /\ FirstOf(q, r, c + 1) = FirstOf(q, r, c) + share[c]
    <3>1. share[c] = q + (IF c <= r THEN 1 ELSE 0) /\ c \in Nat \ {0}
      OBVIOUS
    <3> QED
      BY <3>1, FirstOfNext
  <2> QED
    BY <2>1, <2>3, <2>4
<1> HIDE DEF m, first
<1>2. 0 \in T
  <2>1. 1..0 = {} /\ 0 + 1 = 1
    OBVIOUS
  <2> QED
    BY <1>1, <2>1, SumEmpty
<1>3. ASSUME NEW n \in Nat, n \in T PROVE n + 1 \in T
  <2> SUFFICES ASSUME n + 1 <= k
               PROVE  SumOf(share, 1..(n + 1)) = first((n + 1) + 1)
    OBVIOUS
  <2>1. /\ n + 1 \in 1..(n + 1) /\ (1..(n + 1)) \ {n + 1} = 1..n
        /\ n + 1 \in 1..k
        /\ 1..(n + 1) \subseteq 1..k
    OBVIOUS
  <2>2. IsFiniteSet(1..(n + 1))
    BY FS_Interval
  <2>3. \A x \in 1..(n + 1) : share[x] \in Int
    BY <1>1, <2>1
  <2>4. SumOf(share, 1..(n + 1)) = share[n + 1] + SumOf(share, 1..n)
    <3> DEFINE S == 1..(n + 1)
               y == n + 1
    <3>1. IsFiniteSet(S) /\ y \in S /\ \A x \in S : share[x] \in Int
      BY <2>1, <2>2, <2>3
    <3>2. S \ {y} = 1..n
      BY <2>1
    <3> HIDE DEF S, y
    <3>3. SumOf(share, S) = share[y] + SumOf(share, S \ {y})
      BY <3>1, SumTakes
    <3> QED
      BY <3>2, <3>3 DEF S, y
  <2>5. SumOf(share, 1..n) = first(n + 1)
    BY <1>3
  <2>6. first((n + 1) + 1) = first(n + 1) + share[n + 1]
    BY <1>1, <2>1
  <2>7. first(n + 1) \in Nat /\ share[n + 1] \in Nat
    BY <1>1, <2>1
  <2> QED
    BY <2>4, <2>5, <2>6, <2>7
<1> HIDE DEF T
<1>4. k \in T
  BY <1>2, <1>3, NumberInduction
<1> QED
  BY <1>1, <1>4 DEF T, m

LEMMA SharesAddUp ==
  ASSUME NEW m \in Nat, NEW k \in Nat \ {0}, NEW share
  PROVE  (\A c \in 1..k : share[c] = (m \div k) + (IF c <= m % k THEN 1 ELSE 0))
           => SumOf(share, 1..k) = m
<1> DEFINE q == m \div k
           r == m % k
<1>1. q \in Nat /\ r \in Nat /\ r < k /\ m = k * q + r
  BY Divided
<1> HIDE DEF q, r
<1>2. (\A c \in 1..k : share[c] = q + (IF c <= r THEN 1 ELSE 0)) => SumOf(share, 1..k) = m
  BY <1>1, SharesSum
<1> QED
  BY <1>2 DEF q, r
=============================================================================
