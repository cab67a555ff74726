-------------------------- MODULE RecursionAndSums --------------------------
(***************************************************************************)
(* Facts that the proofs use in place of an induction schema: every        *)
(* non-empty set of naturals has a least element, what holds 0 and grows   *)
(* by one holds them all, a step function defines a function by recursion, *)
(* and SumFunctionOnSet of the community modules does not depend on the    *)
(* order of its terms and grows by one at a time.  At the end, what        *)
(* becomes of a list that is copied in part and shuffled.                  *)
(***************************************************************************)
EXTENDS Integers, Sequences, WellFoundedInduction, FiniteSetTheorems, Functions, TLAPS

\* Every non-empty set of naturals has a least element.
LEMMA LeastNat ==
  ASSUME NEW T \in SUBSET Nat, T # {}
  PROVE  \E m \in T : \A k \in T : m <= k
<1> DEFINE Less == {ss \in Nat \X Nat : ss[1] < ss[2]}
<1>1. IsWellFoundedOn(Less, Nat)
  BY NatLessThanWellFounded DEF OpToRel
<1>2. PICK x \in T : \A y \in T : ~(<<y, x>> \in Less)
  <2>1. \E x \in T : \A y \in T : ~(<<y, x>> \in Less)
    <3> HIDE DEF Less
    <3> QED BY <1>1, WFMin
  <2> QED BY <2>1
<1>3. \A y \in T : /\ <<y, x>> \in Nat \X Nat
                   /\ <<y, x>>[1] = y
                   /\ <<y, x>>[2] = x
  BY <1>2
<1>4. \A y \in T : ~(y < x)
  BY <1>2, <1>3
<1> QED BY <1>2, <1>4

\* A set that holds 0, and with a number the next, holds every natural.
LEMMA NatsAreCounted ==
  ASSUME NEW P, 0 \in P, \A n \in Nat : n \in P => n + 1 \in P
  PROVE  \A n \in Nat : n \in P
<1> DEFINE Bad == {n \in Nat : n \notin P}
<1> SUFFICES ASSUME Bad # {} PROVE FALSE
  OBVIOUS
<1>1. PICK b \in Bad : \A k \in Bad : b <= k
  <2> Bad \in SUBSET Nat
    OBVIOUS
  <2> HIDE DEF Bad
  <2> QED BY LeastNat
<1>2. b \in Nat /\ b # 0 /\ b \notin P
  BY <1>1
<1>3. b - 1 \in Nat /\ ~(b <= b - 1) /\ (b - 1) + 1 = b
  BY <1>2
<1>4. b - 1 \in P
  <2>1. b - 1 \notin Bad
    <3> HIDE DEF Bad
    <3> QED BY <1>1, <1>3
  <2> QED BY <1>3, <2>1
<1>5. (b - 1) + 1 \in P
  BY <1>3, <1>4
<1> QED BY <1>2, <1>3, <1>5

\* Parts that hold the empty set and grow by one element hold a whole finite set.
LEMMA FiniteSetsGrow ==
  ASSUME NEW S, IsFiniteSet(S), NEW P, {} \in P,
         \A T \in SUBSET S : T \in P => \A x \in S \ T : T \cup {x} \in P
  PROVE  S \in P
<1> DEFINE Q == {n \in Nat : \A T \in SUBSET S : Cardinality(T) = n => T \in P}
<1>1. \A T \in SUBSET S : IsFiniteSet(T) /\ Cardinality(T) \in Nat
  BY FS_Subset, FS_CardinalityType
<1>2. 0 \in Q
  <2>1. \A T \in SUBSET S : Cardinality(T) = 0 => T = {}
    BY <1>1, FS_EmptySet
  <2> QED BY <2>1
<1>3. ASSUME NEW n \in Nat, n \in Q PROVE n + 1 \in Q
  <2> SUFFICES ASSUME NEW T \in SUBSET S, Cardinality(T) = n + 1 PROVE T \in P
    OBVIOUS
  <2>1. T # {}
    <3>1. Cardinality({}) = 0
      BY FS_EmptySet
    <3> QED BY <3>1
  <2>2. PICK x \in T : TRUE
    BY <2>1
  <2> DEFINE U == T \ {x}
  <2>3. U \in SUBSET S /\ x \in S \ U /\ T = U \cup {x}
    BY <2>2
  <2>4. Cardinality(U) = n
    <3>1. Cardinality(U) = Cardinality(T) - 1
      BY <1>1, <2>2, FS_RemoveElement
    <3> QED BY <3>1
  <2>5. U \in P
    <3> HIDE DEF U
    <3> QED BY <1>3, <2>3, <2>4
  <2> HIDE DEF U
  <2> QED BY <2>3, <2>5
<1> HIDE DEF Q
<1>4. \A n \in Nat : n \in Q
  BY <1>2, <1>3, NatsAreCounted
<1>5. S \in SUBSET S
  OBVIOUS
<1> QED BY <1>1, <1>4, <1>5 DEF Q

\* A finite unfolding of a recursion: g starts at s0 and follows step up to n.
Unfolds(g, n, S, s0, step) ==
  /\ g \in [0 .. n -> S]
  /\ g[0] = s0
  /\ \A k \in 1 .. n : g[k] = step[k][g[k - 1]]

\* Every finite unfolding can be continued.
LEMMA UnfoldingsExist ==
  ASSUME NEW S, NEW s0 \in S, NEW step \in [Nat -> [S -> S]], NEW n \in Nat
  PROVE  \E g : Unfolds(g, n, S, s0, step)
<1> DEFINE Bad == {m \in Nat : ~ \E g : Unfolds(g, m, S, s0, step)}
<1> SUFFICES ASSUME Bad # {} PROVE FALSE
  OBVIOUS
<1>1. PICK m \in Bad : \A k \in Bad : m <= k
  <2> Bad \in SUBSET Nat
    OBVIOUS
  <2> HIDE DEF Bad
  <2> QED BY LeastNat
<1>2. m \in Nat /\ ~ \E g : Unfolds(g, m, S, s0, step)
  BY <1>1
<1>3. CASE m = 0
  <2>1. Unfolds([k \in 0 .. 0 |-> s0], 0, S, s0, step)
    BY DEF Unfolds
  <2> QED BY <2>1, <1>2, <1>3
<1>4. CASE m # 0
  <2>1. m - 1 \in Nat /\ m - 1 \notin Bad
    <3>1. m - 1 \in Nat /\ ~(m <= m - 1)
      BY <1>2, <1>4
    <3> HIDE DEF Bad
    <3> QED BY <1>1, <3>1
  <2>2. PICK g : Unfolds(g, m - 1, S, s0, step)
    BY <2>1
  <2> DEFINE h == [k \in 0 .. m |-> IF k < m THEN g[k] ELSE step[m][g[m - 1]]]
  <2>3. g[m - 1] \in S /\ step[m][g[m - 1]] \in S
    BY <2>1, <2>2, <1>2 DEF Unfolds
  <2>4. h \in [0 .. m -> S]
    BY <2>1, <2>2, <2>3, <1>2 DEF Unfolds
  <2>5. h[0] = s0
    BY <2>2, <1>2, <1>4 DEF Unfolds
  <2>6. ASSUME NEW k \in 1 .. m PROVE h[k] = step[k][h[k - 1]]
    <3>1. k - 1 \in 0 .. m /\ k - 1 < m /\ h[k - 1] = g[k - 1]
      BY <1>2
    <3>2. CASE k = m
      BY <3>1, <3>2, <1>2
    <3>3. CASE k < m
      <4>1. k \in 1 .. (m - 1) /\ g[k] = step[k][g[k - 1]]
        BY <2>2, <3>3, <1>2 DEF Unfolds
      <4>2. h[k] = g[k]
        BY <3>3, <1>2
      <4> HIDE DEF h
      <4> QED BY <4>1, <4>2, <3>1
    <3> QED BY <3>2, <3>3, <1>2
  <2>7. Unfolds(h, m, S, s0, step)
    <3> HIDE DEF h
    <3> QED BY <2>4, <2>5, <2>6 DEF Unfolds
  <2> QED BY <2>7, <1>2
<1> QED BY <1>3, <1>4

\* Two unfoldings agree wherever both are defined.
LEMMA UnfoldingsAgree ==
  ASSUME NEW S, NEW s0 \in S, NEW step \in [Nat -> [S -> S]],
         NEW n \in Nat, NEW m \in Nat, n <= m,
         NEW g, NEW h, Unfolds(g, n, S, s0, step), Unfolds(h, m, S, s0, step)
  PROVE  \A k \in 0 .. n : g[k] = h[k]
<1> DEFINE Bad == {k \in Nat : k <= n /\ g[k] # h[k]}
<1> SUFFICES ASSUME Bad # {} PROVE FALSE
  OBVIOUS
<1>1. PICK b \in Bad : \A k \in Bad : b <= k
  <2> Bad \in SUBSET Nat
    OBVIOUS
  <2> HIDE DEF Bad
  <2> QED BY LeastNat
<1>2. b \in Nat /\ b <= n /\ g[b] # h[b]
  BY <1>1
<1>3. b # 0
  BY <1>2 DEF Unfolds
<1>4. b - 1 \in Nat /\ g[b - 1] = h[b - 1]
  <2>1. b - 1 \in Nat /\ b - 1 <= n /\ ~(b <= b - 1)
    BY <1>2, <1>3
  <2>2. b - 1 \notin Bad
    BY <1>1, <2>1
  <2> QED BY <2>1, <2>2
<1>5. b \in 1 .. n /\ b \in 1 .. m
  BY <1>2, <1>3
<1>6. g[b] = step[b][g[b - 1]] /\ h[b] = step[b][h[b - 1]]
  BY <1>5 DEF Unfolds
<1> QED BY <1>2, <1>4, <1>6

\* f starts at s0 and follows step for ever.
Follows(f, S, s0, step) ==
  /\ f \in [Nat -> S]
  /\ f[0] = s0
  /\ \A n \in Nat \ {0} : f[n] = step[n][f[n - 1]]

\* A step function on a set S and a first value in S define a function on Nat.
LEMMA RecursionDefines ==
  ASSUME NEW S, NEW s0 \in S, NEW step \in [Nat -> [S -> S]]
  PROVE  \E f : Follows(f, S, s0, step)
<1> DEFINE U(n) == CHOOSE g : Unfolds(g, n, S, s0, step)
           f == [n \in Nat |-> U(n)[n]]
<1>1. \A n \in Nat : Unfolds(U(n), n, S, s0, step)
  BY UnfoldingsExist
<1> HIDE DEF U
<1>2. f \in [Nat -> S]
  BY <1>1 DEF Unfolds
<1>3. f[0] = s0
  BY <1>1 DEF Unfolds
<1>4. ASSUME NEW n \in Nat \ {0} PROVE f[n] = step[n][f[n - 1]]
  <2>1. n - 1 \in Nat /\ n - 1 <= n /\ n \in 1 .. n /\ n - 1 \in 0 .. n - 1
    OBVIOUS
  <2>2. U(n - 1)[n - 1] = U(n)[n - 1]
    BY <1>1, <2>1, UnfoldingsAgree
  <2>3. U(n)[n] = step[n][U(n)[n - 1]]
    BY <1>1, <2>1 DEF Unfolds
  <2> QED BY <2>1, <2>2, <2>3
<1> HIDE DEF f
<1> QED BY <1>2, <1>3, <1>4 DEF Follows

-----------------------------------------------------------------------------
(* Sums over finite sets.                                                  *)

\* iter is the sum of f over every part of S, with terms taken in some order.
Sums(iter, f, S) ==
  /\ iter \in [SUBSET S -> Int]
  /\ iter[{}] = 0
  /\ \A T \in SUBSET S : T # {} => \E x \in T : iter[T] = f[x] + iter[T \ {x}]

\* iter takes a set's terms one by one, c saying which one is next.
TakesTerms(iter, f, S, c) ==
  iter = [T \in SUBSET S |-> IF T = {} THEN 0 ELSE f[c[T]] + iter[T \ {c[T]}]]

\* Taking terms away one by one, by whatever choice, defines a sum.
LEMMA SumsExist ==
  ASSUME NEW S, IsFiniteSet(S), NEW f, \A x \in S : f[x] \in Int,
         NEW c, \A T \in SUBSET S : T # {} => c[T] \in T
  PROVE  \E iter \in [SUBSET S -> Int] : TakesTerms(iter, f, S, c)
<1> DEFINE V == [SUBSET S -> Int]
           Turn(F) == [T \in SUBSET S |-> IF T = {} THEN 0 ELSE f[c[T]] + F[T \ {c[T]}]]
           step == [n \in Nat |-> [F \in V |-> Turn(F)]]
           zero == [T \in SUBSET S |-> 0]
<1>1. \A F \in V : Turn(F) \in V
  OBVIOUS
<1>2. step \in [Nat -> [V -> V]] /\ zero \in V
  <2>1. zero \in V
    OBVIOUS
  <2>2. step \in [Nat -> [V -> V]]
    <3> HIDE DEF Turn, V
    <3> QED BY <1>1
  <2> QED BY <2>1, <2>2
<1>3. PICK g : Follows(g, V, zero, step)
  <2> HIDE DEF V, step, zero
  <2> QED BY <1>2, RecursionDefines
<1>4. g \in [Nat -> V] /\ g[0] = zero
  BY <1>3 DEF Follows
<1>5. \A n \in Nat \ {0} : g[n] = Turn(g[n - 1])
  <2>1. \A n \in Nat \ {0} : n - 1 \in Nat /\ n \in Nat /\ g[n - 1] \in V
    BY <1>4
  <2>2. \A n \in Nat \ {0} : g[n] = step[n][g[n - 1]]
    BY <1>3 DEF Follows
  <2> HIDE DEF Turn, V
  <2> QED BY <2>1, <2>2
<1> DEFINE iter == [T \in SUBSET S |-> g[Cardinality(T)][T]]
<1>6. \A T \in SUBSET S : IsFiniteSet(T) /\ Cardinality(T) \in Nat
  BY FS_Subset, FS_CardinalityType
<1>7. iter \in V
  BY <1>4, <1>6
<1>8. ASSUME NEW T \in SUBSET S
      PROVE  iter[T] = IF T = {} THEN 0 ELSE f[c[T]] + iter[T \ {c[T]}]
  <2>1. CASE T = {}
    <3>1. Cardinality(T) = 0
      BY <2>1, FS_EmptySet
    <3> QED BY <2>1, <3>1, <1>4
  <2>2. CASE T # {}
    <3> DEFINE n == Cardinality(T)
               U == T \ {c[T]}
    <3>1. U \in SUBSET S /\ c[T] \in T
      BY <2>2
    <3>2. Cardinality(U) = n - 1 /\ n \in Nat /\ n # 0
      BY <1>6, <2>2, <3>1, FS_RemoveElement, FS_EmptySet
    <3>3. g[n] = Turn(g[n - 1])
      <4> HIDE DEF n, Turn
      <4> QED BY <1>5, <3>2
    <3>4. g[n][T] = f[c[T]] + g[n - 1][U]
      BY <2>2, <3>3
    <3>5. iter[U] = g[n - 1][U]
      BY <3>1, <3>2
    <3> QED BY <2>2, <3>4, <3>5
  <2> QED BY <2>1, <2>2
<1>9. iter = [T \in SUBSET S |-> IF T = {} THEN 0 ELSE f[c[T]] + iter[T \ {c[T]}]]
  <2>1. DOMAIN iter = SUBSET S /\ iter = [T \in SUBSET S |-> iter[T]]
    OBVIOUS
  <2> HIDE DEF iter
  <2> QED BY <2>1, <1>8
<1> HIDE DEF iter
<1> QED BY <1>7, <1>9 DEF TakesTerms

\* The operator of the community modules is such a sum.
LEMMA SumUnfolds ==
  ASSUME NEW S, IsFiniteSet(S), NEW f, \A x \in S : f[x] \in Int
  PROVE  \E iter : Sums(iter, f, S) /\ SumFunctionOnSet(f, S) = iter[S]
<1> DEFINE Eq(it) == it = [s \in SUBSET S |-> IF s = {} THEN 0
                             ELSE f[CHOOSE x \in s : TRUE] + it[s \ {CHOOSE x \in s : TRUE}]]
<1>1. SumFunctionOnSet(f, S) = (CHOOSE it : Eq(it))[S]
  BY DEF SumFunctionOnSet, FoldFunctionOnSet, MapThenFoldSet
<1> DEFINE c == [s \in SUBSET S |-> CHOOSE x \in s : TRUE]
<1>2. \A s \in SUBSET S : s # {} => c[s] \in s
  OBVIOUS
<1>3. PICK it \in [SUBSET S -> Int] : TakesTerms(it, f, S, c)
  <2> HIDE DEF c
  <2> QED BY <1>2, SumsExist
<1>4. Eq(it)
  BY <1>3 DEF TakesTerms
<1> DEFINE iter == CHOOSE g : Eq(g)
<1>5. Eq(iter)
  <2> HIDE DEF Eq
  <2> QED BY <1>4
<1>6. \A s \in SUBSET S : s # {} => iter[s] = f[c[s]] + iter[s \ {c[s]}]
  <2> HIDE DEF iter
  <2> QED BY <1>5
<1>7. iter[{}] = 0
  <2> HIDE DEF iter
  <2> QED BY <1>5
<1> HIDE DEF iter, c
\* The equation alone fixes the type, by the least size of a counterexample.
<1>8. \A T \in SUBSET S : iter[T] \in Int
  <2> DEFINE Bad == {n \in Nat : \E T \in SUBSET S : Cardinality(T) = n /\ iter[T] \notin Int}
  <2>1. \A T \in SUBSET S : IsFiniteSet(T) /\ Cardinality(T) \in Nat
    BY FS_Subset, FS_CardinalityType
  <2> SUFFICES ASSUME Bad # {} PROVE FALSE
    BY <2>1
  <2>2. PICK n \in Bad : \A k \in Bad : n <= k
    <3> Bad \in SUBSET Nat
      OBVIOUS
    <3> HIDE DEF Bad
    <3> QED BY LeastNat
  <2>3. PICK T \in SUBSET S : Cardinality(T) = n /\ iter[T] \notin Int
    BY <2>2
  <2>4. T # {}
    <3>1. iter[{}] \in Int
      BY <1>7
    <3> QED BY <2>3, <3>1
  <2>5. c[T] \in T /\ f[c[T]] \in Int /\ T \ {c[T]} \in SUBSET S
    BY <1>2, <2>3, <2>4
  <2>6. Cardinality(T \ {c[T]}) = n - 1 /\ n \in Nat
    BY <2>1, <2>3, <2>5, FS_RemoveElement
  <2>7. n - 1 \in Nat
    BY <2>1, <2>5, <2>6
  <2>8. n - 1 \notin Bad
    <3> HIDE DEF Bad
    <3> QED BY <2>2, <2>6, <2>7
  <2>9. iter[T \ {c[T]}] \in Int
    BY <2>5, <2>6, <2>7, <2>8
  <2> QED BY <1>6, <2>3, <2>4, <2>5, <2>9
<1>9. iter \in [SUBSET S -> Int]
  <2>1. \E g : iter = [s \in SUBSET S |-> g[s]]
    <3>1. iter = [s \in SUBSET S |-> IF s = {} THEN 0
                    ELSE f[CHOOSE x \in s : TRUE] + iter[s \ {CHOOSE x \in s : TRUE}]]
      BY <1>5
    <3>2. iter = [s \in SUBSET S |-> iter[s]]
      BY <3>1
    <3> QED BY <3>2
  <2> QED BY <2>1, <1>8
<1>10. Sums(iter, f, S)
  BY <1>2, <1>6, <1>7, <1>9 DEF Sums
<1> QED BY <1>1, <1>10 DEF iter

\* A sum may be taken in any order.
LEMMA AnyOrder ==
  ASSUME NEW S, IsFiniteSet(S), NEW f, \A x \in S : f[x] \in Int,
         NEW iter, Sums(iter, f, S), NEW T \in SUBSET S, NEW x \in T
  PROVE  iter[T] = f[x] + iter[T \ {x}]
<1> DEFINE Holds(U) == \A y \in U : iter[U] = f[y] + iter[U \ {y}]
           Bad == {n \in Nat : \E U \in SUBSET S : Cardinality(U) = n /\ ~Holds(U)}
<1>1. \A U \in SUBSET S : IsFiniteSet(U) /\ Cardinality(U) \in Nat /\ iter[U] \in Int
  BY FS_Subset, FS_CardinalityType DEF Sums
<1> SUFFICES ASSUME Bad # {} PROVE FALSE
  <2>1. Bad = {} => Holds(T)
    BY <1>1
  <2> QED BY <2>1
<1>2. PICK n \in Bad : \A k \in Bad : n <= k
  <2> Bad \in SUBSET Nat
    OBVIOUS
  <2> HIDE DEF Bad
  <2> QED BY LeastNat
<1>3. PICK U \in SUBSET S : Cardinality(U) = n /\ ~Holds(U)
  BY <1>2
<1>4. PICK y \in U : iter[U] # f[y] + iter[U \ {y}]
  BY <1>3
<1>5. PICK z \in U : iter[U] = f[z] + iter[U \ {z}]
  BY <1>4 DEF Sums
<1>6. z # y /\ f[z] \in Int /\ f[y] \in Int
  BY <1>4, <1>5
\* One term less, and the order does not matter.
<1>7. ASSUME NEW w \in U PROVE Holds(U \ {w})
  <2>1. U \ {w} \in SUBSET S /\ Cardinality(U \ {w}) = n - 1 /\ n \in Nat
    BY <1>1, <1>3, FS_RemoveElement
  <2>2. n - 1 \in Nat
    BY <1>1, <2>1
  <2>3. n - 1 \notin Bad
    <3> HIDE DEF Bad
    <3> QED BY <1>2, <2>1, <2>2
  <2> HIDE DEF Holds
  <2> QED BY <2>1, <2>2, <2>3
<1>8. iter[U \ {z}] = f[y] + iter[(U \ {z}) \ {y}]
  BY <1>4, <1>6, <1>7
<1>9. iter[U \ {y}] = f[z] + iter[(U \ {y}) \ {z}]
  BY <1>5, <1>6, <1>7
<1>10. (U \ {z}) \ {y} = (U \ {y}) \ {z} /\ iter[(U \ {y}) \ {z}] \in Int
  BY <1>1
<1>11. iter[U] = f[z] + (f[y] + iter[(U \ {y}) \ {z}])
  BY <1>5, <1>8, <1>10
<1>12. f[y] + iter[U \ {y}] = f[y] + (f[z] + iter[(U \ {y}) \ {z}])
  BY <1>9
<1> QED BY <1>4, <1>6, <1>10, <1>11, <1>12

\* Two sums of the same terms are equal, whatever else each of them adds up.
LEMMA SumsAgree ==
  ASSUME NEW A, IsFiniteSet(A), NEW B, IsFiniteSet(B), NEW f, NEW g,
         \A x \in A : f[x] \in Int, \A x \in B : g[x] \in Int,
         NEW iter, Sums(iter, f, A), NEW jter, Sums(jter, g, B),
         NEW T \in SUBSET A, T \in SUBSET B, \A x \in T : f[x] = g[x]
  PROVE  iter[T] = jter[T]
<1> DEFINE Bad == {n \in Nat : \E U \in SUBSET T : Cardinality(U) = n /\ iter[U] # jter[U]}
<1>1. \A U \in SUBSET T : IsFiniteSet(U) /\ Cardinality(U) \in Nat
  BY FS_Subset, FS_CardinalityType
<1> SUFFICES ASSUME Bad # {} PROVE FALSE
  <2>1. T \in SUBSET T
    OBVIOUS
  <2> QED BY <1>1, <2>1
<1>2. PICK n \in Bad : \A k \in Bad : n <= k
  <2> Bad \in SUBSET Nat
    OBVIOUS
  <2> HIDE DEF Bad
  <2> QED BY LeastNat
<1>3. PICK U \in SUBSET T : Cardinality(U) = n /\ iter[U] # jter[U]
  BY <1>2
<1>4. PICK x \in U : iter[U] = f[x] + iter[U \ {x}]
  <2>1. U # {} /\ U \in SUBSET A
    BY <1>3 DEF Sums
  <2> QED BY <2>1 DEF Sums
<1>5. jter[U] = g[x] + jter[U \ {x}] /\ f[x] = g[x]
  <2>1. U \in SUBSET B /\ x \in U
    BY <1>3
  <2>2. jter[U] = g[x] + jter[U \ {x}]
    BY <2>1, AnyOrder
  <2> QED BY <2>1, <2>2, <1>3
<1>6. iter[U \ {x}] = jter[U \ {x}]
  <2>1. U \ {x} \in SUBSET T /\ Cardinality(U \ {x}) = n - 1 /\ n \in Nat
    BY <1>1, <1>3, FS_RemoveElement
  <2>2. n - 1 \in Nat
    BY <1>1, <2>1
  <2>3. n - 1 \notin Bad
    <3> HIDE DEF Bad
    <3> QED BY <1>2, <2>1, <2>2
  <2> QED BY <2>1, <2>2, <2>3
<1> QED BY <1>3, <1>4, <1>5, <1>6

-----------------------------------------------------------------------------
(* What the proofs about the models use.                                   *)

\* A sum of integers is an integer, and an empty one is zero.
LEMMA SumType ==
  ASSUME NEW S, IsFiniteSet(S), NEW f, \A x \in S : f[x] \in Int
  PROVE  SumFunctionOnSet(f, S) \in Int
<1>1. PICK iter : Sums(iter, f, S) /\ SumFunctionOnSet(f, S) = iter[S]
  BY SumUnfolds
<1>2. S \in SUBSET S
  OBVIOUS
<1> QED BY <1>1, <1>2 DEF Sums

LEMMA SumEmpty ==
  ASSUME NEW f PROVE SumFunctionOnSet(f, {}) = 0
<1>1. IsFiniteSet({}) /\ \A x \in {} : f[x] \in Int
  BY FS_EmptySet
<1>2. PICK iter : Sums(iter, f, {}) /\ SumFunctionOnSet(f, {}) = iter[{}]
  BY <1>1, SumUnfolds
<1> QED BY <1>2 DEF Sums

\* A sum depends on the terms alone.
LEMMA SumSame ==
  ASSUME NEW S, IsFiniteSet(S), NEW f, NEW g, \A x \in S : f[x] \in Int /\ f[x] = g[x]
  PROVE  SumFunctionOnSet(f, S) = SumFunctionOnSet(g, S)
<1>1. PICK iter : Sums(iter, f, S) /\ SumFunctionOnSet(f, S) = iter[S]
  BY SumUnfolds
<1>2. PICK jter : Sums(jter, g, S) /\ SumFunctionOnSet(g, S) = jter[S]
  BY SumUnfolds
<1>3. S \in SUBSET S
  OBVIOUS
<1>4. iter[S] = jter[S]
  BY <1>1, <1>2, <1>3, SumsAgree
<1> QED BY <1>1, <1>2, <1>4

\* One term more.
LEMMA SumAdd ==
  ASSUME NEW S, IsFiniteSet(S), NEW x, x \notin S, NEW f, \A y \in S \cup {x} : f[y] \in Int
  PROVE  SumFunctionOnSet(f, S \cup {x}) = SumFunctionOnSet(f, S) + f[x]
<1> DEFINE T == S \cup {x}
<1>1. IsFiniteSet(T)
  BY FS_AddElement
<1>2. PICK iter : Sums(iter, f, T) /\ SumFunctionOnSet(f, T) = iter[T]
  <2> HIDE DEF T
  <2>1. \A y \in T : f[y] \in Int
    BY DEF T
  <2> QED BY <1>1, <2>1, SumUnfolds
<1>3. PICK jter : Sums(jter, f, S) /\ SumFunctionOnSet(f, S) = jter[S]
  BY SumUnfolds
<1>4. T \in SUBSET T /\ x \in T /\ T \ {x} = S /\ S \in SUBSET T /\ S \in SUBSET S
  OBVIOUS
<1>5. iter[T] = f[x] + iter[S]
  <2>1. \A y \in T : f[y] \in Int
    OBVIOUS
  <2> HIDE DEF T
  <2>2. iter[T] = f[x] + iter[T \ {x}]
    BY <1>1, <1>2, <1>4, <2>1, AnyOrder
  <2> QED BY <1>4, <2>2
<1>6. iter[S] = jter[S]
  <2>1. \A y \in T : f[y] \in Int
    OBVIOUS
  <2> HIDE DEF T
  <2> QED BY <1>1, <1>2, <1>3, <1>4, <2>1, SumsAgree
<1>7. jter[S] \in Int /\ f[x] \in Int
  BY <1>3, <1>4 DEF Sums
<1> QED BY <1>2, <1>3, <1>5, <1>6, <1>7

\* The sum of the steps of a path is what lies between its ends.
LEMMA SumTelescopes ==
  ASSUME NEW lo \in Int, NEW n \in Nat, NEW v, \A k \in lo .. (lo + n) : v[k] \in Int,
         NEW f, \A k \in (lo + 1) .. (lo + n) : f[k] = v[k] - v[k - 1]
  PROVE  SumFunctionOnSet(f, (lo + 1) .. (lo + n)) = v[lo + n] - v[lo]
<1> DEFINE Part(j) == SumFunctionOnSet(f, (lo + 1) .. (lo + j))
           Bad == {j \in Nat : j <= n /\ Part(j) # v[lo + j] - v[lo]}
<1>1. \A k \in (lo + 1) .. (lo + n) : f[k] \in Int
  <2> SUFFICES ASSUME NEW k \in (lo + 1) .. (lo + n) PROVE f[k] \in Int
    OBVIOUS
  <2>1. k \in lo .. (lo + n) /\ k - 1 \in lo .. (lo + n)
    OBVIOUS
  <2>2. v[k] \in Int /\ v[k - 1] \in Int
    BY <2>1
  <2> QED BY <2>2
<1> SUFFICES ASSUME Bad # {} PROVE FALSE
  <2>1. n \in Nat /\ n <= n
    OBVIOUS
  <2>2. Bad = {} => Part(n) = v[lo + n] - v[lo]
    BY <2>1
  <2> QED BY <2>2
<1>2. PICK b \in Bad : \A j \in Bad : b <= j
  <2> Bad \in SUBSET Nat
    OBVIOUS
  <2> HIDE DEF Bad
  <2> QED BY LeastNat
<1> HIDE DEF Part
<1>3. b \in Nat /\ b <= n /\ Part(b) # v[lo + b] - v[lo]
  BY <1>2
<1>4. b # 0
  <2> SUFFICES ASSUME b = 0 PROVE FALSE
    OBVIOUS
  <2>1. (lo + 1) .. (lo + 0) = {}
    OBVIOUS
  <2>2. Part(0) = 0
    BY <2>1, SumEmpty DEF Part
  <2>3. v[lo] \in Int /\ lo + 0 = lo
    OBVIOUS
  <2> QED BY <1>3, <2>2, <2>3
<1>5. b - 1 \in Nat /\ b - 1 <= n /\ ~(b <= b - 1)
  BY <1>3, <1>4
<1>6. Part(b - 1) = v[lo + (b - 1)] - v[lo]
  <2>1. b - 1 \notin Bad
    <3> HIDE DEF Bad
    <3> QED BY <1>2, <1>5
  <2> QED BY <1>5, <2>1
<1> DEFINE S == (lo + 1) .. (lo + (b - 1))
           x == lo + b
<1>7. (lo + 1) .. (lo + b) = S \cup {x} /\ x \notin S /\ x \in (lo + 1) .. (lo + n) /\ x - 1 = lo + (b - 1)
  BY <1>3, <1>4
<1>8. IsFiniteSet(S) /\ \A y \in S \cup {x} : f[y] \in Int
  <2>1. \A y \in S \cup {x} : y \in (lo + 1) .. (lo + n)
    BY <1>3, <1>4
  <2>2. lo + 1 \in Int /\ lo + (b - 1) \in Int
    BY <1>5
  <2>3. IsFiniteSet(S)
    BY <2>2, FS_Interval
  <2> QED BY <1>1, <2>1, <2>3
<1> HIDE DEF S
<1>9. SumFunctionOnSet(f, S \cup {x}) = SumFunctionOnSet(f, S) + f[x]
  BY <1>7, <1>8, SumAdd
<1>10. Part(b) = Part(b - 1) + f[x]
  BY <1>7, <1>9 DEF Part, S
<1>11. f[x] = v[x] - v[x - 1]
  BY <1>7
<1>12. v[lo] \in Int /\ v[lo + (b - 1)] \in Int /\ v[lo + b] \in Int
  <2>1. lo \in lo .. (lo + n) /\ lo + (b - 1) \in lo .. (lo + n) /\ lo + b \in lo .. (lo + n)
    BY <1>3, <1>5
  <2> QED BY <2>1
<1>13. Part(b) = (v[lo + (b - 1)] - v[lo]) + (v[lo + b] - v[lo + (b - 1)])
  BY <1>6, <1>7, <1>10, <1>11
<1> QED BY <1>3, <1>12, <1>13

\* The sum over two sets without a common element.
LEMMA SumUnion ==
  ASSUME NEW A, IsFiniteSet(A), NEW B, IsFiniteSet(B), A \cap B = {},
         NEW f, \A x \in A \cup B : f[x] \in Int
  PROVE  SumFunctionOnSet(f, A \cup B) = SumFunctionOnSet(f, A) + SumFunctionOnSet(f, B)
<1> DEFINE P == {T \in SUBSET B : SumFunctionOnSet(f, A \cup T)
                                   = SumFunctionOnSet(f, A) + SumFunctionOnSet(f, T)}
<1>1. SumFunctionOnSet(f, A) \in Int
  BY SumType
<1>2. {} \in P
  <2>1. A \cup {} = A
    OBVIOUS
  <2> QED BY <1>1, <2>1, SumEmpty
<1>3. ASSUME NEW T \in SUBSET B, T \in P, NEW x \in B \ T PROVE T \cup {x} \in P
  <2>1. IsFiniteSet(T) /\ IsFiniteSet(A \cup T)
    BY FS_Subset, FS_Union
  <2>2. SumFunctionOnSet(f, T \cup {x}) = SumFunctionOnSet(f, T) + f[x]
    BY <2>1, SumAdd
  <2>3. SumFunctionOnSet(f, (A \cup T) \cup {x}) = SumFunctionOnSet(f, A \cup T) + f[x]
    <3>1. x \notin A \cup T /\ \A y \in (A \cup T) \cup {x} : f[y] \in Int
      OBVIOUS
    <3> QED BY <2>1, <3>1, SumAdd
  <2>4. SumFunctionOnSet(f, A \cup (T \cup {x})) = SumFunctionOnSet(f, (A \cup T) \cup {x})
    <3>1. A \cup (T \cup {x}) = (A \cup T) \cup {x}
      OBVIOUS
    <3> QED BY <3>1, Zenon
  <2>5. SumFunctionOnSet(f, T) \in Int /\ f[x] \in Int
    BY <2>1, SumType
  <2>6. SumFunctionOnSet(f, A \cup T) = SumFunctionOnSet(f, A) + SumFunctionOnSet(f, T)
    BY <1>3
  <2>7. SumFunctionOnSet(f, A \cup (T \cup {x}))
        = SumFunctionOnSet(f, A) + SumFunctionOnSet(f, T \cup {x})
    <3> HIDE DEF P
    <3> QED BY ONLY <1>1, <2>2, <2>3, <2>4, <2>5, <2>6
  <2> QED BY <2>7
<1>4. B \in P
  <2> HIDE DEF P
  <2> QED BY <1>2, <1>3, FiniteSetsGrow
<1> QED BY <1>4

\* A sum of terms that are linear in those of two others.
LEMMA SumCombination ==
  ASSUME NEW S, IsFiniteSet(S), NEW f, NEW g, NEW h, NEW b \in Int, NEW c \in Int,
         \A x \in S : f[x] \in Int /\ g[x] \in Int /\ h[x] = f[x] + b * g[x] + c
  PROVE  SumFunctionOnSet(h, S)
         = SumFunctionOnSet(f, S) + b * SumFunctionOnSet(g, S) + c * Cardinality(S)
<1> DEFINE P == {T \in SUBSET S : SumFunctionOnSet(h, T)
                   = SumFunctionOnSet(f, T) + b * SumFunctionOnSet(g, T) + c * Cardinality(T)}
<1>1. {} \in P
  BY SumEmpty, FS_EmptySet
<1>2. ASSUME NEW T \in SUBSET S, T \in P, NEW x \in S \ T PROVE T \cup {x} \in P
  <2>1. IsFiniteSet(T) /\ Cardinality(T) \in Nat /\ Cardinality(T \cup {x}) = Cardinality(T) + 1
    BY FS_Subset, FS_AddElement, FS_CardinalityType
  <2>2. \A y \in T \cup {x} : f[y] \in Int /\ g[y] \in Int /\ h[y] \in Int
    OBVIOUS
  <2>3. /\ SumFunctionOnSet(f, T \cup {x}) = SumFunctionOnSet(f, T) + f[x]
        /\ SumFunctionOnSet(g, T \cup {x}) = SumFunctionOnSet(g, T) + g[x]
        /\ SumFunctionOnSet(h, T \cup {x}) = SumFunctionOnSet(h, T) + h[x]
    BY <2>1, <2>2, SumAdd
  <2>4. SumFunctionOnSet(f, T) \in Int /\ SumFunctionOnSet(g, T) \in Int
    BY <2>1, <2>2, SumType
  <2>5. \A sf, sg, n, fx, gx \in Int :
          (sf + b * sg + c * n) + (fx + b * gx + c) = (sf + fx) + b * (sg + gx) + c * (n + 1)
    BY SMTT(30)
  <2>6. f[x] \in Int /\ g[x] \in Int /\ h[x] = f[x] + b * g[x] + c
    OBVIOUS
  <2>7. SumFunctionOnSet(h, T)
        = SumFunctionOnSet(f, T) + b * SumFunctionOnSet(g, T) + c * Cardinality(T)
    BY <1>2
  <2>8. SumFunctionOnSet(h, T \cup {x})
        = SumFunctionOnSet(f, T \cup {x}) + b * SumFunctionOnSet(g, T \cup {x})
          + c * Cardinality(T \cup {x})
    BY <2>1, <2>3, <2>4, <2>5, <2>6, <2>7
  <2> QED BY <2>8
<1>3. S \in P
  <2> HIDE DEF P
  <2> QED BY <1>1, <1>2, FiniteSetsGrow
<1> QED BY <1>3

\* A constant factor goes before the sum.
LEMMA SumScaled ==
  ASSUME NEW S, IsFiniteSet(S), NEW f, NEW h, NEW b \in Int,
         \A x \in S : f[x] \in Int /\ h[x] = b * f[x]
  PROVE  SumFunctionOnSet(h, S) = b * SumFunctionOnSet(f, S)
<1> DEFINE P == {T \in SUBSET S : SumFunctionOnSet(h, T) = b * SumFunctionOnSet(f, T)}
<1>1. {} \in P
  BY SumEmpty
<1>2. ASSUME NEW T \in SUBSET S, T \in P, NEW x \in S \ T PROVE T \cup {x} \in P
  <2>1. IsFiniteSet(T) /\ \A y \in T \cup {x} : f[y] \in Int /\ h[y] \in Int
    BY FS_Subset
  <2>2. /\ SumFunctionOnSet(f, T \cup {x}) = SumFunctionOnSet(f, T) + f[x]
        /\ SumFunctionOnSet(h, T \cup {x}) = SumFunctionOnSet(h, T) + h[x]
    BY <2>1, SumAdd
  <2>3. SumFunctionOnSet(f, T) \in Int
    BY <2>1, SumType
  <2>4. f[x] \in Int /\ h[x] = b * f[x] /\ SumFunctionOnSet(h, T) = b * SumFunctionOnSet(f, T)
    BY <1>2
  <2>5. SumFunctionOnSet(h, T \cup {x}) = b * SumFunctionOnSet(f, T \cup {x})
    <3>1. \A s, y \in Int : b * s + b * y = b * (s + y)
      BY SMTT(30)
    <3> QED BY <2>2, <2>3, <2>4, <3>1
  <2> QED BY <2>5
<1>3. S \in P
  <2> HIDE DEF P
  <2> QED BY <1>1, <1>2, FiniteSetsGrow
<1> QED BY <1>3

\* Terms that are zero add nothing.
LEMMA SumOverZeros ==
  ASSUME NEW S, IsFiniteSet(S), NEW A \in SUBSET S, NEW f, NEW g,
         \A x \in S : f[x] \in Int /\ f[x] = IF x \in A THEN g[x] ELSE 0
  PROVE  SumFunctionOnSet(f, S) = SumFunctionOnSet(g, A)
<1> DEFINE Z == S \ A
<1>1. /\ IsFiniteSet(A) /\ IsFiniteSet(Z) /\ A \cap Z = {} /\ A \cup Z = S
      /\ \A x \in A : f[x] \in Int /\ f[x] = g[x]
      /\ \A x \in Z : f[x] \in Int /\ f[x] = 0 * f[x]
  <2>1. Z \in SUBSET S
    OBVIOUS
  <2>2. IsFiniteSet(A) /\ IsFiniteSet(Z)
    BY <2>1, FS_Subset
  <2> QED BY <2>2
<1> HIDE DEF Z
<1>2. SumFunctionOnSet(f, S) = SumFunctionOnSet(f, A) + SumFunctionOnSet(f, Z)
  <2>1. \A x \in A \cup Z : f[x] \in Int
    BY <1>1
  <2>2. SumFunctionOnSet(f, A \cup Z) = SumFunctionOnSet(f, A) + SumFunctionOnSet(f, Z)
    BY <1>1, <2>1, SumUnion
  <2> QED BY <1>1, <2>2
<1>3. SumFunctionOnSet(f, Z) = 0 * SumFunctionOnSet(f, Z) /\ SumFunctionOnSet(f, Z) \in Int
  <2>1. 0 \in Int /\ IsFiniteSet(Z) /\ \A x \in Z : f[x] \in Int /\ f[x] = 0 * f[x]
    BY <1>1
  <2>2. SumFunctionOnSet(f, Z) = 0 * SumFunctionOnSet(f, Z)
    BY ONLY <2>1, SumScaled
  <2>3. SumFunctionOnSet(f, Z) \in Int
    BY <2>1, SumType
  <2> QED BY <2>2, <2>3
<1>4. SumFunctionOnSet(f, A) = SumFunctionOnSet(g, A) /\ SumFunctionOnSet(f, A) \in Int
  BY <1>1, SumSame, SumType
<1> QED BY <1>2, <1>3, <1>4

\* A sum is between minus and plus the sum of what bounds its terms.
LEMMA SumBounded ==
  ASSUME NEW S, IsFiniteSet(S), NEW f, NEW g,
         \A x \in S : f[x] \in Int /\ g[x] \in Int /\ g[x] >= f[x] /\ g[x] >= -f[x]
  PROVE  /\ SumFunctionOnSet(g, S) >= SumFunctionOnSet(f, S)
         /\ SumFunctionOnSet(g, S) >= -SumFunctionOnSet(f, S)
<1> DEFINE Fine(T) == /\ SumFunctionOnSet(g, T) >= SumFunctionOnSet(f, T)
                      /\ SumFunctionOnSet(g, T) >= -SumFunctionOnSet(f, T)
           P == {T \in SUBSET S : Fine(T)}
<1>1. {} \in P
  BY SumEmpty
<1>2. ASSUME NEW T \in SUBSET S, T \in P, NEW x \in S \ T PROVE T \cup {x} \in P
  <2>1. IsFiniteSet(T) /\ \A y \in T \cup {x} : f[y] \in Int /\ g[y] \in Int
    BY FS_Subset
  <2>2. /\ SumFunctionOnSet(f, T \cup {x}) = SumFunctionOnSet(f, T) + f[x]
        /\ SumFunctionOnSet(g, T \cup {x}) = SumFunctionOnSet(g, T) + g[x]
    BY <2>1, SumAdd
  <2>3. SumFunctionOnSet(f, T) \in Int /\ SumFunctionOnSet(g, T) \in Int
    BY <2>1, SumType
  <2>4. f[x] \in Int /\ g[x] \in Int /\ g[x] >= f[x] /\ g[x] >= -f[x] /\ Fine(T)
    BY <1>2
  <2>5. Fine(T \cup {x})
    BY <2>2, <2>3, <2>4
  <2> QED BY <2>5
<1>3. S \in P
  <2> HIDE DEF P
  <2> QED BY <1>1, <1>2, FiniteSetsGrow
<1> QED BY <1>3

\* What a function takes to on a finite set is finite.
LEMMA ImageIsFinite ==
  ASSUME NEW S, IsFiniteSet(S), NEW f
  PROVE  IsFiniteSet({f[x] : x \in S})
<1> DEFINE T == {f[x] : x \in S}
           g == [x \in S |-> f[x]]
<1>1. g \in Surjection(S, T)
  BY DEF Surjection
<1> HIDE DEF g, T
<1>2. IsFiniteSet(T)
  BY <1>1, FS_Surjection
<1> QED BY <1>2 DEF T

\* sums has the sum of f over every group of S, which key sorts into the groups G.
ByGroup(sums, f, S, key, G) ==
  /\ \A x \in S : key[x] \in G
  /\ \A i \in G : sums[i] = SumFunctionOnSet(f, {x \in S : key[x] = i})

\* Adding up group by group gives the sum over all.
LEMMA SumByGroup ==
  ASSUME NEW S, IsFiniteSet(S), NEW f, \A x \in S : f[x] \in Int,
         NEW G, IsFiniteSet(G), NEW key, NEW sums, ByGroup(sums, f, S, key, G)
  PROVE  SumFunctionOnSet(sums, G) = SumFunctionOnSet(f, S)
<1> USE DEF ByGroup
<1> DEFINE Of(T) == {x \in S : key[x] \in T}
           P == {T \in SUBSET G : SumFunctionOnSet(sums, T) = SumFunctionOnSet(f, Of(T))}
<1>1. {} \in P
  <2>1. Of({}) = {}
    OBVIOUS
  <2> HIDE DEF Of
  <2> QED BY <2>1, SumEmpty
<1>2. \A i \in G : sums[i] \in Int
  <2> SUFFICES ASSUME NEW i \in G PROVE sums[i] \in Int
    OBVIOUS
  <2>1. IsFiniteSet({x \in S : key[x] = i})
    BY FS_Subset
  <2> QED BY <2>1, SumType
<1>3. ASSUME NEW T \in SUBSET G, T \in P, NEW i \in G \ T PROVE T \cup {i} \in P
  <2> DEFINE own == {x \in S : key[x] = i}
  <2>1. IsFiniteSet(T) /\ IsFiniteSet(Of(T)) /\ IsFiniteSet(own)
    BY FS_Subset
  <2>2. Of(T \cup {i}) = Of(T) \cup own /\ Of(T) \cap own = {}
    OBVIOUS
  <2>3. SumFunctionOnSet(f, Of(T) \cup own) = SumFunctionOnSet(f, Of(T)) + SumFunctionOnSet(f, own)
    <3>1. \A x \in Of(T) \cup own : f[x] \in Int
      OBVIOUS
    <3> HIDE DEF Of, own
    <3> QED BY <2>1, <2>2, <3>1, SumUnion
  <2>4. SumFunctionOnSet(sums, T \cup {i}) = SumFunctionOnSet(sums, T) + sums[i]
    BY <1>2, <2>1, SumAdd
  <2>5. sums[i] = SumFunctionOnSet(f, own)
    OBVIOUS
  <2>6. SumFunctionOnSet(sums, T) = SumFunctionOnSet(f, Of(T))
    BY <1>3
  <2> HIDE DEF Of, own
  <2>7. SumFunctionOnSet(sums, T \cup {i}) = SumFunctionOnSet(f, Of(T \cup {i}))
    BY <2>2, <2>3, <2>4, <2>5, <2>6
  <2> QED BY <2>7
<1>4. G \in P
  <2> HIDE DEF P
  <2> QED BY <1>1, <1>3, FiniteSetsGrow
<1>5. Of(G) = S
  OBVIOUS
<1> HIDE DEF Of
<1> QED BY <1>4, <1>5

\* The sums of all groups, made in one go.
SumsOfGroups(sums, f, S, key) ==
  /\ DOMAIN sums = {key[x] : x \in S}
  /\ \A g \in DOMAIN sums : sums[g] = SumFunction([x \in {y \in S : key[y] = g} |-> f[x]])

LEMMA GroupsAddUp ==
  ASSUME NEW S, IsFiniteSet(S), NEW f, \A x \in S : f[x] \in Int, NEW key, NEW sums,
         SumsOfGroups(sums, f, S, key)
  PROVE  /\ IsFiniteSet(DOMAIN sums) /\ ByGroup(sums, f, S, key, DOMAIN sums)
         /\ SumFunction(sums) = SumFunctionOnSet(f, S)
<1> USE DEF SumsOfGroups
<1> DEFINE G == DOMAIN sums
           Group(g) == {y \in S : key[y] = g}
<1>1. IsFiniteSet(G) /\ \A x \in S : key[x] \in G
  <2>1. IsFiniteSet(G)
    BY ImageIsFinite
  <2> QED BY <2>1
<1>2. ASSUME NEW g \in G PROVE IsFiniteSet(Group(g)) /\ sums[g] = SumFunctionOnSet(f, Group(g))
  <2> DEFINE T == Group(g)
             part == [x \in T |-> f[x]]
  <2>1. sums[g] = SumFunction(part) /\ DOMAIN part = T
    OBVIOUS
  <2>2. IsFiniteSet(T) /\ \A x \in T : part[x] = f[x] /\ part[x] \in Int
    BY FS_Subset
  <2> HIDE DEF T, part
  <2>3. SumFunctionOnSet(part, T) = SumFunctionOnSet(f, T)
    BY <2>2, SumSame
  <2> QED BY <2>1, <2>2, <2>3 DEF SumFunction, T
<1>3. ByGroup(sums, f, S, key, G)
  BY <1>1, <1>2 DEF ByGroup
<1> HIDE DEF G
<1>4. SumFunctionOnSet(sums, G) = SumFunctionOnSet(f, S)
  BY ONLY <1>1, <1>3, IsFiniteSet(S), \A x \in S : f[x] \in Int, SumByGroup
<1> QED BY <1>1, <1>3, <1>4 DEF SumFunction, G

\* Nothing but zeros.
LEMMA SumOfZeros ==
  ASSUME NEW S, IsFiniteSet(S), NEW f, \A p \in S : f[p] = 0
  PROVE  SumFunctionOnSet(f, S) = 0
<1>1. \A p \in S : f[p] \in Int /\ f[p] = 2 * f[p]
  OBVIOUS
<1>2. SumFunctionOnSet(f, S) \in Int
  BY <1>1, SumType
<1>3. SumFunctionOnSet(f, S) = 2 * SumFunctionOnSet(f, S)
  BY ONLY <1>1, IsFiniteSet(S), 2 \in Int, SumScaled
<1> QED BY <1>2, <1>3

\* A sum of terms none of which is negative is no less than each of them.
LEMMA SumCovers ==
  ASSUME NEW S, IsFiniteSet(S), NEW f, \A p \in S : f[p] \in Int /\ f[p] >= 0
  PROVE  SumFunctionOnSet(f, S) >= 0 /\ \A p \in S : SumFunctionOnSet(f, S) >= f[p]
<1>1. ASSUME NEW T, IsFiniteSet(T), T \subseteq S
      PROVE  SumFunctionOnSet(f, T) >= 0
  <2> DEFINE zero == [p \in T |-> 0]
  <2>1. \A p \in T : /\ zero[p] \in Int /\ f[p] \in Int
                     /\ f[p] >= zero[p] /\ f[p] >= -zero[p] /\ zero[p] = 0
    BY <1>1
  <2> HIDE DEF zero
  <2>2. SumFunctionOnSet(zero, T) = 0
    BY <1>1, <2>1, SumOfZeros
  <2>3. SumFunctionOnSet(f, T) >= SumFunctionOnSet(zero, T)
    BY <1>1, <2>1, SumBounded
  <2> QED BY <2>2, <2>3
<1>2. ASSUME NEW p \in S PROVE SumFunctionOnSet(f, S) >= f[p]
  <2> DEFINE T == S \ {p}
  <2>1. IsFiniteSet(T) /\ T \subseteq S /\ T \cup {p} = S /\ p \notin T
    BY FS_Subset
  <2> HIDE DEF T
  <2>2. \A y \in T \cup {p} : f[y] \in Int
    BY <2>1
  <2>3. SumFunctionOnSet(f, T \cup {p}) = SumFunctionOnSet(f, T) + f[p]
    BY <2>1, <2>2, SumAdd
  <2>4. SumFunctionOnSet(f, T) \in Int /\ SumFunctionOnSet(f, T) >= 0
    BY <1>1, <2>1, <2>2, SumType
  <2>5. f[p] \in Int
    BY <1>2
  <2>6. SumFunctionOnSet(f, S) = SumFunctionOnSet(f, T) + f[p]
    BY <2>1, <2>3, Zenon
  <2> QED BY <2>4, <2>5, <2>6
<1> QED BY <1>1, <1>2

\* One term new or changed.
LEMMA SumUpdate ==
  ASSUME NEW f, NEW g, NEW x, IsFiniteSet(DOMAIN f), DOMAIN g = DOMAIN f \cup {x},
         \A y \in DOMAIN f : f[y] \in Int, g[x] \in Int,
         \A y \in DOMAIN f : y # x => g[y] = f[y]
  PROVE  SumFunction(g) = SumFunction(f) + (g[x] - (IF x \in DOMAIN f THEN f[x] ELSE 0))
<1> DEFINE R == DOMAIN f \ {x}
<1>1. IsFiniteSet(R) /\ x \notin R /\ DOMAIN g = R \cup {x}
  BY FS_Subset
<1>2. \A y \in R : f[y] \in Int /\ f[y] = g[y] /\ y \in DOMAIN g
  OBVIOUS
<1> HIDE DEF R
<1>3. SumFunctionOnSet(f, R) = SumFunctionOnSet(g, R) /\ SumFunctionOnSet(f, R) \in Int
  BY <1>1, <1>2, SumSame, SumType
<1>4. SumFunctionOnSet(g, R \cup {x}) = SumFunctionOnSet(g, R) + g[x]
  BY <1>1, <1>2, SumAdd
<1>5. CASE x \in DOMAIN f
  <2>1. DOMAIN f = R \cup {x} /\ f[x] \in Int
    BY <1>5 DEF R
  <2>2. SumFunctionOnSet(f, R \cup {x}) = SumFunctionOnSet(f, R) + f[x]
    BY <1>1, <1>2, <2>1, SumAdd
  <2> QED BY <1>1, <1>3, <1>4, <1>5, <2>1, <2>2 DEF SumFunction
<1>6. CASE x \notin DOMAIN f
  <2>1. DOMAIN f = R
    BY <1>6 DEF R
  <2> QED BY <1>1, <1>3, <1>4, <1>6, <2>1 DEF SumFunction
<1> QED BY <1>5, <1>6

-----------------------------------------------------------------------------
(* Finite sets of numbers, and lists sorted by one.                        *)

\* A non-empty finite set of integers has a greatest element.
LEMMA GreatestInt ==
  ASSUME NEW S \in SUBSET Int, IsFiniteSet(S), S # {}
  PROVE  \E m \in S : \A k \in S : m >= k
<1> DEFINE Has(T) == \E m \in T : \A k \in T : m >= k
           Bad == {n \in Nat : \E T \in SUBSET S : T # {} /\ Cardinality(T) = n /\ ~Has(T)}
<1>1. \A T \in SUBSET S : IsFiniteSet(T) /\ Cardinality(T) \in Nat
  BY FS_Subset, FS_CardinalityType
<1> SUFFICES ASSUME Bad # {} PROVE FALSE
  <2> HIDE DEF Has
  <2>1. S \in SUBSET S
    OBVIOUS
  <2>2. Has(S)
    BY <1>1, <2>1
  <2> QED BY <2>2 DEF Has
<1>2. PICK n \in Bad : \A k \in Bad : n <= k
  <2> Bad \in SUBSET Nat
    OBVIOUS
  <2> HIDE DEF Bad
  <2> QED BY LeastNat
<1>3. PICK T \in SUBSET S : T # {} /\ Cardinality(T) = n /\ ~Has(T)
  <2> HIDE DEF Has
  <2> QED BY <1>2
<1>4. PICK x \in T : TRUE
  BY <1>3
<1> DEFINE U == T \ {x}
<1>5. U \in SUBSET S /\ T = U \cup {x} /\ x \in Int
  BY <1>4
<1>6. CASE U = {}
  BY <1>3, <1>5, <1>6
<1>7. CASE U # {}
  <2>1. Cardinality(U) = n - 1 /\ n - 1 \in Nat /\ n \in Nat
    <3>1. IsFiniteSet(T) /\ Cardinality(T) \in Nat /\ Cardinality(U) \in Nat
      BY <1>1, <1>5
    <3>2. Cardinality(U) = Cardinality(T) - 1
      BY <3>1, <1>4, FS_RemoveElement
    <3> QED BY <1>3, <3>1, <3>2
  <2>2. ~(n <= n - 1)
    BY <2>1
  <2>3. Has(U)
    <3> HIDE DEF Has, U
    <3> QED BY <1>2, <1>5, <1>7, <2>1, <2>2
  <2>4. PICK u \in U : \A k \in U : u >= k
    BY <2>3
  <2>5. Has(T)
    <3>1. u \in Int /\ \A k \in U : k \in Int
      BY <1>5
    <3>2. CASE u >= x
      BY <1>5, <2>4, <3>2
    <3>3. CASE x > u
      <4>1. \A k \in U : x >= k
        BY <1>5, <2>4, <3>1, <3>3
      <4> QED BY <1>5, <4>1
    <3> HIDE DEF Has, U
    <3> QED BY <1>5, <3>1, <3>2, <3>3
  <2> QED BY <1>3, <2>5
<1> QED BY <1>6, <1>7

\* A finite set of which no two elements have the same key can be listed in
\* the order of its keys.
SortedBy(key, list, T) ==
  /\ list \in [1 .. Cardinality(T) -> T]
  /\ \A j, k \in DOMAIN list : j < k => key[list[j]] < key[list[k]]
  /\ {list[k] : k \in DOMAIN list} = T

LEMMA SortedListExists ==
  ASSUME NEW S, IsFiniteSet(S), NEW key, \A x \in S : key[x] \in Int,
         \A x, y \in S : key[x] = key[y] => x = y
  PROVE  \E list : SortedBy(key, list, S)
<1> DEFINE Lists(list, T) == SortedBy(key, list, T)
           Q == {n \in Nat : \A T \in SUBSET S : Cardinality(T) = n => \E list : Lists(list, T)}
<1>1. \A T \in SUBSET S : IsFiniteSet(T) /\ Cardinality(T) \in Nat
  BY FS_Subset, FS_CardinalityType
<1>2. 0 \in Q
  <2> SUFFICES ASSUME NEW T \in SUBSET S, Cardinality(T) = 0 PROVE \E list : Lists(list, T)
    OBVIOUS
  <2>1. T = {} /\ 1 .. Cardinality(T) = {}
    BY <1>1, FS_EmptySet
  <2>2. Lists([k \in {} |-> 0], T)
    BY <2>1 DEF SortedBy
  <2> QED BY <2>2
<1>3. ASSUME NEW n \in Nat, n \in Q PROVE n + 1 \in Q
  <2> SUFFICES ASSUME NEW T \in SUBSET S, Cardinality(T) = n + 1 PROVE \E list : Lists(list, T)
    <3> HIDE DEF Lists
    <3> QED OBVIOUS
  <2>1. T # {} /\ IsFiniteSet(T)
    BY <1>1, FS_EmptySet
  <2> DEFINE K == {key[x] : x \in T}
  <2>2. IsFiniteSet(K) /\ K # {} /\ K \in SUBSET Int
    BY <2>1, ImageIsFinite
  <2>3. PICK m \in K : \A k \in K : m >= k
    <3> HIDE DEF K
    <3> QED BY <2>2, GreatestInt
  <2>4. PICK top \in T : key[top] = m
    OBVIOUS
  <2> DEFINE U == T \ {top}
  <2>5. U \in SUBSET S /\ Cardinality(U) = n
    <3>1. Cardinality(U) = Cardinality(T) - 1
      BY <2>1, <2>4, FS_RemoveElement
    <3> QED BY <3>1
  <2>6. \A x \in U : key[x] < key[top]
    <3> SUFFICES ASSUME NEW x \in U PROVE key[x] < key[top]
      OBVIOUS
    <3>1. x \in S /\ top \in S /\ x # top /\ key[x] \in K
      BY <2>4
    <3>2. key[x] <= key[top] /\ key[x] # key[top]
      BY <2>3, <2>4, <3>1
    <3> HIDE DEF K, U
    <3> QED BY <3>1, <3>2
  <2>7. PICK list : Lists(list, U)
    <3> HIDE DEF Lists, U
    <3> QED BY <1>3, <2>5
  <2> DEFINE more == [k \in 1 .. (n + 1) |-> IF k = n + 1 THEN top ELSE list[k]]
  <2>8. DOMAIN list = 1 .. n /\ \A k \in 1 .. n : list[k] \in U
    BY <2>5, <2>7 DEF SortedBy
  <2>9. \A k \in 1 .. n : more[k] = list[k]
    OBVIOUS
  <2>10. more[n + 1] = top /\ DOMAIN more = 1 .. (n + 1)
    OBVIOUS
  <2> HIDE DEF more
  <2>11. \A k \in 1 .. (n + 1) : k \in 1 .. n \/ k = n + 1
    OBVIOUS
  <2>12. more \in [1 .. Cardinality(T) -> T]
    <3>1. \A k \in 1 .. (n + 1) : more[k] \in T
      BY <2>4, <2>8, <2>9, <2>10, <2>11
    <3> QED BY <3>1 DEF more
  <2>13. \A j, k \in DOMAIN more : j < k => key[more[j]] < key[more[k]]
    <3> SUFFICES ASSUME NEW j \in 1 .. (n + 1), NEW k \in 1 .. (n + 1), j < k
                 PROVE  key[more[j]] < key[more[k]]
      BY <2>10
    <3>1. j \in 1 .. n
      OBVIOUS
    <3>2. CASE k = n + 1
      BY <2>6, <2>8, <2>9, <2>10, <3>1, <3>2
    <3>3. CASE k \in 1 .. n
      BY <2>7, <2>8, <2>9, <3>1, <3>3 DEF SortedBy
    <3> QED BY <2>11, <3>2, <3>3
  <2>14. {more[k] : k \in DOMAIN more} = T
    <3>1. \A x \in T : \E k \in 1 .. (n + 1) : more[k] = x
      <4> SUFFICES ASSUME NEW x \in T PROVE \E k \in 1 .. (n + 1) : more[k] = x
        OBVIOUS
      <4>1. CASE x = top
        BY <2>10, <4>1
      <4>2. CASE x # top
        <5>1. x \in U /\ {list[k] : k \in 1 .. n} = U
          BY <2>7, <2>8, <4>2 DEF SortedBy
        <5>2. PICK k \in 1 .. n : list[k] = x
          <6> HIDE DEF U
          <6> QED BY <5>1
        <5>3. k \in 1 .. (n + 1) /\ more[k] = x
          BY <2>9, <5>2
        <5> QED BY <5>3
      <4> QED BY <4>1, <4>2
    <3> QED BY <2>10, <2>12, <3>1
  <2>15. Lists(more, T)
    BY <2>12, <2>13, <2>14 DEF SortedBy
  <2> HIDE DEF Lists
  <2> QED BY <2>15
<1> HIDE DEF Q
<1>4. \A n \in Nat : n \in Q
  BY <1>2, <1>3, NatsAreCounted
<1>5. S \in SUBSET S
  OBVIOUS
<1>6. \E list : Lists(list, S)
  <2> HIDE DEF Lists
  <2> QED BY <1>1, <1>4, <1>5 DEF Q
<1> QED BY <1>6

-----------------------------------------------------------------------------
(* A list some members of which are copied, and which is then shuffled     *)
(* window by window.                                                       *)

\* How long the working list is when k messages are copied, those drawn twice.
Reached(drawn, k) == k + Cardinality(drawn \cap (1 .. k))

LEMMA DrawnIsFinite ==
  ASSUME NEW drawn, NEW k \in Nat
  PROVE  IsFiniteSet(drawn \cap (1 .. k)) /\ Cardinality(drawn \cap (1 .. k)) \in Nat
<1>1. 1 \in Int /\ k \in Int
  OBVIOUS
<1>2. IsFiniteSet(1 .. k)
  BY <1>1, FS_Interval
<1>3. drawn \cap (1 .. k) \in SUBSET (1 .. k)
  OBVIOUS
<1>4. IsFiniteSet(drawn \cap (1 .. k))
  BY <1>2, <1>3, FS_Subset
<1> QED BY <1>4, FS_CardinalityType

LEMMA ReachedGrows ==
  ASSUME NEW drawn \in SUBSET Nat, NEW k \in Nat
  PROVE  /\ Reached(drawn, 0) = 0 /\ Reached(drawn, k) \in Nat
         /\ Reached(drawn, k + 1) = Reached(drawn, k) + (IF k + 1 \in drawn THEN 2 ELSE 1)
<1>1. drawn \cap (1 .. 0) = {}
  OBVIOUS
<1>2. IsFiniteSet(drawn \cap (1 .. k)) /\ Cardinality(drawn \cap (1 .. k)) \in Nat
  BY DrawnIsFinite
<1>3. drawn \cap (1 .. (k + 1)) = IF k + 1 \in drawn THEN (drawn \cap (1 .. k)) \cup {k + 1}
                                  ELSE drawn \cap (1 .. k)
  OBVIOUS
<1>4. k + 1 \notin drawn \cap (1 .. k)
  OBVIOUS
<1>5. Cardinality(drawn \cap (1 .. (k + 1))) =
        Cardinality(drawn \cap (1 .. k)) + (IF k + 1 \in drawn THEN 1 ELSE 0)
  BY <1>2, <1>3, <1>4, FS_AddElement
<1> QED BY <1>1, <1>2, <1>5, FS_EmptySet DEF Reached

\* Copies only push later messages further back.
LEMMA ReachedApart ==
  ASSUME NEW drawn \in SUBSET Nat, NEW j \in Nat, NEW k \in Nat, j <= k
  PROVE  Reached(drawn, j) + (k - j) <= Reached(drawn, k)
<1> DEFINE S == drawn \cap (1 .. j)
           T == drawn \cap (1 .. k)
<1>1. IsFiniteSet(T) /\ Cardinality(S) \in Nat /\ Cardinality(T) \in Nat
  BY DrawnIsFinite
<1>2. S \in SUBSET T
  OBVIOUS
<1>3. Cardinality(S) <= Cardinality(T)
  BY <1>1, <1>2, FS_Subset
<1> HIDE DEF S, T
<1>4. j + Cardinality(S) + (k - j) <= k + Cardinality(T)
  BY <1>1, <1>3
<1> QED BY <1>4 DEF Reached, S, T

\* The places of the working list that the j-th message is copied to.
Span(drawn, j) == (Reached(drawn, j - 1) + 1) .. Reached(drawn, j)

\* Every place of the working list belongs to one message of the stream.
LEMMA PlaceHasMessage ==
  ASSUME NEW drawn \in SUBSET Nat, NEW n \in Nat, NEW p \in 1 .. Reached(drawn, n)
  PROVE  \E j \in 1 .. n : p \in Span(drawn, j)
<1> DEFINE Past == {k \in Nat : p <= Reached(drawn, k)}
<1>1. n \in Past /\ Past \subseteq Nat
  BY ReachedGrows
<1>2. PICK j \in Past : \A k \in Past : j <= k
  <2> HIDE DEF Past
  <2> QED BY <1>1, LeastNat
<1>3. j \in Nat /\ p <= Reached(drawn, j) /\ j <= n
  BY <1>1, <1>2
<1>4. j # 0
  BY <1>3, ReachedGrows
<1>5. j - 1 \in Nat /\ ~(j <= j - 1)
  BY <1>3, <1>4
<1>6. j - 1 \notin Past
  BY <1>2, <1>5
<1>7. ~(p <= Reached(drawn, j - 1)) /\ Reached(drawn, j - 1) \in Nat /\ Reached(drawn, j) \in Nat
      /\ p \in Nat
  BY <1>3, <1>5, <1>6, ReachedGrows
<1>8. p \in Span(drawn, j)
  BY <1>3, <1>7 DEF Span
<1> QED BY <1>3, <1>4, <1>8

LEMMA SpanSize ==
  ASSUME NEW drawn \in SUBSET Nat, NEW j \in Nat \ {0}
  PROVE  /\ IsFiniteSet(Span(drawn, j)) /\ Cardinality(Span(drawn, j)) \in 1 .. 2
         /\ Reached(drawn, j) \in Span(drawn, j)
<1>1. j - 1 \in Nat /\ (j - 1) + 1 = j
  OBVIOUS
<1>2. /\ Reached(drawn, j - 1) \in Nat /\ Reached(drawn, j) \in Nat
      /\ Reached(drawn, j) - Reached(drawn, j - 1) \in 1 .. 2
  BY <1>1, ReachedGrows
<1> DEFINE a == Reached(drawn, j - 1) + 1
           b == Reached(drawn, j)
<1>3. a \in Int /\ b \in Int /\ b - a + 1 \in 1 .. 2 /\ a <= b
  BY <1>2
<1> HIDE DEF a, b
<1>4. IsFiniteSet(a .. b) /\ Cardinality(a .. b) = b - a + 1 /\ b \in a .. b
  BY <1>3, FS_Interval
<1> QED BY <1>3, <1>4 DEF Span, a, b

\* Where the messages are after n of them: each in its span.
Expanded(T, list, drawn, n, working) ==
  /\ working \in Seq(T) /\ Len(working) = Reached(drawn, n)
  /\ \A j \in 1 .. n : \A a \in Span(drawn, j) : working[a] = list[j]

\* perm says which place of the working list each delivered message had: all
\* places once, and one a window further back never comes first.
Shuffled(window, working, out, perm) ==
  /\ perm \in Bijection(1 .. Len(out), 1 .. Len(out))
  /\ \A a \in 1 .. Len(out) : out[a] = working[perm[a]]
  /\ \A a, b \in 1 .. Len(out) : perm[b] >= perm[a] + window => a < b

LEMMA NothingShuffled ==
  ASSUME NEW window, NEW working
  PROVE  Shuffled(window, working, << >>, << >>)
<1>1. Len(<< >>) = 0 /\ 1 .. 0 = {} /\ << >> \in [{} -> {}]
  OBVIOUS
<1> QED BY <1>1 DEF Shuffled, Bijection, Injection, Surjection, IsInjective

\* Copying the next message, once or twice, fills exactly its span.
LEMMA CopyExpands ==
  ASSUME NEW T, NEW list \in Seq(T), NEW drawn \in SUBSET Nat, NEW n \in Nat, n < Len(list),
         NEW working, Expanded(T, list, drawn, n, working),
         NEW more, more = IF n + 1 \in drawn THEN <<list[n + 1], list[n + 1]>> ELSE <<list[n + 1]>>
  PROVE  Expanded(T, list, drawn, n + 1, working \o more)
<1> DEFINE m == list[n + 1]
           r == Reached(drawn, n)
           t == Reached(drawn, n + 1)
           now == working \o more
<1>1. m \in T /\ n + 1 \in Nat
  OBVIOUS
<1>2. r \in Nat /\ t = r + (IF n + 1 \in drawn THEN 2 ELSE 1)
  BY ReachedGrows
<1>3. working \in Seq(T) /\ Len(working) = r
  BY DEF Expanded
<1>4. more \in Seq(T) /\ Len(more) = (IF n + 1 \in drawn THEN 2 ELSE 1)
      /\ \A a \in 1 .. Len(more) : more[a] = m
  BY <1>1
<1> HIDE DEF m, r, t
<1>5. /\ now \in Seq(T) /\ Len(now) = t
      /\ \A a \in 1 .. r : now[a] = working[a]
      /\ \A a \in (r + 1) .. t : now[a] = m
  <2>1. now \in Seq(T) /\ Len(now) = Len(working) + Len(more)
    <3>1. working \in Seq(T) /\ more \in Seq(T)
      BY <1>3, <1>4
    <3> QED BY ONLY <3>1
  <2>2. \A a \in 1 .. r : now[a] = working[a]
    BY ONLY <1>2, <1>3, <1>4
  <2>3. \A a \in (r + 1) .. t : now[a] = more[a - r] /\ a - r \in 1 .. Len(more)
    BY ONLY <1>2, <1>3, <1>4
  <2> QED BY <1>2, <1>3, <1>4, <2>1, <2>2, <2>3
<1> HIDE DEF now
<1>6. ASSUME NEW j \in 1 .. (n + 1), NEW a \in Span(drawn, j) PROVE now[a] = list[j]
  <2>1. CASE j = n + 1
    <3>1. (n + 1) - 1 = n
      OBVIOUS
    <3> QED BY <1>5, <1>6, <2>1, <3>1 DEF Span, r, t, m
  <2>2. CASE j \in 1 .. n
    <3>1. working[a] = list[j]
      BY <1>6, <2>2 DEF Expanded
    <3>2. Reached(drawn, j) + (n - j) <= r
      <4>1. j \in Nat /\ j <= n
        BY <2>2
      <4> QED BY <4>1, ReachedApart DEF r
    <3>3. Reached(drawn, j) \in Nat /\ Reached(drawn, j - 1) \in Nat
      <4>1. j \in Nat /\ j - 1 \in Nat
        BY <2>2
      <4> QED BY <4>1, ReachedGrows
    <3>4. a \in 1 .. r
      BY <1>2, <1>6, <2>2, <3>2, <3>3 DEF Span
    <3> QED BY <1>5, <3>1, <3>4
  <2> QED BY <2>1, <2>2
<1> QED BY <1>5, <1>6 DEF Expanded, t, now

\* One more window, in any order: the places it takes are those it had.
LEMMA ShuffledGrows ==
  ASSUME NEW T, NEW window \in Nat, NEW working, NEW out \in Seq(T),
         NEW perm, Shuffled(window, working, out, perm), NEW n \in 1 .. window, NEW order \in Injection(1 .. n, 1 .. n),
         NEW more \in Seq(T), Len(more) = Len(out) + n,
         \A a \in 1 .. Len(out) : more[a] = out[a],
         \A a \in 1 .. n : more[Len(out) + a] = working[Len(out) + order[a]]
  PROVE  \E q : Shuffled(window, working, more, q)
<1> DEFINE s == Len(out)
           q == [a \in 1 .. (s + n) |-> IF a <= s THEN perm[a] ELSE s + order[a - s]]
<1>1. s \in Nat /\ n \in Nat /\ n <= window /\ window \in Nat
  OBVIOUS
<1>2. /\ perm \in [1 .. s -> 1 .. s] /\ \A a, b \in 1 .. s : perm[a] = perm[b] => a = b
      /\ \A c \in 1 .. s : \E a \in 1 .. s : perm[a] = c
      /\ \A a, b \in 1 .. s : perm[b] >= perm[a] + window => a < b
  BY DEF Shuffled, Bijection, Injection, Surjection, IsInjective
<1>3. order \in [1 .. n -> 1 .. n] /\ \A a, b \in 1 .. n : order[a] = order[b] => a = b
  BY DEF Injection, IsInjective
<1>4. \A c \in 1 .. n : \E a \in 1 .. n : order[a] = c
  <2>1. IsFiniteSet(1 .. n)
    BY <1>1, FS_Interval
  <2>2. order \in Surjection(1 .. n, 1 .. n)
    BY <2>1, FS_Injection
  <2> QED BY <2>2 DEF Surjection
<1> HIDE DEF s
<1>5. ASSUME NEW a \in 1 .. s
      PROVE  a \in 1 .. (s + n) /\ q[a] = perm[a] /\ q[a] \in 1 .. s
  <2>1. a \in 1 .. (s + n) /\ a <= s
    BY <1>1
  <2>2. q[a] = perm[a]
    BY <2>1
  <2> QED BY <1>2, <2>1, <2>2
<1>6. ASSUME NEW a \in 1 .. n
      PROVE  s + a \in 1 .. (s + n) /\ q[s + a] = s + order[a] /\ order[a] \in 1 .. n
  <2>1. s + a \in 1 .. (s + n) /\ ~(s + a <= s) /\ (s + a) - s = a
    BY <1>1
  <2>2. q[s + a] = s + order[a]
    BY <2>1
  <2> QED BY <1>3, <2>1, <2>2
<1>7. \A a \in 1 .. (s + n) : a \in 1 .. s \/ (a - s \in 1 .. n /\ s + (a - s) = a)
  BY <1>1
<1>8. DOMAIN q = 1 .. (s + n)
  OBVIOUS
<1> HIDE DEF q
<1>9. ASSUME NEW a \in 1 .. (s + n)
      PROVE  /\ q[a] \in 1 .. (s + n) /\ more[a] = working[q[a]]
             /\ a \in 1 .. s => q[a] \in 1 .. s /\ q[a] = perm[a]
             /\ a \notin 1 .. s => q[a] > s /\ q[a] = s + order[a - s] /\ a - s \in 1 .. n
                                   /\ order[a - s] \in 1 .. n /\ a \in Int
  <2>1. CASE a \in 1 .. s
    BY <1>1, <1>5, <2>1 DEF Shuffled, s
  <2>2. CASE a \notin 1 .. s
    <3>1. a - s \in 1 .. n /\ s + (a - s) = a
      BY <1>7, <2>2
    <3>2. q[a] = s + order[a - s] /\ order[a - s] \in 1 .. n
      BY <1>6, <3>1
    <3>3. more[a] = working[s + order[a - s]]
      BY <3>1 DEF s
    <3> QED BY <1>1, <2>2, <3>1, <3>2, <3>3
  <2> QED BY <2>1, <2>2
<1>10. ASSUME NEW a \in 1 .. (s + n), NEW b \in 1 .. (s + n)
       PROVE  /\ q[a] = q[b] => a = b
              /\ q[b] >= q[a] + window => a < b
  <2>1. CASE a \in 1 .. s /\ b \in 1 .. s
    <3>1. q[a] = perm[a] /\ q[b] = perm[b]
      BY <1>9, <2>1
    <3> QED BY <1>2, <2>1, <3>1
  <2>2. CASE a \in 1 .. s /\ b \notin 1 .. s
    <3>1. q[a] \in 1 .. s /\ q[b] > s
      BY <1>9, <2>2
    <3>2. q[b] \in 1 .. (s + n)
      BY <1>9
    <3> QED BY <1>1, <2>2, <3>1, <3>2
  <2>3. CASE a \notin 1 .. s /\ b \in 1 .. s
    <3>1. q[b] \in 1 .. s /\ q[a] > s
      BY <1>9, <2>3
    <3>2. q[a] \in 1 .. (s + n)
      BY <1>9
    <3> QED BY <1>1, <3>1, <3>2
  <2>4. CASE a \notin 1 .. s /\ b \notin 1 .. s
    <3> DEFINE oa == order[a - s]
               ob == order[b - s]
    <3>1. /\ q[a] = s + oa /\ q[b] = s + ob /\ a - s \in 1 .. n /\ b - s \in 1 .. n
          /\ oa \in 1 .. n /\ ob \in 1 .. n /\ a \in Int /\ b \in Int
      BY <1>9, <2>4
    <3>2. oa = ob => a - s = b - s
      BY <1>3, <3>1
    <3> HIDE DEF oa, ob
    <3>3. ~(q[b] >= q[a] + window)
      BY <1>1, <3>1
    <3>4. q[a] = q[b] => oa = ob
      BY <1>1, <3>1
    <3> QED BY <1>1, <3>1, <3>2, <3>3, <3>4
  <2> QED BY <2>1, <2>2, <2>3, <2>4
<1>11. ASSUME NEW c \in 1 .. (s + n) PROVE \E a \in 1 .. (s + n) : q[a] = c
  <2>1. CASE c \in 1 .. s
    BY <1>2, <1>5, <2>1
  <2>2. CASE c \notin 1 .. s
    <3>1. c - s \in 1 .. n /\ s + (c - s) = c
      BY <1>7, <2>2
    <3>2. PICK a \in 1 .. n : order[a] = c - s
      BY <1>4, <3>1
    <3>3. s + a \in 1 .. (s + n) /\ q[s + a] = c
      BY <1>6, <3>1, <3>2
    <3> QED BY <3>3
  <2> QED BY <2>1, <2>2
<1>12. q \in [1 .. (s + n) -> 1 .. (s + n)]
  <2>1. q = [a \in 1 .. (s + n) |-> q[a]]
    BY <1>8 DEF q
  <2> QED BY <1>9, <2>1
<1>13. q \in Bijection(1 .. (s + n), 1 .. (s + n))
  BY <1>8, <1>10, <1>11, <1>12 DEF Bijection, Injection, Surjection, IsInjective
<1>14. Len(more) = s + n
  BY DEF s
<1>15. Shuffled(window, working, more, q)
  BY <1>9, <1>10, <1>13, <1>14 DEF Shuffled
<1> QED BY <1>15

\* The output followed by the next n messages in the order given.
NextWindow(T, window, working, out, n, order, block, more) ==
  /\ window \in Nat /\ working \in Seq(T) /\ out \in Seq(T)
  /\ n \in 1 .. window /\ Len(out) + n <= Len(working)
  /\ order \in Injection(1 .. n, 1 .. n) /\ block \in Seq(T) /\ Len(block) = n
  /\ \A k \in 1 .. n : block[k] = working[Len(out) + k]
  /\ more = out \o [k \in 1 .. n |-> block[order[k]]]

LEMMA WindowShuffles ==
  ASSUME NEW T, NEW window, NEW working, NEW out, NEW n, NEW order, NEW block, NEW more,
         NextWindow(T, window, working, out, n, order, block, more),
         NEW perm, Shuffled(window, working, out, perm)
  PROVE  more \in Seq(T) /\ Len(more) = Len(out) + n /\ \E q : Shuffled(window, working, more, q)
<1> USE DEF NextWindow
<1> DEFINE tail == [k \in 1 .. n |-> block[order[k]]]
           s == Len(out)
<1>1. order \in [1 .. n -> 1 .. n] /\ n \in Nat /\ s \in Nat
  BY DEF Injection
<1>2. tail \in Seq(T) /\ Len(tail) = n /\ \A k \in 1 .. n : tail[k] = working[s + order[k]]
  <2>1. \A k \in 1 .. n : order[k] \in 1 .. n
    BY <1>1
  <2>2. \A k \in 1 .. n : tail[k] \in T /\ tail[k] = working[s + order[k]]
    BY <2>1
  <2>3. tail \in [1 .. n -> T]
    BY <2>2
  <2> HIDE DEF tail
  <2> QED BY <1>1, <2>2, <2>3
<1> HIDE DEF tail
<1>3. more = out \o tail
  BY DEF tail
<1>4. more \in Seq(T) /\ Len(more) = s + n
  <2>1. out \in Seq(T) /\ tail \in Seq(T)
    BY <1>2
  <2>2. out \o tail \in Seq(T) /\ Len(out \o tail) = Len(out) + Len(tail)
    BY ONLY <2>1
  <2> QED BY <1>2, <1>3, <2>2
<1>5. \A a \in 1 .. s : more[a] = out[a]
  BY <1>1, <1>2, <1>3
<1>6. \A a \in 1 .. n : more[s + a] = tail[a]
  BY <1>1, <1>2, <1>3
<1>7. \A a \in 1 .. n : more[s + a] = working[s + order[a]]
  BY <1>2, <1>6
<1>8. \E q : Shuffled(window, working, more, q)
  <2>1. /\ more \in Seq(T) /\ Len(more) = Len(out) + n
        /\ \A a \in 1 .. Len(out) : more[a] = out[a]
        /\ \A a \in 1 .. n : more[Len(out) + a] = working[Len(out) + order[a]]
    BY <1>4, <1>5, <1>7
  <2>2. /\ Shuffled(window, working, out, perm) /\ window \in Nat /\ working \in Seq(T)
        /\ out \in Seq(T) /\ n \in 1 .. window /\ Len(out) + n <= Len(working)
        /\ order \in Injection(1 .. n, 1 .. n)
    OBVIOUS
  <2> HIDE DEF s
  <2> QED BY ONLY <2>1, <2>2, ShuffledGrows
<1> QED BY <1>4, <1>8

\* The whole of a list without repetitions has been copied and shuffled.
Delivered(T, window, list, drawn, working, out, perm) ==
  /\ list \in Seq(T) /\ \A j, k \in 1 .. Len(list) : list[j] = list[k] => j = k
  /\ drawn \in SUBSET (1 .. Len(list)) /\ Expanded(T, list, drawn, Len(list), working)
  /\ out \in Seq(T) /\ Len(out) = Len(working) /\ Shuffled(window, working, out, perm)

\* perm takes each delivery of the j-th message to a place of its span.
LEMMA DeliveriesAreInSpan ==
  ASSUME NEW T, NEW window, NEW list, NEW drawn, NEW working, NEW out, NEW perm,
         Delivered(T, window, list, drawn, working, out, perm), NEW a \in 1 .. Len(out)
  PROVE  \E j \in 1 .. Len(list) :
           /\ out[a] = list[j] /\ perm[a] \in Span(drawn, j)
           /\ \A k \in 1 .. Len(list) : list[k] = out[a] => k = j
<1>1. /\ Len(list) \in Nat /\ drawn \in SUBSET Nat /\ Len(out) = Reached(drawn, Len(list))
  BY DEF Delivered, Expanded
<1>2. perm[a] \in 1 .. Reached(drawn, Len(list)) /\ out[a] = working[perm[a]]
  <2>1. perm \in [1 .. Len(out) -> 1 .. Len(out)] /\ out[a] = working[perm[a]]
    BY DEF Delivered, Shuffled, Bijection, Injection
  <2>2. perm[a] \in 1 .. Len(out)
    BY <2>1
  <2> QED BY <1>1, <2>1, <2>2
<1>3. PICK j \in 1 .. Len(list) : perm[a] \in Span(drawn, j)
  BY <1>1, <1>2, PlaceHasMessage
<1>4. out[a] = list[j]
  BY <1>2, <1>3 DEF Delivered, Expanded
<1> QED BY <1>3, <1>4 DEF Delivered

\* Each message is delivered once or twice.
LEMMA OneOrTwoCopies ==
  ASSUME NEW T, NEW window, NEW list, NEW drawn, NEW working, NEW out, NEW perm,
         Delivered(T, window, list, drawn, working, out, perm), NEW j \in 1 .. Len(list)
  PROVE  Cardinality({a \in 1 .. Len(out) : out[a] = list[j]}) \in 1 .. 2
<1> DEFINE P == {a \in 1 .. Len(out) : out[a] = list[j]}
           S == Span(drawn, j)
           n == Len(list)
<1>1. /\ n \in Nat /\ drawn \in SUBSET Nat /\ Len(out) = Reached(drawn, n)
      /\ Len(out) \in Nat /\ j \in Nat /\ j > 0 /\ j <= n
  BY DEF Delivered, Expanded
<1>2. IsFiniteSet(S) /\ Cardinality(S) \in 1 .. 2 /\ Reached(drawn, j) \in S
  BY <1>1, SpanSize
<1>3. \A a \in P : perm[a] \in S
  <2> SUFFICES ASSUME NEW a \in P PROVE perm[a] \in S
    OBVIOUS
  <2>1. PICK k \in 1 .. Len(list) :
           /\ perm[a] \in Span(drawn, k)
           /\ \A l \in 1 .. Len(list) : list[l] = out[a] => l = k
    BY DeliveriesAreInSpan
  <2>2. j = k
    BY <2>1
  <2> QED BY <2>1, <2>2
<1>4. /\ perm \in [1 .. Len(out) -> 1 .. Len(out)]
      /\ \A a, b \in 1 .. Len(out) : perm[a] = perm[b] => a = b
      /\ \A c \in 1 .. Len(out) : \E a \in 1 .. Len(out) : perm[a] = c
  BY DEF Delivered, Shuffled, Bijection, Injection, Surjection, IsInjective
<1> HIDE DEF n
<1>5. P # {}
  <2> DEFINE c == Reached(drawn, j)
  <2>1. c \in 1 .. Len(out)
    <3>1. c + (n - j) <= Len(out)
      BY <1>1, ReachedApart
    <3>2. c \in Nat /\ Reached(drawn, 0) = 0
      BY <1>1, ReachedGrows
    <3>3. Reached(drawn, 0) + (j - 0) <= c
      <4>1. 0 \in Nat /\ 0 <= j
        BY <1>1
      <4> QED BY <1>1, <4>1, ReachedApart
    <3> HIDE DEF c
    <3> QED BY <1>1, <3>1, <3>2, <3>3
  <2>2. PICK a \in 1 .. Len(out) : perm[a] = c
    BY <1>4, <2>1
  <2>3. out[a] = working[c]
    BY <2>2 DEF Delivered, Shuffled
  <2>4. working[c] = list[j]
    BY <1>2 DEF Delivered, Expanded
  <2> QED BY <2>3, <2>4
<1>6. [a \in P |-> perm[a]] \in Injection(P, S)
  BY <1>1, <1>3, <1>4 DEF Injection, IsInjective
<1> HIDE DEF P, S
<1>7. IsFiniteSet(P) /\ Cardinality(P) <= Cardinality(S)
  BY <1>2, <1>6, FS_Injection
<1>8. Cardinality(P) \in Nat /\ Cardinality(P) # 0
  BY <1>5, <1>7, FS_CardinalityType, FS_EmptySet
<1> QED BY <1>2, <1>7, <1>8 DEF P

\* Everything is delivered, and nothing else.
LEMMA AllDelivered ==
  ASSUME NEW T, NEW window, NEW list, NEW drawn, NEW working, NEW out, NEW perm,
         Delivered(T, window, list, drawn, working, out, perm)
  PROVE  Range(out) = Range(list) /\ Len(out) = Len(list) + Cardinality(drawn)
<1>1. DOMAIN out = 1 .. Len(out) /\ DOMAIN list = 1 .. Len(list)
  BY DEF Delivered
<1>2. Range(out) \subseteq Range(list)
  <2> SUFFICES ASSUME NEW a \in 1 .. Len(out) PROVE out[a] \in Range(list)
    BY <1>1 DEF Range
  <2>1. PICK j \in 1 .. Len(list) : out[a] = list[j]
    BY DeliveriesAreInSpan
  <2> QED BY <1>1, <2>1 DEF Range
<1>3. Range(list) \subseteq Range(out)
  <2> SUFFICES ASSUME NEW j \in 1 .. Len(list) PROVE \E a \in 1 .. Len(out) : out[a] = list[j]
    BY <1>1 DEF Range
  <2> DEFINE P == {a \in 1 .. Len(out) : out[a] = list[j]}
  <2>1. Cardinality(P) \in 1 .. 2
    BY OneOrTwoCopies
  <2>2. P # {}
    <3> HIDE DEF P
    <3> QED BY <2>1, FS_EmptySet
  <2> QED BY <2>2
<1>4. drawn \cap (1 .. Len(list)) = drawn
  BY DEF Delivered
<1> QED BY <1>2, <1>3, <1>4 DEF Delivered, Expanded, Reached

\* One message is never delivered before another that stood a window ahead.
LEMMA DeliveredInBounds ==
  ASSUME NEW T, NEW window \in Nat \ {0}, NEW list, NEW drawn, NEW working, NEW out, NEW perm,
         Delivered(T, window, list, drawn, working, out, perm),
         NEW j \in 1 .. Len(list), NEW k \in 1 .. Len(list), k - j >= window,
         NEW a \in 1 .. Len(out), out[a] = list[j],
         NEW b \in 1 .. Len(out), out[b] = list[k]
  PROVE  a < b
<1>1. drawn \in SUBSET Nat
  BY DEF Delivered
<1>2. perm[a] \in Span(drawn, j) /\ perm[b] \in Span(drawn, k)
  BY DeliveriesAreInSpan
<1>3. /\ j \in Nat /\ k \in Nat /\ k - 1 \in Nat /\ j - 1 \in Nat /\ j <= k - 1
  OBVIOUS
<1>4. Reached(drawn, j) + ((k - 1) - j) <= Reached(drawn, k - 1)
  BY <1>1, <1>3, ReachedApart
<1>5. Reached(drawn, j) \in Nat /\ Reached(drawn, k - 1) \in Nat
      /\ Reached(drawn, j - 1) \in Nat /\ Reached(drawn, k) \in Nat
  BY <1>1, <1>3, ReachedGrows
<1>6. perm[b] >= perm[a] + window
  <2> DEFINE ra == Reached(drawn, j)
             rb == Reached(drawn, k - 1)
  <2>1. perm[a] \in Int /\ perm[b] \in Int /\ perm[a] <= ra /\ rb + 1 <= perm[b]
    BY <1>2, <1>5 DEF Span
  <2>2. ra \in Nat /\ rb \in Nat /\ ra + ((k - 1) - j) <= rb
    BY <1>4, <1>5
  <2> HIDE DEF ra, rb
  <2> QED BY <1>3, <2>1, <2>2
<1> QED BY <1>6 DEF Delivered, Shuffled
=============================================================================
