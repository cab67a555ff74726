------------------------ MODULE CostBasisTrailProofs ------------------------
(***************************************************************************)
(* The running average of _fold over every trail of fills, of any length,  *)
(* with any quantities and prices.                                         *)
(***************************************************************************)
EXTENDS CostBasisTrail, RecursionAndSums

-----------------------------------------------------------------------------
(* _fold, for every position, fill and price: it is total, and it does not *)
(* matter whether a fill at one price comes in one or in two.              *)

\* A product of numbers that are not zero is not zero.
LEMMA NonZeroProduct ==
  ASSUME NEW a \in Int \ {0}, NEW b \in Int \ {0}
  PROVE  a * b \in Int \ {0}
<1>1. \A x, y \in Int : x # 0 /\ y # 0 => x * y # 0 /\ x * y \in Int
  BY SMTT(30)
<1> QED BY <1>1

\* What _fold does, branch by branch.
LEMMA FoldBranches ==
  ASSUME NEW p \in Position, NEW q \in Int, NEW price \in Int
  PROVE  /\ p.qty + q = 0 => Fold(p, q, price) = Flat
         /\ p.qty + q # 0 /\ SameDirectionOrFlat(p, q) => Fold(p, q, price) = Blend(p, q, price)
         /\ p.qty + q # 0 /\ ~SameDirectionOrFlat(p, q) /\ Flips(p, q) =>
              Fold(p, q, price) = [qty |-> p.qty + q, num |-> price, den |-> 1]
         /\ p.qty + q # 0 /\ ~SameDirectionOrFlat(p, q) /\ ~Flips(p, q) =>
              Fold(p, q, price) = [qty |-> p.qty + q, num |-> p.num, den |-> p.den]
<1>1. CASE p.qty + q = 0
  BY <1>1 DEF Fold
<1>2. CASE p.qty + q # 0 /\ SameDirectionOrFlat(p, q)
  BY <1>2 DEF Fold
<1>3. CASE p.qty + q # 0 /\ ~SameDirectionOrFlat(p, q) /\ Flips(p, q)
  BY <1>3 DEF Fold
<1>4. CASE p.qty + q # 0 /\ ~SameDirectionOrFlat(p, q) /\ ~Flips(p, q)
  <2>1. Fold(p, q, price) = [p EXCEPT !.qty = @ + q]
    BY <1>4 DEF Fold
  <2>2. [p EXCEPT !.qty = @ + q] = [qty |-> p.qty + q, num |-> p.num, den |-> p.den]
    BY DEF Position
  <2> QED BY <1>4, <2>1, <2>2
<1> QED BY <1>1, <1>2, <1>3, <1>4

\* _fold always returns a position: its average is a fraction, whatever the
\* fill, because no branch divides by a quantity of zero.
THEOREM FoldType ==
  ASSUME NEW p \in Position, NEW q \in Int, NEW price \in Int
  PROVE  Fold(p, q, price) \in Position
<1>1. CASE p.qty + q = 0
  BY <1>1, FoldBranches DEF Flat, Position
<1>2. CASE p.qty + q # 0 /\ SameDirectionOrFlat(p, q)
  <2>1. p.den \in Int \ {0} /\ p.qty + q \in Int \ {0} /\ p.num \in Int /\ p.qty \in Int
    BY <1>2 DEF Position
  <2>2. p.den * (p.qty + q) \in Int \ {0}
    BY <2>1, NonZeroProduct
  <2>3. p.qty * p.num + q * price * p.den \in Int
    BY <2>1
  <2>4. Fold(p, q, price) = Blend(p, q, price)
    BY <1>2, FoldBranches
  <2> QED BY <2>1, <2>2, <2>3, <2>4 DEF Blend, Position
<1>3. CASE p.qty + q # 0 /\ ~SameDirectionOrFlat(p, q)
  BY <1>3, FoldBranches DEF Position
<1> QED BY <1>1, <1>2, <1>3

\* The fill is split into two of its own direction.
Parts(q, r) == q \in Int /\ r \in Int /\ (q > 0 <=> r > 0) /\ q # 0 /\ r # 0

\* The first part adds to the position, and then so does the second.
LEMMA SplitAddition ==
  ASSUME NEW p \in Position, NEW q, NEW r, Parts(q, r), NEW price \in Int,
         SameDirectionOrFlat(p, q)
  PROVE  SamePosition(Fold(Fold(p, q, price), r, price), Fold(p, q + r, price))
<1> DEFINE Q == p.qty
           n == p.num
           d == p.den
           a == Blend(p, q, price)
<1>1. /\ Q \in Int /\ n \in Int /\ d \in Int \ {0} /\ q \in Int /\ r \in Int
      /\ Q + q # 0 /\ Q + q + r # 0 /\ Q + (q + r) # 0 /\ q + r \in Int
      /\ (Q + q > 0 <=> r > 0)
  BY DEF Parts, Position, SameDirectionOrFlat
<1>2. Fold(p, q, price) = a /\ a \in Position
  BY <1>1, FoldBranches, FoldType
<1>3. a.qty = Q + q /\ a.num = Q * n + q * price * d /\ a.den = d * (Q + q)
  BY DEF Blend
<1>4. SameDirectionOrFlat(a, r) /\ SameDirectionOrFlat(p, q + r)
  <2>1. SameDirectionOrFlat(a, r)
    BY <1>1, <1>3 DEF SameDirectionOrFlat
  <2>2. SameDirectionOrFlat(p, q + r)
    BY <1>1 DEF SameDirectionOrFlat, Parts
  <2> QED BY <2>1, <2>2
<1>5. Fold(a, r, price) = Blend(a, r, price)
  <2> HIDE DEF a
  <2> QED BY <1>1, <1>2, <1>3, <1>4, FoldBranches
<1>6. Fold(p, q + r, price) = Blend(p, q + r, price)
  BY <1>1, <1>4, FoldBranches
<1>7. Blend(a, r, price) =
        [qty |-> Q + q + r,
         num |-> (Q + q) * (Q * n + q * price * d) + r * price * (d * (Q + q)),
         den |-> d * (Q + q) * (Q + q + r)]
  BY <1>3 DEF Blend
<1>8. Blend(p, q + r, price) =
        [qty |-> Q + (q + r), num |-> Q * n + (q + r) * price * d, den |-> d * (Q + (q + r))]
  BY DEF Blend
<1>9. \A i, j, k, x, y, z \in Int :
        ((i + j) * (i * k + j * z * x) + y * z * (x * (i + j))) * (x * (i + (j + y)))
        = (i * k + (j + y) * z * x) * (x * (i + j) * (i + j + y))
  BY SMTT(60)
<1> HIDE DEF Q, n, d
<1>10. Q + q + r = Q + (q + r)
  BY <1>1
<1>11. ((Q + q) * (Q * n + q * price * d) + r * price * (d * (Q + q))) * (d * (Q + (q + r)))
       = (Q * n + (q + r) * price * d) * (d * (Q + q) * (Q + q + r))
  BY <1>1, <1>9
<1> QED BY <1>2, <1>5, <1>6, <1>7, <1>8, <1>10, <1>11 DEF SamePosition

\* The first part reduces the position, closes it or turns it over.
LEMMA SplitReduction ==
  ASSUME NEW p \in Position, NEW q, NEW r, Parts(q, r), NEW price \in Int,
         ~SameDirectionOrFlat(p, q)
  PROVE  SamePosition(Fold(Fold(p, q, price), r, price), Fold(p, q + r, price))
<1> DEFINE Q == p.qty
<1>1. /\ Q \in Int /\ p.num \in Int /\ p.den \in Int /\ q \in Int /\ r \in Int /\ q + r \in Int
      /\ Q # 0 /\ (Q > 0 <=> q < 0) /\ (Q > 0 <=> r < 0) /\ Q + (q + r) = Q + q + r
  BY DEF Parts, Position, SameDirectionOrFlat
<1>2. ~SameDirectionOrFlat(p, q + r)
  BY <1>1 DEF SameDirectionOrFlat
\* Closed: the second part opens a position at its price.
<1>3. CASE Q + q = 0
  <2>1. Fold(p, q, price) = Flat /\ Flat \in Position /\ Flat.qty = 0
    BY <1>1, <1>3, FoldBranches DEF Flat, Position
  <2>2. Flat.qty + r # 0 /\ SameDirectionOrFlat(Flat, r)
    BY <1>1, <2>1 DEF SameDirectionOrFlat, Parts
  <2>3. Fold(Flat, r, price) = Blend(Flat, r, price)
    BY <1>1, <2>1, <2>2, FoldBranches
  <2>4. Q + (q + r) = r /\ r # 0 /\ Flips(p, q + r)
    BY <1>1, <1>3 DEF Parts, Flips
  <2>5. Fold(p, q + r, price) = [qty |-> r, num |-> price, den |-> 1]
    BY <1>1, <1>2, <2>4, FoldBranches
  <2>6. Blend(Flat, r, price) = [qty |-> 0 + r, num |-> 0 * 0 + r * price * 1, den |-> 1 * (0 + r)]
    BY DEF Blend, Flat
  <2>7. 0 + r = r /\ (0 * 0 + r * price * 1) * 1 = price * (1 * (0 + r))
    BY <1>1
  <2> QED BY <2>1, <2>3, <2>5, <2>6, <2>7 DEF SamePosition
\* Turned over: the second part adds to the new position, at the same price.
<1>4. CASE Q + q # 0 /\ Flips(p, q)
  <2> DEFINE a == [qty |-> Q + q, num |-> price, den |-> 1]
  <2>1. Fold(p, q, price) = a
    BY <1>1, <1>4, FoldBranches
  <2>2. a \in Position /\ a.qty = Q + q /\ a.num = price /\ a.den = 1
    BY <1>1 DEF Position
  <2>3. Q + q + r # 0 /\ (Q + q > 0 <=> r > 0)
    BY <1>1, <1>4 DEF Flips, Parts
  <2>4. SameDirectionOrFlat(a, r)
    BY <2>3 DEF SameDirectionOrFlat
  <2> HIDE DEF a
  <2>5. Fold(a, r, price) = Blend(a, r, price)
    BY <1>1, <2>2, <2>3, <2>4, FoldBranches
  <2>6. Blend(a, r, price) = [qty |-> Q + q + r, num |-> (Q + q) * price + r * price * 1,
                              den |-> 1 * (Q + q + r)]
    BY <2>2 DEF Blend
  <2>7. Flips(p, q + r) /\ Q + (q + r) # 0
    BY <1>1, <1>4 DEF Flips, Parts
  <2>8. Fold(p, q + r, price) = [qty |-> Q + (q + r), num |-> price, den |-> 1]
    BY <1>1, <1>2, <2>7, FoldBranches
  <2>9. \A i, j, k, y \in Int : ((i + j) * y + k * y * 1) * 1 = y * (1 * (i + j + k))
    BY SMTT(30)
  <2>10. ((Q + q) * price + r * price * 1) * 1 = price * (1 * (Q + q + r))
    <3> HIDE DEF Q
    <3> QED BY <1>1, <2>9
  <2> QED BY <1>1, <2>1, <2>5, <2>6, <2>8, <2>10 DEF SamePosition
\* Reduced: the average stays, and the second part meets it as the whole would.
<1>5. CASE Q + q # 0 /\ ~Flips(p, q)
  <2> DEFINE a == [qty |-> Q + q, num |-> p.num, den |-> p.den]
  <2>1. Fold(p, q, price) = a
    BY <1>1, <1>5, FoldBranches
  <2>2. a \in Position /\ a.qty = Q + q /\ a.num = p.num /\ a.den = p.den
    BY <1>1 DEF Position
  <2>3. ~SameDirectionOrFlat(a, r)
    BY <1>1, <1>5, <2>2 DEF SameDirectionOrFlat, Flips, Parts
  <2>4. Flips(a, r) <=> Flips(p, q + r)
    BY <1>1, <1>5, <2>2 DEF Flips, Parts
  <2> HIDE DEF a
  <2>5. Fold(a, r, price) = Fold(p, q + r, price)
    <3>1. CASE Q + q + r = 0
      BY <1>1, <2>2, <3>1, FoldBranches
    <3>2. CASE Q + q + r # 0 /\ Flips(p, q + r)
      <4>1. Fold(a, r, price) = [qty |-> Q + q + r, num |-> price, den |-> 1]
        BY <1>1, <2>2, <2>3, <2>4, <3>2, FoldBranches
      <4>2. Fold(p, q + r, price) = [qty |-> Q + (q + r), num |-> price, den |-> 1]
        BY <1>1, <1>2, <3>2, FoldBranches
      <4> QED BY <1>1, <4>1, <4>2
    <3>3. CASE Q + q + r # 0 /\ ~Flips(p, q + r)
      <4>1. Fold(a, r, price) = [qty |-> Q + q + r, num |-> p.num, den |-> p.den]
        BY <1>1, <2>2, <2>3, <2>4, <3>3, FoldBranches
      <4>2. Fold(p, q + r, price) = [qty |-> Q + (q + r), num |-> p.num, den |-> p.den]
        BY <1>1, <1>2, <3>3, FoldBranches
      <4> QED BY <1>1, <4>1, <4>2
    <3> QED BY <3>1, <3>2, <3>3
  <2>6. Fold(p, q + r, price) \in Position
    BY <1>1, FoldType
  <2> QED BY <2>1, <2>5, <2>6 DEF SamePosition
<1> QED BY <1>3, <1>4, <1>5

\* A fill executed in two parts at one price leaves the position it would have
\* left in one, for every position, quantities and price.
THEOREM SplitFill ==
  ASSUME NEW p \in Position, NEW q, NEW r, Parts(q, r), NEW price \in Int
  PROVE  SamePosition(Fold(Fold(p, q, price), r, price), Fold(p, q + r, price))
BY SplitAddition, SplitReduction

-----------------------------------------------------------------------------
(* The trail.                                                              *)

Fill == Quantities \X Prices

-----------------------------------------------------------------------------
(* The net quantity as fills are added.                                    *)

Signed(t) == [k \in DOMAIN t |-> t[k][1]]
NetOf(t, n) == SumFunctionOnSet(Signed(t), 1 .. n)

LEMMA NetOfGrows ==
  ASSUME NEW t \in Seq(Fill), NEW x \in Fill
  PROVE  /\ NetOf(t, 0) = 0
         /\ \A n \in 0 .. Len(t) : NetOf(Append(t, x), n) = NetOf(t, n) /\ NetOf(t, n) \in Int
         /\ NetOf(Append(t, x), Len(t) + 1) = NetOf(t, Len(t)) + x[1]
<1> DEFINE L == Len(t)
           u == Append(t, x)
           f == Signed(t)
           g == Signed(u)
<1>1. /\ L \in Nat /\ DOMAIN t = 1 .. L /\ DOMAIN u = 1 .. (L + 1)
      /\ u[L + 1] = x
      /\ \A k \in 1 .. L : u[k] = t[k] /\ t[k] \in Fill
  OBVIOUS
<1>2. \A y \in Fill : y[1] \in Int
  BY TrailAssumption DEF Fill
<1> HIDE DEF u, L
<1>3. \A k \in 1 .. L : f[k] = t[k][1]
  BY <1>1 DEF Signed
<1>4. \A k \in 1 .. (L + 1) : g[k] = u[k][1]
  BY <1>1 DEF Signed
<1>5. (1 .. (L + 1)) = (1 .. L) \cup {L + 1} /\ L + 1 \notin 1 .. L
  BY <1>1
<1>6. \A k \in 1 .. L : f[k] \in Int /\ f[k] = g[k]
  BY <1>1, <1>2, <1>3, <1>4, <1>5
<1>7. g[L + 1] = x[1] /\ g[L + 1] \in Int
  BY <1>1, <1>2, <1>4, <1>5
<1> HIDE DEF f, g
<1>8. ASSUME NEW n \in 0 .. L
      PROVE  SumFunctionOnSet(f, 1 .. n) = SumFunctionOnSet(g, 1 .. n)
             /\ SumFunctionOnSet(f, 1 .. n) \in Int
  <2>1. IsFiniteSet(1 .. n)
    BY <1>1, FS_Interval
  <2>2. \A k \in 1 .. n : k \in 1 .. L
    BY <1>1
  <2>3. \A k \in 1 .. n : f[k] \in Int /\ f[k] = g[k]
    BY <1>6, <2>2
  <2> QED BY <2>1, <2>3, SumSame, SumType
<1>9. SumFunctionOnSet(g, 1 .. (L + 1)) = SumFunctionOnSet(g, 1 .. L) + g[L + 1]
  <2>1. IsFiniteSet(1 .. L)
    BY <1>1, FS_Interval
  <2>2. \A k \in (1 .. L) \cup {L + 1} : g[k] \in Int
    BY <1>6, <1>7
  <2>3. SumFunctionOnSet(g, (1 .. L) \cup {L + 1}) = SumFunctionOnSet(g, 1 .. L) + g[L + 1]
    BY <2>1, <2>2, <1>5, SumAdd
  <2> QED BY <2>3, <1>5
<1>10. L \in 0 .. L
  BY <1>1
<1>11. (1 .. 0) = {}
  OBVIOUS
<1>12. NetOf(t, 0) = 0
  BY <1>11, SumEmpty DEF NetOf
<1>13. \A n \in 0 .. L : NetOf(u, n) = NetOf(t, n) /\ NetOf(t, n) \in Int
  BY <1>8 DEF NetOf, f, g
<1>14. NetOf(u, L + 1) = NetOf(u, L) + x[1]
  BY <1>7, <1>9 DEF NetOf, g
<1> QED BY <1>10, <1>12, <1>13, <1>14 DEF L, u

\* The openings after one more fill: it is one if it changes the sign.
OpeningsOf(t) == {n \in DOMAIN t : Sign(NetOf(t, n)) # Sign(NetOf(t, n - 1))}

LEMMA OpeningsGrow ==
  ASSUME NEW t \in Seq(Fill), NEW x \in Fill
  PROVE  /\ OpeningsOf(t) \subseteq 1 .. Len(t)
         /\ Sign(NetOf(t, Len(t)) + x[1]) # Sign(NetOf(t, Len(t))) =>
              OpeningsOf(Append(t, x)) = OpeningsOf(t) \cup {Len(t) + 1}
         /\ Sign(NetOf(t, Len(t)) + x[1]) = Sign(NetOf(t, Len(t))) =>
              OpeningsOf(Append(t, x)) = OpeningsOf(t)
<1> DEFINE L == Len(t)
           u == Append(t, x)
<1>1. L \in Nat /\ DOMAIN t = 1 .. L /\ DOMAIN u = 1 .. (L + 1)
  OBVIOUS
<1>2. /\ \A n \in 0 .. L : NetOf(u, n) = NetOf(t, n)
      /\ NetOf(u, L + 1) = NetOf(t, L) + x[1]
  BY NetOfGrows
<1> HIDE DEF u, L
<1>3. (1 .. (L + 1)) = (1 .. L) \cup {L + 1} /\ L + 1 \notin 1 .. L /\ (L + 1) - 1 = L
  BY <1>1
<1>4. \A n \in 1 .. L : n \in 0 .. L /\ n - 1 \in 0 .. L
  BY <1>1
<1>5. \A n \in 1 .. L : NetOf(u, n) = NetOf(t, n) /\ NetOf(u, n - 1) = NetOf(t, n - 1)
  BY <1>2, <1>4
<1>6. NetOf(u, (L + 1) - 1) = NetOf(t, L)
  <2>1. L \in 0 .. L
    BY <1>1
  <2> QED BY <1>2, <1>3, <2>1
<1>7. OpeningsOf(t) = {n \in 1 .. L : Sign(NetOf(t, n)) # Sign(NetOf(t, n - 1))}
  BY <1>1 DEF OpeningsOf
<1>8. OpeningsOf(u) = {n \in (1 .. L) \cup {L + 1} : Sign(NetOf(u, n)) # Sign(NetOf(u, n - 1))}
  BY <1>1, <1>3 DEF OpeningsOf
<1>9. L + 1 \in OpeningsOf(u) <=> Sign(NetOf(t, L) + x[1]) # Sign(NetOf(t, L))
  BY <1>2, <1>6, <1>8
<1>10. \A n \in 1 .. L : n \in OpeningsOf(u) <=> n \in OpeningsOf(t)
  BY <1>5, <1>7, <1>8
<1>11. /\ Sign(NetOf(t, L) + x[1]) # Sign(NetOf(t, L)) => OpeningsOf(u) = OpeningsOf(t) \cup {L + 1}
       /\ Sign(NetOf(t, L) + x[1]) = Sign(NetOf(t, L)) => OpeningsOf(u) = OpeningsOf(t)
  BY <1>3, <1>7, <1>8, <1>9, <1>10
<1> QED BY <1>7, <1>11 DEF L, u

-----------------------------------------------------------------------------
(* The average stays between the prices paid.                              *)

\* Some price of S is at most the average of p, and some is at least that.
Within(S, p) ==
  /\ \E x \in S : x * p.den * p.den <= p.num * p.den
  /\ \E x \in S : x * p.den * p.den >= p.num * p.den

\* A factor that is not negative keeps an inequality.
LEMMA Scaled ==
  ASSUME NEW a \in Int, NEW b \in Int, NEW k \in Int, k >= 0, a <= b
  PROVE  k * a <= k * b
<1>1. \A i, j \in Int : i >= 0 /\ j >= 0 => i * j >= 0
  BY SMTT(30)
<1>2. b - a \in Int /\ b - a >= 0
  OBVIOUS
<1>3. k * (b - a) >= 0
  BY <1>1, <1>2
<1>4. \A i, j, m \in Int : m * (i - j) = m * i - m * j
  BY SMTT(30)
<1>5. k * (b - a) = k * b - k * a /\ k * b \in Int /\ k * a \in Int
  BY <1>4
<1> QED BY <1>3, <1>5

\* Two numbers of one sign, one of which may be zero.
LEMMA ProductNotNegative ==
  ASSUME NEW a \in Int, NEW b \in Int, (a >= 0 /\ b >= 0) \/ (a <= 0 /\ b <= 0)
  PROVE  a * b \in Int /\ a * b >= 0
<1>1. \A i, j \in Int : (i >= 0 /\ j >= 0) \/ (i <= 0 /\ j <= 0) => i * j >= 0 /\ i * j \in Int
  BY SMTT(30)
<1> QED BY <1>1

\* The weighted average of an average and a price lies between the two: a
\* number x that bounds both from one side bounds it from that side.
LEMMA BlendBounded ==
  ASSUME NEW Q \in Int, NEW q \in Int, NEW n \in Int, NEW d \in Int, NEW y \in Int, NEW x \in Int,
         (Q >= 0 /\ q >= 0) \/ (Q <= 0 /\ q <= 0)
  PROVE  /\ x * d * d <= n * d /\ (q = 0 \/ x <= y) =>
              x * (d * (Q + q)) * (d * (Q + q)) <= (Q * n + q * y * d) * (d * (Q + q))
         /\ x * d * d >= n * d /\ (q = 0 \/ x >= y) =>
              x * (d * (Q + q)) * (d * (Q + q)) >= (Q * n + q * y * d) * (d * (Q + q))
<1> DEFINE k == Q * (Q + q)
           l == q * (Q + q)
           e == d * d
<1>1. k \in Int /\ k >= 0 /\ l \in Int /\ l >= 0 /\ e \in Int /\ e >= 0
  <2>1. Q + q \in Int
    OBVIOUS
  <2> QED BY <2>1, ProductNotNegative
<1>2. /\ x * (d * (Q + q)) * (d * (Q + q)) = k * (x * d * d) + l * (e * x)
      /\ (Q * n + q * y * d) * (d * (Q + q)) = k * (n * d) + l * (e * y)
  <2>1. \A i, j, u, v, w, z \in Int :
          /\ z * (v * (i + j)) * (v * (i + j)) = (i * (i + j)) * (z * v * v) + (j * (i + j)) * ((v * v) * z)
          /\ (i * u + j * w * v) * (v * (i + j)) = (i * (i + j)) * (u * v) + (j * (i + j)) * ((v * v) * w)
    BY SMTT(60)
  <2> QED BY <2>1
<1>3. x * d * d \in Int /\ n * d \in Int /\ e * x \in Int /\ e * y \in Int
  BY <1>1
<1> HIDE DEF k, l, e
<1>4. ASSUME x * d * d <= n * d, q = 0 \/ x <= y
      PROVE  k * (x * d * d) + l * (e * x) <= k * (n * d) + l * (e * y)
  <2>1. k * (x * d * d) <= k * (n * d)
    BY <1>1, <1>3, <1>4, Scaled
  <2>2. l * (e * x) <= l * (e * y)
    <3>1. CASE q = 0
      <4>1. l = 0
        BY <3>1 DEF l
      <4> QED BY <4>1, <1>3
    <3>2. CASE x <= y
      <4>1. e * x <= e * y
        BY <1>1, <3>2, Scaled
      <4> QED BY <1>1, <1>3, <4>1, Scaled
    <3> QED BY <1>4, <3>1, <3>2
  <2> QED BY <2>1, <2>2, <1>1, <1>3
<1>5. ASSUME x * d * d >= n * d, q = 0 \/ x >= y
      PROVE  k * (x * d * d) + l * (e * x) >= k * (n * d) + l * (e * y)
  <2>1. k * (n * d) <= k * (x * d * d)
    BY <1>1, <1>3, <1>5, Scaled
  <2>2. l * (e * y) <= l * (e * x)
    <3>1. CASE q = 0
      <4>1. l = 0
        BY <3>1 DEF l
      <4> QED BY <4>1, <1>3
    <3>2. CASE x >= y
      <4>1. e * y <= e * x
        BY <1>1, <3>2, Scaled
      <4> QED BY <1>1, <1>3, <4>1, Scaled
    <3> QED BY <1>5, <3>1, <3>2
  <2> QED BY <2>1, <2>2, <1>1, <1>3
<1> QED BY <1>2, <1>4, <1>5

\* Adding to a position keeps its average between the prices paid, the price of
\* the fill among them.
LEMMA BlendWithin ==
  ASSUME NEW p \in Position, NEW q \in Int, NEW y \in Int,
         NEW S \in SUBSET Int, NEW T \in SUBSET Int, S \subseteq T,
         (p.qty >= 0 /\ q >= 0) \/ (p.qty <= 0 /\ q <= 0), q # 0 => y \in T,
         Within(S, p)
  PROVE  Within(T, Blend(p, q, y))
<1> DEFINE b == Blend(p, q, y)
<1>1. /\ p.qty \in Int /\ p.num \in Int /\ p.den \in Int
      /\ b.num = p.qty * p.num + q * y * p.den /\ b.den = p.den * (p.qty + q)
  BY DEF Position, Blend
<1>2. PICK lo \in S : lo * p.den * p.den <= p.num * p.den
  BY DEF Within
<1>3. PICK hi \in S : hi * p.den * p.den >= p.num * p.den
  BY DEF Within
<1>4. lo \in Int /\ hi \in Int /\ lo \in T /\ hi \in T
  OBVIOUS
<1> HIDE DEF b
<1>5. \E x \in T : x * b.den * b.den <= b.num * b.den
  <2>1. CASE q = 0 \/ lo <= y
    BY <1>1, <1>2, <1>4, <2>1, BlendBounded
  <2>2. CASE q # 0 /\ lo > y
    <3>1. y * p.den * p.den <= lo * p.den * p.den
      <4>1. p.den * p.den \in Int /\ p.den * p.den >= 0
        BY <1>1, ProductNotNegative
      <4>2. (p.den * p.den) * y <= (p.den * p.den) * lo
        BY <1>4, <2>2, <4>1, Scaled
      <4>3. \A i, j \in Int : (i * i) * j = j * i * i
        BY SMTT(30)
      <4> QED BY <1>1, <1>4, <4>2, <4>3
    <3>2. y * p.den * p.den <= p.num * p.den
      <4>1. \A i, j \in Int : i * j \in Int /\ i * j * j \in Int
        OBVIOUS
      <4>2. y * p.den * p.den \in Int /\ lo * p.den * p.den \in Int /\ p.num * p.den \in Int
        BY <1>1, <1>4, <4>1
      <4> QED BY <1>2, <3>1, <4>2
    <3>3. y * b.den * b.den <= b.num * b.den
      <4>1. y * (p.den * (p.qty + q)) * (p.den * (p.qty + q))
            <= (p.qty * p.num + q * y * p.den) * (p.den * (p.qty + q))
        <5>1. /\ p.qty \in Int /\ p.num \in Int /\ p.den \in Int /\ y \in Int /\ q \in Int /\ y <= y
              /\ (p.qty >= 0 /\ q >= 0) \/ (p.qty <= 0 /\ q <= 0)
          BY <1>1
        <5> QED BY ONLY <5>1, <3>2, BlendBounded
      <4> QED BY <1>1, <4>1
    <3> QED BY <2>2, <3>3
  <2> QED BY <1>4, <2>1, <2>2
<1>6. \E x \in T : x * b.den * b.den >= b.num * b.den
  <2>1. CASE q = 0 \/ hi >= y
    BY <1>1, <1>3, <1>4, <2>1, BlendBounded
  <2>2. CASE q # 0 /\ hi < y
    <3>1. hi * p.den * p.den <= y * p.den * p.den
      <4>1. p.den * p.den \in Int /\ p.den * p.den >= 0
        BY <1>1, ProductNotNegative
      <4>2. (p.den * p.den) * hi <= (p.den * p.den) * y
        BY <1>4, <2>2, <4>1, Scaled
      <4>3. \A i, j \in Int : (i * i) * j = j * i * i
        BY SMTT(30)
      <4> QED BY <1>1, <1>4, <4>2, <4>3
    <3>2. y * p.den * p.den >= p.num * p.den
      <4>1. \A i, j \in Int : i * j \in Int /\ i * j * j \in Int
        OBVIOUS
      <4>2. y * p.den * p.den \in Int /\ hi * p.den * p.den \in Int /\ p.num * p.den \in Int
        BY <1>1, <1>4, <4>1
      <4> QED BY <1>3, <3>1, <4>2
    <3>3. y * b.den * b.den >= b.num * b.den
      BY <1>1, <3>2, BlendBounded
    <3> QED BY <2>2, <3>3
  <2> QED BY <1>4, <2>1, <2>2
<1> QED BY <1>5, <1>6 DEF Within, b

\* A fill that leaves the position on its side keeps the average between the
\* prices paid.
LEMMA FoldKeepsWithin ==
  ASSUME NEW p \in Position, NEW q \in Int, NEW y \in Int,
         NEW S \in SUBSET Int, NEW T \in SUBSET Int, S \subseteq T,
         p.qty # 0, Sign(p.qty + q) = Sign(p.qty), Sign(q) = Sign(p.qty) => y \in T,
         Within(S, p)
  PROVE  Within(T, Fold(p, q, y))
<1>1. p.qty \in Int /\ p.qty + q # 0 /\ ~Flips(p, q)
  BY DEF Position, Sign, Flips
<1>2. CASE SameDirectionOrFlat(p, q)
  <2>1. /\ (p.qty >= 0 /\ q >= 0) \/ (p.qty <= 0 /\ q <= 0)
        /\ q # 0 => y \in T
    BY <1>1, <1>2 DEF SameDirectionOrFlat, Sign
  <2> QED BY <1>1, <1>2, <2>1, BlendWithin, FoldBranches
<1>3. CASE ~SameDirectionOrFlat(p, q)
  <2>1. Fold(p, q, y) = [qty |-> p.qty + q, num |-> p.num, den |-> p.den]
    BY <1>1, <1>3, FoldBranches
  <2>2. Fold(p, q, y).num = p.num /\ Fold(p, q, y).den = p.den
    BY <2>1
  <2> QED BY <2>2 DEF Within
<1> QED BY <1>2, <1>3

\* A fill that opens a position, from nothing or from the other side, leaves
\* the average at its own price.
LEMMA FoldOpensWithin ==
  ASSUME NEW p \in Position, NEW q \in Int, NEW y \in Int, NEW T \in SUBSET Int, y \in T,
         p.qty + q # 0, Sign(p.qty + q) # Sign(p.qty), p.qty = 0 => p = Flat
  PROVE  Within(T, Fold(p, q, y))
<1>1. CASE p.qty = 0
  <2>1. p = Flat /\ p.qty = 0 /\ p.num = 0 /\ p.den = 1 /\ SameDirectionOrFlat(p, q)
    BY <1>1 DEF Flat, SameDirectionOrFlat
  <2>2. Fold(p, q, y) = Blend(p, q, y)
    BY <2>1, FoldBranches
  <2>3. Fold(p, q, y).num = 0 * 0 + q * y * 1 /\ Fold(p, q, y).den = 1 * (0 + q)
    BY <2>1, <2>2 DEF Blend
  <2>4. y * (1 * (0 + q)) * (1 * (0 + q)) = (0 * 0 + q * y * 1) * (1 * (0 + q))
    <3>1. \A i, j \in Int : j * (1 * (0 + i)) * (1 * (0 + i)) = (0 * 0 + i * j * 1) * (1 * (0 + i))
      BY SMTT(30)
    <3> QED BY <3>1
  <2>5. /\ y * (1 * (0 + q)) * (1 * (0 + q)) <= (0 * 0 + q * y * 1) * (1 * (0 + q))
        /\ y * (1 * (0 + q)) * (1 * (0 + q)) >= (0 * 0 + q * y * 1) * (1 * (0 + q))
    <3>1. \A i, j \in Int : (0 * 0 + i * j * 1) * (1 * (0 + i)) \in Int
      OBVIOUS
    <3>2. (0 * 0 + q * y * 1) * (1 * (0 + q)) \in Int
      BY <3>1
    <3> QED BY <2>4, <3>2
  <2> QED BY <2>3, <2>5 DEF Within
<1>2. CASE p.qty # 0
  <2>1. Flips(p, q) /\ ~SameDirectionOrFlat(p, q)
    BY <1>2 DEF Position, Sign, Flips, SameDirectionOrFlat
  <2>2. Fold(p, q, y) = [qty |-> p.qty + q, num |-> y, den |-> 1]
    BY <2>1, FoldBranches
  <2>3. Fold(p, q, y).num = y /\ Fold(p, q, y).den = 1
    BY <2>2
  <2>4. y * 1 * 1 <= y * 1 /\ y * 1 * 1 >= y * 1
    OBVIOUS
  <2> QED BY <2>3, <2>4 DEF Within
<1> QED BY <1>1, <1>2

\* The quantity is the sum, on every branch.
LEMMA FoldQuantity ==
  ASSUME NEW p \in Position, NEW q \in Int, NEW y \in Int
  PROVE  /\ Fold(p, q, y).qty = p.qty + q
         /\ Fold(p, q, y).qty = 0 => Fold(p, q, y) = Flat
<1>1. CASE p.qty + q = 0
  BY <1>1, FoldBranches DEF Flat
<1>2. CASE p.qty + q # 0 /\ SameDirectionOrFlat(p, q)
  <2>1. Fold(p, q, y) = Blend(p, q, y)
    BY <1>2, FoldBranches
  <2>2. Blend(p, q, y).qty = p.qty + q
    BY DEF Blend
  <2> QED BY <1>2, <2>1, <2>2
<1>3. CASE p.qty + q # 0 /\ ~SameDirectionOrFlat(p, q)
  BY <1>3, FoldBranches
<1> QED BY <1>1, <1>2, <1>3

-----------------------------------------------------------------------------
(* The invariant.                                                          *)

\* The prices paid by the fills of t from the m-th on, for a position of the
\* sign of Q.
PricesOf(t, m, Q) ==
  {t[n][2] : n \in {k \in m .. Len(t) : Sign(t[k][1]) = Sign(Q)}}

LEMMA PricesAreInt == \A y \in Prices : y \in Int
<1> SUFFICES ASSUME NEW y \in Prices PROVE y \in Int
  OBVIOUS
<1>1. y \in Nat
  BY TrailAssumption
<1> QED BY <1>1

LEMMA PricesAreNumbers ==
  ASSUME NEW t \in Seq(Fill), NEW m \in 1 .. Len(t), NEW Q
  PROVE  PricesOf(t, m, Q) \in SUBSET Int
<1>1. \A k \in m .. Len(t) : t[k] \in Quantities \X Prices
  BY DEF Fill
<1>2. \A k \in m .. Len(t) : t[k][2] \in Prices
  BY <1>1
<1>3. \A k \in m .. Len(t) : t[k][2] \in Int
  BY <1>2, PricesAreInt
<1> QED BY <1>3 DEF PricesOf

LEMMA PricesGrow ==
  ASSUME NEW t \in Seq(Fill), NEW x \in Fill, NEW m \in 1 .. (Len(t) + 1), NEW Q, NEW R,
         Sign(Q) = Sign(R)
  PROVE  /\ PricesOf(t, m, Q) \subseteq PricesOf(Append(t, x), m, R)
         /\ Sign(x[1]) = Sign(R) => x[2] \in PricesOf(Append(t, x), m, R)
         /\ PricesOf(t, m, Q) \subseteq Int
<1> DEFINE L == Len(t)
           u == Append(t, x)
<1>1. /\ L \in Nat /\ Len(u) = L + 1 /\ u[L + 1] = x
      /\ \A k \in 1 .. L : u[k] = t[k] /\ t[k] \in Fill
  OBVIOUS
<1>2. \A y \in Fill : y[2] \in Int
  <2>1. \A y \in Quantities \X Prices : y[2] \in Prices
    OBVIOUS
  <2> QED BY <2>1, PricesAreInt DEF Fill
<1> HIDE DEF u, L
<1>3. ASSUME NEW n \in m .. L, Sign(t[n][1]) = Sign(Q)
      PROVE  t[n][2] \in PricesOf(u, m, R) /\ t[n][2] \in Int
  <2>1. n \in 1 .. L /\ n \in m .. Len(u)
    BY <1>1 DEF L
  <2>2. u[n] = t[n] /\ Sign(u[n][1]) = Sign(R)
    BY <1>1, <1>3, <2>1
  <2> QED BY <1>1, <1>2, <2>1, <2>2 DEF PricesOf
<1>4. ASSUME Sign(x[1]) = Sign(R)
      PROVE  x[2] \in PricesOf(u, m, R)
  <2>1. L + 1 \in m .. Len(u)
    BY <1>1 DEF L
  <2> QED BY <1>1, <1>4, <2>1 DEF PricesOf
<1>5. PricesOf(t, m, Q) \subseteq PricesOf(u, m, R) /\ PricesOf(t, m, Q) \subseteq Int
  BY <1>3 DEF PricesOf, L
<1> QED BY <1>4, <1>5 DEF u, L

\* What a position has to do with its trail: it holds the net of the fills; and
\* when it is held it has been opened, at a last opening, and its average lies
\* between the prices paid since then.
Accounts(p, t) ==
  /\ t \in Seq(Fill)
  /\ p \in Position
  /\ p.qty = NetOf(t, Len(t))
  /\ p.qty = 0 => p = Flat
  /\ p.qty # 0 => \E m \in OpeningsOf(t) : /\ \A k \in OpeningsOf(t) : m >= k
                                           /\ Within(PricesOf(t, m, p.qty), p)

TrailInv == Accounts(pos, trail)

LEMMA StepAccounts ==
  ASSUME NEW p, NEW t, Accounts(p, t), NEW q \in Quantities, NEW y \in Prices
  PROVE  Accounts(Fold(p, q, y), Append(t, <<q, y>>))
<1> DEFINE x == <<q, y>>
           u == Append(t, x)
           r == Fold(p, q, y)
           L == Len(t)
<1>1. /\ t \in Seq(Fill) /\ p \in Position /\ p.qty = NetOf(t, L)
      /\ q \in Int /\ y \in Int /\ x \in Fill /\ x[1] = q /\ x[2] = y
      /\ u \in Seq(Fill) /\ Len(u) = L + 1 /\ L \in Nat /\ p.qty \in Int
  BY TrailAssumption DEF Accounts, Fill, Position
<1> HIDE DEF x, u, r, L
<1>2. r \in Position /\ r.qty = p.qty + q /\ (r.qty = 0 => r = Flat)
  BY <1>1, FoldType, FoldQuantity DEF r
<1>3. r.qty = NetOf(u, Len(u))
  BY <1>1, <1>2, NetOfGrows DEF u, L
<1>4. OpeningsOf(t) \subseteq 1 .. L
  BY <1>1, OpeningsGrow DEF L
<1>5. ASSUME r.qty # 0
      PROVE  \E m \in OpeningsOf(u) : /\ \A k \in OpeningsOf(u) : m >= k
                                      /\ Within(PricesOf(u, m, r.qty), r)
  <2>1. CASE Sign(r.qty) = Sign(p.qty)
    <3>1. p.qty # 0
      BY <1>1, <1>2, <1>5, <2>1 DEF Sign
    <3>2. PICK m \in OpeningsOf(t) : /\ \A k \in OpeningsOf(t) : m >= k
                                     /\ Within(PricesOf(t, m, p.qty), p)
      BY <3>1 DEF Accounts
    <3>3. OpeningsOf(u) = OpeningsOf(t)
      BY <1>1, <1>2, <2>1, OpeningsGrow DEF u, L
    <3>4. m \in 1 .. (L + 1)
      BY <1>1, <1>4
    <3>5. /\ PricesOf(t, m, p.qty) \subseteq PricesOf(u, m, r.qty)
          /\ Sign(q) = Sign(r.qty) => y \in PricesOf(u, m, r.qty)
          /\ PricesOf(t, m, p.qty) \subseteq Int
      BY <1>1, <2>1, <3>4, PricesGrow DEF u, L
    <3>6. PricesOf(u, m, r.qty) \in SUBSET Int
      BY <1>1, <3>4, PricesAreNumbers
    <3>7. Sign(p.qty + q) = Sign(p.qty) /\ (Sign(q) = Sign(p.qty) => y \in PricesOf(u, m, r.qty))
      BY <1>2, <2>1, <3>5
    <3>8. Within(PricesOf(u, m, r.qty), r)
      BY <1>1, <3>1, <3>2, <3>5, <3>6, <3>7, FoldKeepsWithin DEF r
    <3> QED BY <3>2, <3>3, <3>8
  <2>2. CASE Sign(r.qty) # Sign(p.qty)
    <3>1. OpeningsOf(u) = OpeningsOf(t) \cup {L + 1}
      BY <1>1, <1>2, <2>2, OpeningsGrow DEF u, L
    <3>2. \A k \in OpeningsOf(u) : L + 1 >= k
      BY <1>1, <1>4, <3>1
    <3>3. Sign(q) = Sign(r.qty)
      BY <1>1, <1>2, <1>5, <2>2 DEF Sign
    <3>4. L + 1 \in 1 .. (L + 1)
      BY <1>1
    <3>5. y \in PricesOf(u, L + 1, r.qty)
      BY <1>1, <3>3, <3>4, PricesGrow DEF u, L
    <3>6. PricesOf(u, L + 1, r.qty) \in SUBSET Int
      BY <1>1, <3>4, PricesAreNumbers
    <3>7. p.qty = 0 => p = Flat
      BY DEF Accounts
    <3>8. Within(PricesOf(u, L + 1, r.qty), r)
      BY <1>1, <1>2, <1>5, <2>2, <3>5, <3>6, <3>7, FoldOpensWithin DEF r
    <3> QED BY <3>1, <3>2, <3>8
  <2> QED BY <2>1, <2>2
<1> QED BY <1>1, <1>2, <1>3, <1>5 DEF Accounts, x, u, r

\* The last opening is the one OpenedAt chooses.
LEMMA AccountsMeans ==
  ASSUME TrailInv
  PROVE  BasisWithinPricesPaid
<1> DEFINE O == OpeningsOf(trail)
<1>1. /\ trail \in Seq(Fill) /\ pos \in Position /\ pos.qty = NetOf(trail, Len(trail))
      /\ pos.qty = 0 => pos = Flat
  BY DEF TrailInv, Accounts
<1>2. \A n : Net(n) = NetOf(trail, n)
  BY DEF Net, NetOf, Signed
<1>3. {n \in DOMAIN trail : Sign(Net(n)) # Sign(Net(n - 1))} = O
  BY <1>2 DEF OpeningsOf
<1>4. ASSUME pos.qty # 0
      PROVE  /\ \E price \in PricesPaid : AtMostAverage(price)
             /\ \E price \in PricesPaid : AtLeastAverage(price)
  <2>1. PICK m \in O : (\A k \in O : m >= k) /\ Within(PricesOf(trail, m, pos.qty), pos)
    BY <1>4 DEF TrailInv, Accounts
  <2>2. O \subseteq Int
    <3>1. DOMAIN trail = 1 .. Len(trail)
      BY <1>1
    <3> QED BY <3>1 DEF OpeningsOf
  <2> HIDE DEF O
  <2>3. OpenedAt = (CHOOSE n \in O : \A k \in O : n >= k)
    BY <1>3 DEF OpenedAt, Max
  <2>4. OpenedAt \in O /\ \A k \in O : OpenedAt >= k
    BY <2>1, <2>3
  <2>5. OpenedAt = m
    BY <2>1, <2>2, <2>4
  <2>6. PricesPaid = PricesOf(trail, m, pos.qty)
    BY <2>5 DEF PricesPaid, PricesOf
  <2> QED BY <2>1, <2>6 DEF Within, AtMostAverage, AtLeastAverage
<1> QED BY <1>1, <1>2, <1>4 DEF BasisWithinPricesPaid

THEOREM InitAccounts == Init => TrailInv
<1> SUFFICES ASSUME Init PROVE TrailInv
  OBVIOUS
<1>1. pos = Flat /\ trail = << >> /\ Len(trail) = 0
  BY DEF Init
<1>2. NetOf(trail, 0) = 0
  <2>1. (1 .. 0) = {}
    OBVIOUS
  <2> QED BY <2>1, SumEmpty DEF NetOf
<1>3. Flat \in Position /\ Flat.qty = 0
  BY DEF Flat, Position
<1> QED BY <1>1, <1>2, <1>3 DEF TrailInv, Accounts

THEOREM StepKeepsAccounts == TrailInv /\ [FoldFill]_vars => TrailInv'
<1> SUFFICES ASSUME TrailInv, [FoldFill]_vars PROVE TrailInv'
  OBVIOUS
<1>1. CASE FoldFill
  <2>1. PICK q \in Quantities, price \in Prices :
          pos' = Fold(pos, q, price) /\ trail' = Append(trail, <<q, price>>)
    BY <1>1 DEF FoldFill
  <2> QED BY <2>1, StepAccounts DEF TrailInv
<1>2. CASE UNCHANGED vars
  BY <1>2 DEF vars, TrailInv
<1> QED BY <1>1, <1>2

THEOREM TrailInvariant == Spec => []TrailInv
BY InitAccounts, StepKeepsAccounts, PTL DEF Spec

\* However a position came about - through additions, reductions, closings and
\* flips, of any number - its quantity is the net of the fills of _fold and its
\* average lies between the lowest and the highest price paid for what is still
\* held: nothing of an earlier position is left in it.
THEOREM AverageIsOfWhatIsHeld == Spec => []BasisWithinPricesPaid
BY TrailInvariant, AccountsMeans, PTL

\* A fill that is executed in two parts at one price leaves every position that
\* the fold can reach as if it had come in one.
THEOREM PartsAgree == Spec => []SplitFillsAgree
<1>1. ASSUME TrailInv PROVE SplitFillsAgree
  <2> SUFFICES ASSUME NEW q \in Quantities, NEW r \in Quantities, NEW price \in Prices, q * r > 0
               PROVE  SamePosition(Fold(Fold(pos, q, price), r, price), Fold(pos, q + r, price))
    BY DEF SplitFillsAgree
  <2>1. pos \in Position /\ q \in Int /\ r \in Int /\ price \in Int
    BY <1>1, TrailAssumption DEF TrailInv, Accounts
  <2>2. \A i, j \in Int : i * j > 0 => (i > 0 <=> j > 0) /\ i # 0 /\ j # 0
    BY SMTT(30)
  <2>3. Parts(q, r)
    BY <2>1, <2>2 DEF Parts
  <2> QED BY <2>1, <2>3, SplitFill
<1> QED BY <1>1, TrailInvariant, PTL
=============================================================================
