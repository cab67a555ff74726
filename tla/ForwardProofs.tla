---------------------------- MODULE ForwardProofs ----------------------------
(***************************************************************************)
(* The forward book of ForwardAttribution for any curves, any instruments, *)
(* any number of sessions and any blotter the generator can write: what    *)
(* the curves' moves are, which volumes are threaded through the sessions, *)
(* and what the P&L of a session is made of.                               *)
(***************************************************************************)
EXTENDS ForwardAttribution, RecursionAndSums

-----------------------------------------------------------------------------
(* The curves.                                                             *)

Values == [1 .. Points -> Int]
CurveRecords == [grid_sod : Values, level_delta : Int, shape_delta : Values, grid_eod : Values]

\* The close is the open moved by the level, the same at all points, and by the
\* shape, which leaves the sum over the points alone.
Moved(cs) ==
  /\ \A k \in 1 .. Points : cs.grid_eod[k] = cs.grid_sod[k] + cs.level_delta + cs.shape_delta[k]
  /\ Total(cs.grid_eod) = Total(cs.grid_sod) + Points * cs.level_delta

Chained(list, base) ==
  \A t \in 1 .. Len(list) :
    list[t].grid_sod = IF t = 1 THEN base ELSE list[t - 1].grid_eod

CurveInv ==
  /\ curves \in [Range(Commodities) -> Seq(CurveRecords)]
  /\ \A c \in Range(Commodities) :
       /\ Len(curves[c]) <= NSessions
       /\ \A t \in 1 .. Len(curves[c]) : Moved(curves[c][t])
       /\ Chained(curves[c], BaseCurve[c])

LEMMA PointsType == Points \in Nat /\ Points > 1 /\ DOMAIN Grid = 1 .. Points /\ \A k \in 1 .. Points : Grid[k] \in Int
  BY CurveAssumption DEF Points

\* A sum over the points of a curve.
LEMMA TotalType ==
  ASSUME NEW v \in Values
  PROVE  Total(v) \in Int /\ Total(v) = SumFunctionOnSet(v, 1 .. Points)
<1>1. DOMAIN v = 1 .. Points /\ \A k \in 1 .. Points : v[k] \in Int
  BY DEF Values
<1>2. IsFiniteSet(1 .. Points)
  BY PointsType, FS_Interval
<1>3. SumFunctionOnSet(v, 1 .. Points) \in Int
  BY <1>1, <1>2, SumType
<1> QED BY <1>1, <1>3 DEF Total, SumFunction

\* The mean is taken out of the shape, so that only the level moves the sum.
LEMMA CurveSessionMoves ==
  ASSUME NEW open \in Values, NEW draw \in LevelDraws, NEW raw \in ShapeDraws
  PROVE  /\ CurveSession(open, draw, raw) \in CurveRecords
         /\ CurveSession(open, draw, raw).grid_sod = open
         /\ Moved(CurveSession(open, draw, raw))
<1> DEFINE cs == CurveSession(open, draw, raw)
           sum == Total(raw)
<1>1. draw \in Int /\ raw \in Values /\ Points \in Nat
  BY DrawsAssumption, PointsType DEF Values
<1>2. sum \in Int /\ sum = SumFunctionOnSet(raw, 1 .. Points)
  BY <1>1, TotalType
<1>3. open \in Values /\ \A k \in 1 .. Points : open[k] \in Int /\ raw[k] \in Int
  BY <1>1 DEF Values
<1> HIDE DEF sum
<1>4. /\ cs.grid_sod = open /\ cs.level_delta = Points * draw
      /\ cs.shape_delta = [k \in 1 .. Points |-> Points * raw[k] - sum]
      /\ cs.grid_eod = [k \in 1 .. Points |-> open[k] + Points * draw + (Points * raw[k] - sum)]
      /\ cs = [grid_sod |-> cs.grid_sod, level_delta |-> cs.level_delta,
               shape_delta |-> cs.shape_delta, grid_eod |-> cs.grid_eod]
  BY DEF CurveSession, sum
<1> HIDE DEF cs
<1>5. cs.level_delta \in Int /\ cs.shape_delta \in Values /\ cs.grid_eod \in Values
  <2>1. Points * draw \in Int /\ \A k \in 1 .. Points : Points * raw[k] \in Int
    BY <1>1, <1>3
  <2>2. \A k \in 1 .. Points : Points * raw[k] - sum \in Int /\ open[k] + Points * draw + (Points * raw[k] - sum) \in Int
    BY <1>2, <1>3, <2>1
  <2> QED BY <1>4, <2>1, <2>2 DEF Values
<1>6. cs \in CurveRecords
  BY <1>3, <1>4, <1>5 DEF CurveRecords
<1>7. \A k \in 1 .. Points : cs.grid_eod[k] = cs.grid_sod[k] + cs.level_delta + cs.shape_delta[k]
  BY <1>4
<1>8. Total(cs.grid_eod) = Total(open) + Points * (Points * draw)
  <2> DEFINE c == Points * draw - sum
             f == open
             h == cs.grid_eod
  <2>1. c \in Int
    BY <1>1, <1>2
  <2>2. \A k \in 1 .. Points : h[k] = f[k] + Points * raw[k] + c
    <3> SUFFICES ASSUME NEW k \in 1 .. Points PROVE h[k] = f[k] + Points * raw[k] + c
      OBVIOUS
    <3>1. h[k] = open[k] + Points * draw + (Points * raw[k] - sum)
      BY <1>4
    <3>2. Points * draw \in Int /\ Points * raw[k] \in Int /\ open[k] \in Int
      BY <1>1, <1>3
    <3> QED BY <1>2, <3>1, <3>2
  <2>3. IsFiniteSet(1 .. Points) /\ Cardinality(1 .. Points) = Points
    BY <1>1, FS_Interval
  <2>4. Total(h) = SumFunctionOnSet(h, 1 .. Points) /\ Total(f) = SumFunctionOnSet(f, 1 .. Points) /\ Total(f) \in Int
    BY <1>3, <1>5, TotalType
  <2> HIDE DEF c, f, h
  <2>5. SumFunctionOnSet(h, 1 .. Points)
        = SumFunctionOnSet(f, 1 .. Points) + Points * SumFunctionOnSet(raw, 1 .. Points)
          + c * Cardinality(1 .. Points)
    <3> DEFINE S == 1 .. Points
    <3>1. \A k \in S : f[k] \in Int /\ raw[k] \in Int /\ h[k] = f[k] + Points * raw[k] + c
      BY <1>3, <2>2 DEF f
    <3>2. IsFiniteSet(S) /\ Points \in Int
      BY <1>1, <2>3
    <3> HIDE DEF S
    <3>3. SumFunctionOnSet(h, S)
          = SumFunctionOnSet(f, S) + Points * SumFunctionOnSet(raw, S) + c * Cardinality(S)
      BY ONLY <2>1, <3>1, <3>2, SumCombination
    <3> QED BY <3>3 DEF S
  <2>6. Total(h) = Total(f) + Points * sum + (Points * draw - sum) * Points
    BY <1>2, <2>3, <2>4, <2>5 DEF c
  <2>7. \A s, n, d, t \in Int : t + n * s + (n * d - s) * n = t + n * (n * d)
    BY SMTT(30)
  <2> QED BY <1>1, <1>2, <2>4, <2>6, <2>7 DEF f, h
<1> QED BY <1>4, <1>6, <1>7, <1>8 DEF cs, Moved

LEMMA OpeningIsACurve ==
  ASSUME CurveInv, NEW c \in Range(Commodities)
  PROVE  OpeningGrid(c) \in Values
<1>1. BaseCurve[c] \in Values /\ curves[c] \in Seq(CurveRecords)
  BY DrawsAssumption DEF Values, CurveInv
<1>2. CASE curves[c] # << >>
  <2>1. Len(curves[c]) \in 1 .. Len(curves[c])
    BY <1>1, <1>2
  <2>2. curves[c][Len(curves[c])] \in CurveRecords
    BY <1>1, <2>1
  <2> QED BY <1>2, <2>2 DEF OpeningGrid, Last, CurveRecords
<1> QED BY <1>1, <1>2 DEF OpeningGrid

\* A session's curve opens where the one before closed.
LEMMA CurveIsContinued ==
  ASSUME NEW base, NEW list \in Seq(CurveRecords), \A t \in 1 .. Len(list) : Moved(list[t]),
         Chained(list, base), NEW cs \in CurveRecords, Moved(cs),
         cs.grid_sod = IF list = << >> THEN base ELSE Last(list).grid_eod
  PROVE  /\ \A t \in 1 .. Len(Append(list, cs)) : Moved(Append(list, cs)[t])
         /\ Chained(Append(list, cs), base)
<1> DEFINE more == Append(list, cs)
           n == Len(list)
<1>1. /\ n \in Nat /\ Len(more) = n + 1 /\ more[n + 1] = cs
      /\ \A t \in 1 .. n : more[t] = list[t]
  OBVIOUS
<1>2. list = << >> <=> n = 0
  OBVIOUS
<1>3. cs.grid_sod = IF n = 0 THEN base ELSE list[n].grid_eod
  BY <1>2 DEF Last
<1> HIDE DEF more, n
<1>4. \A t \in 1 .. (n + 1) : t \in 1 .. n \/ t = n + 1
  BY <1>1
<1>5. \A t \in 1 .. (n + 1) : Moved(more[t])
  BY <1>1, <1>4 DEF n
<1>6. \A t \in 1 .. (n + 1) : more[t].grid_sod = IF t = 1 THEN base ELSE more[t - 1].grid_eod
  <2> SUFFICES ASSUME NEW t \in 1 .. (n + 1)
               PROVE  more[t].grid_sod = IF t = 1 THEN base ELSE more[t - 1].grid_eod
    OBVIOUS
  <2>1. t # 1 => t - 1 \in 1 .. n
    BY <1>1
  <2>2. CASE t \in 1 .. n
    BY <1>1, <2>1, <2>2 DEF Chained, n
  <2>3. CASE t = n + 1
    <3>1. t = 1 <=> n = 0
      BY <1>1, <2>3
    <3>2. n # 0 => t - 1 = n /\ more[t - 1] = list[n]
      BY <1>1, <2>1, <2>3
    <3> QED BY <1>1, <1>3, <2>3, <3>1, <3>2
  <2> QED BY <1>4, <2>2, <2>3
<1> QED BY <1>1, <1>5, <1>6 DEF Chained, more

LEMMA DrawKeepsCurves == CurveInv /\ DrawSession => CurveInv'
<1> SUFFICES ASSUME CurveInv, DrawSession PROVE CurveInv'
  OBVIOUS
<1>1. PICK k \in DOMAIN Commodities, draw \in LevelDraws, raw \in ShapeDraws :
        /\ Len(curves[Commodities[k]]) < NSessions
        /\ curves' = [curves EXCEPT ![Commodities[k]] =
                         Append(@, CurveSession(OpeningGrid(Commodities[k]), draw, raw))]
  BY DEF DrawSession
<1> DEFINE c == Commodities[k]
           cs == CurveSession(OpeningGrid(c), draw, raw)
           more == Append(curves[c], cs)
<1>2. c \in Range(Commodities)
  BY DEF Range
<1>3. cs \in CurveRecords /\ cs.grid_sod = OpeningGrid(c) /\ Moved(cs)
  BY <1>2, OpeningIsACurve, CurveSessionMoves
<1>4. curves[c] \in Seq(CurveRecords) /\ NSessions \in Nat /\ DOMAIN curves = Range(Commodities)
  BY <1>2, DrawsAssumption DEF CurveInv
<1>5. more \in Seq(CurveRecords) /\ Len(more) <= NSessions
  <2> HIDE DEF cs
  <2>1. more \in Seq(CurveRecords) /\ Len(more) = Len(curves[c]) + 1
    BY <1>3, <1>4
  <2> QED BY <1>1, <1>4, <2>1
<1>6. (\A t \in 1 .. Len(more) : Moved(more[t])) /\ Chained(more, BaseCurve[c])
  <2> HIDE DEF cs
  <2> QED BY <1>2, <1>3, <1>4, CurveIsContinued DEF CurveInv, OpeningGrid
<1>7. curves' = [curves EXCEPT ![c] = more]
  BY <1>1
<1> HIDE DEF c, cs, more
<1>8. curves'[c] = more /\ \A d \in Range(Commodities) : d # c => curves'[d] = curves[d]
  BY <1>2, <1>4, <1>7
<1>9. curves' \in [Range(Commodities) -> Seq(CurveRecords)]
  BY <1>2, <1>5, <1>7 DEF CurveInv
<1>10. ASSUME NEW d \in Range(Commodities)
       PROVE  /\ Len(curves'[d]) <= NSessions
              /\ \A t \in 1 .. Len(curves'[d]) : Moved(curves'[d][t])
              /\ Chained(curves'[d], BaseCurve[d])
  BY <1>5, <1>6, <1>8 DEF CurveInv
<1> QED BY <1>9, <1>10 DEF CurveInv

LEMMA NextKeepsCurves == CurveInv /\ [Next]_vars => CurveInv'
<1> SUFFICES ASSUME CurveInv, [Next]_vars PROVE CurveInv'
  OBVIOUS
<1>1. CASE DrawSession
  BY <1>1, DrawKeepsCurves
<1>2. CASE UNCHANGED curves
  BY <1>2 DEF CurveInv
<1> QED BY <1>1, <1>2 DEF Next, vars, BuildCurves, BookDeal, AttributeSession, NextInstrument,
                          Summarise, Returned

LEMMA CurvesInvariant == Spec => []CurveInv
<1>1. Init => CurveInv
  <2>1. Init => curves = [c \in Range(Commodities) |-> << >>] /\ NSessions \in Nat
    BY DrawsAssumption DEF Init, NoCurves
  <2>2. << >> \in Seq(CurveRecords) /\ Len(<< >>) = 0 /\ 1 .. 0 = {}
    OBVIOUS
  <2> SUFFICES ASSUME Init PROVE CurveInv
    OBVIOUS
  <2>3. curves \in [Range(Commodities) -> Seq(CurveRecords)]
    BY <2>1, <2>2
  <2>4. \A c \in Range(Commodities) : curves[c] = << >>
    BY <2>1
  <2> QED BY <2>1, <2>2, <2>3, <2>4 DEF CurveInv, Chained
<1> QED BY <1>1, NextKeepsCurves, PTL DEF Spec

\* Over any chained curves the levels account for the drift of the sum.
LEMMA LevelsAddUp ==
  ASSUME NEW base \in Values, NEW list \in Seq(CurveRecords), list # << >>,
         \A t \in 1 .. Len(list) : Moved(list[t]), Chained(list, base)
  PROVE  Total(Last(list).grid_eod) - Total(base)
         = Points * Total([k \in DOMAIN list |-> list[k].level_delta])
<1> DEFINE n == Len(list)
           v == [t \in 0 .. n |-> IF t = 0 THEN Total(base) ELSE Total(list[t].grid_eod)]
           moves == [t \in 1 .. n |-> Points * list[t].level_delta]
           levels == [k \in DOMAIN list |-> list[k].level_delta]
           S == 1 .. n
<1>1. n \in Nat /\ n > 0 /\ DOMAIN list = S
  OBVIOUS
<1>2. \A t \in S : /\ list[t].grid_eod \in Values /\ list[t].level_delta \in Int
                   /\ list[t].grid_sod \in Values
  <2>1. \A t \in S : list[t] \in CurveRecords
    OBVIOUS
  <2> HIDE DEF S
  <2> QED BY <2>1 DEF CurveRecords
<1>3. \A t \in 0 .. n : v[t] \in Int
  <2> SUFFICES ASSUME NEW t \in 0 .. n PROVE v[t] \in Int
    OBVIOUS
  <2>1. CASE t = 0
    BY <2>1, TotalType
  <2>2. CASE t # 0
    <3>1. t \in S
      BY <2>2
    <3> QED BY <2>2, <3>1, <1>2, TotalType
  <2> QED BY <2>1, <2>2
<1>4. \A t \in S : Points * list[t].level_delta \in Int
  BY <1>2, PointsType
<1>5. \A t \in S : moves[t] = v[t] - v[t - 1]
  <2> SUFFICES ASSUME NEW t \in S PROVE moves[t] = v[t] - v[t - 1]
    OBVIOUS
  <2>1. Total(list[t].grid_eod) = Total(list[t].grid_sod) + Points * list[t].level_delta
    BY DEF Moved
  <2>2. v[t] = Total(list[t].grid_eod) /\ v[t - 1] = Total(list[t].grid_sod)
    <3>1. t \in 0 .. n /\ t # 0 /\ t - 1 \in 0 .. n /\ (t - 1 = 0 <=> t = 1)
      BY <1>1
    <3>2. list[t].grid_sod = IF t = 1 THEN base ELSE list[t - 1].grid_eod
      BY DEF Chained
    <3> QED BY <3>1, <3>2
  <2>3. v[t - 1] \in Int /\ Points * list[t].level_delta \in Int
    <3>1. t - 1 \in 0 .. n
      BY <1>1
    <3> HIDE DEF v, n
    <3> QED BY <1>3, <1>4, <3>1
  <2>4. moves[t] = Points * list[t].level_delta
    OBVIOUS
  <2> HIDE DEF v, moves
  <2> QED BY <2>1, <2>2, <2>3, <2>4
<1>6. Total(Last(list).grid_eod) = v[n] /\ Total(base) = v[0]
  BY <1>1 DEF Last
<1>7. SumFunctionOnSet(moves, S) = v[n] - v[0]
  <2>1. 0 .. (0 + n) = 0 .. n /\ (0 + 1) .. (0 + n) = S /\ 0 + n = n /\ 0 \in Int
    BY <1>1
  <2> DEFINE nn == 0 + n
  <2>2. nn = n
    BY <1>1
  <2> HIDE DEF v, moves, n, S
  <2>3. SumFunctionOnSet(moves, (0 + 1) .. (0 + n)) = v[0 + n] - v[0]
    <3>1. \A k \in 0 .. (0 + n) : v[k] \in Int
      BY <1>3, <2>1
    <3>2. \A k \in (0 + 1) .. (0 + n) : moves[k] = v[k] - v[k - 1]
      BY <1>5, <2>1
    <3> QED BY ONLY <1>1, <3>1, <3>2, SumTelescopes, 0 \in Int
  <2> QED BY <2>1, <2>3
<1>8. SumFunctionOnSet(moves, S) = Points * SumFunctionOnSet(levels, S)
  <2>1. \A k \in S : levels[k] \in Int /\ moves[k] = Points * levels[k]
    BY <1>1, <1>2
  <2>2. IsFiniteSet(S) /\ Points \in Int
    BY <1>1, PointsType, FS_Interval
  <2> HIDE DEF S, levels, moves
  <2> QED BY <2>1, <2>2, SumScaled
<1>9. Total(levels) = SumFunctionOnSet(levels, S)
  BY <1>1 DEF Total, SumFunction
<1> HIDE DEF v, moves, levels, S, n
<1> QED BY <1>6, <1>7, <1>8, <1>9 DEF levels

\* The drift of a curve's mean is that of its parallel moves, whatever the
\* shapes, the sessions and the grid (build_curve_sessions).
THEOREM LevelsAreParallel == Spec => []LevelIsParallelMove
<1>1. CurveInv => LevelIsParallelMove
  <2>1. \A c \in Range(Commodities) : BaseCurve[c] \in Values
    BY DrawsAssumption DEF Values
  <2> QED BY <2>1, LevelsAddUp DEF CurveInv, LevelIsParallelMove
<1> QED BY <1>1, CurvesInvariant, PTL

-----------------------------------------------------------------------------
(* Reading a curve between its points.                                     *)

\* A tenor inside the grid lies between two neighbouring points.
Between(tenor, k) == Grid[k] <= tenor /\ tenor <= Grid[k + 1]

LEMMA TenorIsBetween ==
  ASSUME NEW tenor \in Int, ~(tenor <= Grid[1]), ~(tenor >= Grid[Points])
  PROVE  \E k \in 1 .. Points - 1 : Between(tenor, k)
<1> DEFINE Above == {j \in 1 .. Points : tenor <= Grid[j]}
<1>1. Points \in Nat /\ Points > 1 /\ \A k \in 1 .. Points : Grid[k] \in Int
  BY PointsType
<1>2. Above \in SUBSET Nat /\ Points \in Above
  BY <1>1
<1>3. PICK m \in Above : \A k \in Above : m <= k
  <2> HIDE DEF Above
  <2> QED BY <1>2, LeastNat
<1>4. m \in 1 .. Points /\ tenor <= Grid[m]
  BY <1>3
<1>5. m # 1
  BY <1>4
<1>6. m - 1 \in 1 .. Points - 1 /\ m - 1 \in 1 .. Points /\ (m - 1) + 1 = m /\ ~(m <= m - 1)
  BY <1>1, <1>4, <1>5
<1>7. m - 1 \notin Above
  <2> HIDE DEF Above
  <2> QED BY <1>3, <1>6
<1>8. ~(tenor <= Grid[m - 1]) /\ Grid[m - 1] \in Int
  BY <1>1, <1>6, <1>7
<1>9. Grid[m - 1] <= tenor
  BY <1>8
<1> QED BY <1>4, <1>6, <1>9 DEF Between

\* What is read at a tenor is linear in the values read.
LEMMA InterpIsLinear ==
  ASSUME NEW tenor \in Int, NEW open \in Values, NEW shape \in Values, NEW close \in Values,
         NEW level \in Int, \A k \in 1 .. Points : close[k] = open[k] + level + shape[k]
  PROVE  /\ Interp(open, tenor) \in Int /\ Interp(shape, tenor) \in Int /\ Interp(close, tenor) \in Int
         /\ Interp(close, tenor) = Interp(open, tenor) + Scale * level + Interp(shape, tenor)
<1>1. Points \in Nat /\ Points > 1 /\ Scale \in Nat /\ \A k \in 1 .. Points : Grid[k] \in Int
  BY PointsType, CurveAssumption
<1>2. \A k \in 1 .. Points : open[k] \in Int /\ shape[k] \in Int /\ close[k] \in Int
  BY DEF Values
<1>3. \A s, a, b, c \in Int : s * (a + b + c) = s * a + s * b + s * c /\ s * a \in Int
  BY SMTT(30)
<1>4. ASSUME NEW k \in 1 .. Points
      PROVE  /\ Scale * open[k] \in Int /\ Scale * shape[k] \in Int /\ Scale * close[k] \in Int
             /\ Scale * close[k] = Scale * open[k] + Scale * level + Scale * shape[k]
  BY <1>1, <1>2, <1>3
<1>5. CASE tenor <= Grid[1]
  <2>1. 1 \in 1 .. Points
    BY <1>1
  <2> QED BY <1>4, <1>5, <2>1 DEF Interp
<1>6. CASE ~(tenor <= Grid[1]) /\ tenor >= Grid[Points]
  <2>1. Points \in 1 .. Points
    BY <1>1
  <2> QED BY <1>4, <1>6, <2>1 DEF Interp
<1>7. CASE ~(tenor <= Grid[1]) /\ ~(tenor >= Grid[Points])
  <2> DEFINE k == CHOOSE j \in 1 .. Points - 1 : Grid[j] <= tenor /\ tenor <= Grid[j + 1]
             w == tenor - Grid[k]
             q == Scale \div Gap(k)
             At(v) == v[k] * (Gap(k) - w) + v[k + 1] * w
  <2>1. k \in 1 .. Points - 1
    BY <1>7, TenorIsBetween DEF Between
  <2>2. \A v : Interp(v, tenor) = q * At(v)
    BY <1>7 DEF Interp
  <2> HIDE DEF k
  <2>3. k \in 1 .. Points /\ k + 1 \in 1 .. Points
    BY <1>1, <2>1
  <2>4. w \in Int /\ Gap(k) \in Int /\ Gap(k) > 0 /\ Scale % Gap(k) = 0
    BY <1>1, <2>1, <2>3, CurveAssumption DEF Gap
  <2>5. q \in Int /\ q * Gap(k) = Scale
    <3>1. \A g \in Int : g > 0 /\ Scale % g = 0 => Scale \div g \in Int /\ (Scale \div g) * g = Scale
      BY <1>1, SMTT(30)
    <3> QED BY <2>4, <3>1
  <2> HIDE DEF w, q
  <2>6. \A o1, o2, s1, s2, g, ww \in Int :
          (o1 + level + s1) * (g - ww) + (o2 + level + s2) * ww
          = (o1 * (g - ww) + o2 * ww) + g * level + (s1 * (g - ww) + s2 * ww)
    BY SMTT(30)
  <2>7. \A o1, o2, g, ww \in Int : o1 * (g - ww) + o2 * ww \in Int
    BY SMTT(30)
  <2>8. At(open) \in Int /\ At(shape) \in Int /\ At(close) \in Int
    BY <1>2, <2>3, <2>4, <2>7
  <2>9. At(close) = At(open) + Gap(k) * level + At(shape)
    BY <1>2, <2>3, <2>4, <2>6
  <2> HIDE DEF At
  <2>10. q * At(close) = q * At(open) + q * (Gap(k) * level) + q * At(shape)
    <3>1. Gap(k) * level \in Int
      BY <2>4
    <3> QED BY <1>3, <2>5, <2>8, <2>9, <3>1
  <2>11. q * (Gap(k) * level) = Scale * level
    <3>1. \A a, b, c \in Int : a * (b * c) = (a * b) * c
      BY SMTT(30)
    <3> QED BY <2>4, <2>5, <3>1
  <2>12. q * At(open) \in Int /\ q * At(shape) \in Int /\ q * At(close) \in Int
    BY <1>3, <2>5, <2>8
  <2> QED BY <2>2, <2>10, <2>11, <2>12
<1> QED BY <1>5, <1>6, <1>7

-----------------------------------------------------------------------------
(* The blotter.                                                            *)

Actions == {"new", "amend", "cancel"}
Records == [id : Range(Universe) \X Nat, sequence : Nat, action : Actions,
            instrument : Range(Universe), volume : Int, trade_price : Int \cup {NoValue},
            session : Nat]
\* A deal keeps its instrument, and what opens it has a price.
DealSet == {m \in Records : m.id[1] = m.instrument /\ (m.action = "new" => m.trade_price \in Int)}

Turns ==
  /\ session \in 0 .. NSessions /\ turn \in 1 .. Len(Universe) /\ left \in Nat
  /\ left > 0 => session < NSessions
  /\ left > 0 \/ session > 0 => Built

Opened ==
  /\ numbered \in [Range(Universe) -> Nat]
  /\ DOMAIN openDeals = Range(Universe)
  /\ \A x \in Range(Universe) : \A d \in DOMAIN openDeals[x] :
       d \in {x} \X Nat /\ openDeals[x][d] \in Int

InOrder(list) ==
  \A j, k \in 1 .. Len(list) : j < k /\ list[j].instrument = list[k].instrument =>
    list[j].sequence < list[k].sequence /\ list[j].session <= list[k].session

Written ==
  /\ deals \in Seq(DealSet)
  /\ \A k \in 1 .. Len(deals) :
       /\ deals[k].sequence <= numbered[deals[k].instrument]
       /\ deals[k].session <= session /\ deals[k].session < NSessions
  /\ InOrder(deals)

BlotterInv == Turns /\ Opened /\ Written

LEMMA UniverseType ==
  /\ Len(Universe) \in Nat /\ Len(Universe) > 0 /\ DOMAIN Universe = 1 .. Len(Universe)
  /\ \A k \in 1 .. Len(Universe) : Universe[k] \in Range(Universe)
  /\ \A j, k \in 1 .. Len(Universe) : Universe[j] = Universe[k] => j = k
  /\ Blotter!Instruments = Range(Universe)
<1>1. Len(Universe) \in Nat /\ Len(Universe) > 0 /\ DOMAIN Universe = 1 .. Len(Universe)
  BY BookAssumption
<1>2. \A k \in 1 .. Len(Universe) : Universe[k] \in Range(Universe)
  BY <1>1 DEF Range
<1>3. \A j, k \in 1 .. Len(Universe) : Universe[j] = Universe[k] => j = k
  BY <1>1, BookAssumption DEF IsInjective
<1> QED BY <1>1, <1>2, <1>3 DEF Range, Blotter!Instruments

\* The next message of an instrument goes to the end of its list.
LEMMA AppendInOrder ==
  ASSUME NEW list \in Seq(DealSet), InOrder(list), NEW m \in DealSet,
         \A k \in 1 .. Len(list) : list[k].instrument = m.instrument =>
            list[k].sequence < m.sequence /\ list[k].session <= m.session
  PROVE  InOrder(Append(list, m))
<1> DEFINE more == Append(list, m)
           n == Len(list)
<1>1. /\ n \in Nat /\ Len(more) = n + 1 /\ more[n + 1] = m
      /\ \A k \in 1 .. n : more[k] = list[k]
  OBVIOUS
<1> HIDE DEF more, n
<1>2. \A j, k \in 1 .. (n + 1) : j < k => j \in 1 .. n /\ (k \in 1 .. n \/ k = n + 1)
  BY <1>1
<1>3. ASSUME NEW j \in 1 .. (n + 1), NEW k \in 1 .. (n + 1), j < k,
             more[j].instrument = more[k].instrument
      PROVE  more[j].sequence < more[k].sequence /\ more[j].session <= more[k].session
  <2>1. j \in 1 .. n /\ more[j] = list[j]
    BY <1>1, <1>2, <1>3
  <2>2. CASE k \in 1 .. n
    BY <1>1, <1>3, <2>1, <2>2 DEF InOrder, n
  <2>3. CASE k = n + 1
    BY <1>1, <1>3, <2>1, <2>3 DEF n
  <2> QED BY <1>2, <1>3, <2>2, <2>3
<1> QED BY <1>1, <1>3 DEF InOrder, more

\* A message of the generator, whatever it does to its deal.
LEMMA AppendKeepsBlotter ==
  ASSUME BlotterInv, left > 0, NEW id \in {Blotter!Current} \X Nat, NEW action \in Actions,
         NEW v \in Int, NEW price \in Int \cup {NoValue}, action = "new" => price \in Int,
         NEW open, \A d \in DOMAIN open : d \in {Blotter!Current} \X Nat /\ open[d] \in Int,
         Blotter!Append1(id, action, v, price, open), Blotter!Advance, UNCHANGED curves
  PROVE  BlotterInv'
<1> DEFINE x == Universe[turn]
           m == [id |-> id, sequence |-> numbered[x] + 1, action |-> action, instrument |-> x,
                 volume |-> v, trade_price |-> price, session |-> session]
<1> USE DEF BlotterInv
<1>1. x \in Range(Universe) /\ Blotter!Current = x /\ numbered[x] \in Nat
  BY UniverseType DEF Turns, Opened, Blotter!Current
<1>2. /\ deals' = Append(deals, m)
      /\ openDeals' = [openDeals EXCEPT ![x] = open]
      /\ numbered' = [numbered EXCEPT ![x] = @ + 1]
      /\ left' = left - 1
      /\ turn' = IF left = 1 THEN (turn % Len(Universe)) + 1 ELSE turn
      /\ session' = IF left = 1 /\ turn = Len(Universe) THEN session + 1 ELSE session
  BY DEF Blotter!Append1, Blotter!Advance, Blotter!Current
<1>3. Turns'
  <2>1. session \in 0 .. NSessions /\ session < NSessions /\ left \in Nat /\ turn \in 1 .. Len(Universe)
        /\ NSessions \in Nat /\ Built /\ Built'
    BY DrawsAssumption DEF Turns, Built
  <2>2. (turn % Len(Universe)) + 1 \in 1 .. Len(Universe)
    <3>1. \A n, k \in Nat : n > 0 => (k % n) + 1 \in 1 .. n
      BY SMTT(30)
    <3>2. turn \in Nat
      BY <2>1, UniverseType
    <3> QED BY <3>1, <3>2, UniverseType
  <2> QED BY <1>2, <2>1, <2>2 DEF Turns
<1>4. /\ numbered' \in [Range(Universe) -> Nat] /\ numbered'[x] = numbered[x] + 1
      /\ \A y \in Range(Universe) : numbered'[y] >= numbered[y] /\ numbered[y] \in Nat
  BY <1>1, <1>2 DEF Opened
<1>5. Opened'
  <2>1. DOMAIN openDeals' = Range(Universe)
    BY <1>2 DEF Opened
  <2>2. \A y \in Range(Universe) : openDeals'[y] = IF y = x THEN open ELSE openDeals[y]
    BY <1>2 DEF Opened
  <2>3. \A d \in DOMAIN open : d \in {x} \X Nat /\ open[d] \in Int
    BY <1>1
  <2>4. ASSUME NEW y \in Range(Universe), NEW d \in DOMAIN openDeals'[y]
        PROVE  d \in {y} \X Nat /\ openDeals'[y][d] \in Int
    <3> HIDE DEF x
    <3> QED BY <2>2, <2>3 DEF Opened
  <2> QED BY <1>4, <2>1, <2>4 DEF Opened
<1>6. m \in DealSet
  <2>1. /\ id \in Range(Universe) \X Nat /\ id[1] = x
        /\ numbered[x] + 1 \in Nat /\ session \in Nat
    BY <1>1, DrawsAssumption DEF Turns
  <2>2. m \in Records /\ m.id = id /\ m.instrument = x /\ m.action = action /\ m.trade_price = price
    <3> HIDE DEF x
    <3> QED BY <1>1, <2>1 DEF Records
  <2> HIDE DEF m, x
  <2> QED BY <2>1, <2>2 DEF DealSet
<1>7. m.instrument = x /\ m.sequence = numbered[x] + 1 /\ m.session = session
  OBVIOUS
<1> HIDE DEF m, x
<1>8. deals \in Seq(DealSet) /\ Len(deals) \in Nat
  BY DEF Written
<1>9. session' >= session /\ session \in Nat /\ session' \in Nat /\ session < NSessions
  BY <1>2, DrawsAssumption DEF Turns
<1>10. \A k \in 1 .. Len(deals) :
         /\ deals[k] \in DealSet /\ deals[k].instrument \in Range(Universe)
         /\ deals[k].sequence \in Nat /\ deals[k].session \in Nat
         /\ deals[k].sequence <= numbered[deals[k].instrument]
         /\ deals[k].session <= session /\ deals[k].session < NSessions
  <2>1. \A k \in 1 .. Len(deals) : deals[k] \in DealSet
    BY <1>8
  <2> QED BY <2>1 DEF Written, DealSet, Records
<1>11. Written'
  <2>1. /\ deals' \in Seq(DealSet) /\ Len(deals') = Len(deals) + 1 /\ deals'[Len(deals) + 1] = m
        /\ \A k \in 1 .. Len(deals) : deals'[k] = deals[k]
    BY <1>2, <1>6, <1>8
  <2>2. ASSUME NEW k \in 1 .. Len(deals')
        PROVE  /\ deals'[k].sequence <= numbered'[deals'[k].instrument]
               /\ deals'[k].session <= session' /\ deals'[k].session < NSessions
    <3>1. CASE k = Len(deals) + 1
      BY <1>1, <1>4, <1>7, <1>9, <2>1, <3>1
    <3>2. CASE k \in 1 .. Len(deals)
      <4> DEFINE d == deals[k]
      <4>1. /\ deals'[k] = d /\ d.instrument \in Range(Universe) /\ d.sequence \in Nat
            /\ d.session \in Nat /\ d.sequence <= numbered[d.instrument] /\ d.session <= session
            /\ d.session < NSessions
        BY <1>10, <2>1, <3>2
      <4> HIDE DEF d
      <4>2. numbered'[d.instrument] >= numbered[d.instrument] /\ numbered[d.instrument] \in Nat
            /\ numbered'[d.instrument] \in Nat
        BY <1>4, <4>1
      <4> QED BY <1>9, <4>1, <4>2
    <3>3. k \in 1 .. Len(deals) \/ k = Len(deals) + 1
      BY <1>8, <2>1
    <3> QED BY <3>1, <3>2, <3>3
  <2>3. InOrder(Append(deals, m))
    <3>1. \A k \in 1 .. Len(deals) : deals[k].instrument = m.instrument =>
            deals[k].sequence < m.sequence /\ deals[k].session <= m.session
      BY <1>1, <1>7, <1>10
    <3> QED BY <1>6, <1>8, <3>1, AppendInOrder DEF Written
  <2>4. InOrder(deals)'
    BY <1>2, <2>3 DEF InOrder
  <2> QED BY <2>1, <2>2, <2>4 DEF Written
<1> QED BY <1>3, <1>5, <1>11

LEMMA CurveIsRead ==
  ASSUME CurveInv, Built, NEW x \in Range(Universe), NEW t \in 0 .. NSessions - 1
  PROVE  /\ CurveOf(x, t) \in CurveRecords /\ Moved(CurveOf(x, t)) /\ TenorSod(x, t) \in Int
         /\ OpenMark(x, t) \in Int
         /\ t > 0 => CurveOf(x, t).grid_sod = CurveOf(x, t - 1).grid_eod
<1> DEFINE c == CommodityOf[x]
<1>1. c \in Range(Commodities) /\ NSessions \in Nat /\ TenorSod(x, t) \in Int
  BY BookAssumption, DrawsAssumption DEF TenorSod
<1>2. curves[c] \in Seq(CurveRecords) /\ Len(curves[c]) = NSessions
  BY <1>1 DEF CurveInv, Built
<1>3. t + 1 \in 1 .. Len(curves[c]) /\ (t + 1 = 1 <=> t = 0) /\ (t + 1) - 1 = t /\ (t - 1) + 1 = t
  BY <1>1, <1>2
<1>4. curves[c][t + 1] \in CurveRecords /\ Moved(curves[c][t + 1])
  BY <1>1, <1>2, <1>3 DEF CurveInv
<1>5. t > 0 => curves[c][t + 1].grid_sod = curves[c][t].grid_eod
  BY <1>1, <1>3 DEF CurveInv, Chained
<1>6. OpenMark(x, t) \in Int
  <2> DEFINE cs == CurveOf(x, t)
  <2>1. cs \in CurveRecords /\ Moved(cs)
    BY <1>4 DEF CurveOf
  <2> HIDE DEF cs
  <2>2. /\ cs.grid_sod \in Values /\ cs.shape_delta \in Values /\ cs.grid_eod \in Values
        /\ cs.level_delta \in Int
    BY <2>1 DEF CurveRecords
  <2>3. Interp(cs.grid_sod, TenorSod(x, t)) \in Int
    <3> DEFINE open == cs.grid_sod
               shape == cs.shape_delta
               close == cs.grid_eod
    <3>1. \A k \in 1 .. Points : close[k] = open[k] + cs.level_delta + shape[k]
      BY <2>1 DEF Moved
    <3>2. open \in Values /\ shape \in Values /\ close \in Values /\ cs.level_delta \in Int
      BY <2>2
    <3> HIDE DEF open, shape, close
    <3>3. Interp(open, TenorSod(x, t)) \in Int
      BY <1>1, <3>1, <3>2, InterpIsLinear
    <3> QED BY <3>3 DEF open
  <2> QED BY <2>3 DEF OpenMark, MarkSod, cs
<1> QED BY <1>1, <1>3, <1>4, <1>5, <1>6 DEF CurveOf

LEMMA BookKeepsBlotter == CurveInv /\ BlotterInv /\ BookDeal => BlotterInv'
<1> SUFFICES ASSUME CurveInv, BlotterInv, BookDeal PROVE BlotterInv'
  OBVIOUS
<1>1. Built /\ UNCHANGED curves
  BY DEF BookDeal
<1>2. Blotter!Current \in Range(Universe) /\ Blotter!Current = Universe[turn]
      /\ openDeals[Blotter!Current] = openDeals[Universe[turn]]
  BY UniverseType DEF BlotterInv, Turns, Blotter!Current
<1>3. CASE Blotter!DrawCount
  <2>1. session < NSessions
    BY <1>3, DrawsAssumption DEF Blotter!DrawCount, Blotter!Finished, BlotterInv, Turns
  <2>2. left' \in Nat /\ UNCHANGED <<session, turn, numbered, openDeals, deals>> /\ Built'
    BY <1>1, <1>3, BookAssumption DEF Blotter!DrawCount, Built
  <2> QED BY <1>1, <2>1, <2>2 DEF BlotterInv, Turns, Opened, Written, InOrder
<1> DEFINE x == Blotter!Current
           held == openDeals[x]
<1>4. \A d \in DOMAIN held : d \in {x} \X Nat /\ held[d] \in Int
  BY <1>2 DEF BlotterInv, Opened
<1>5. numbered[x] + 1 \in Nat
  BY <1>2 DEF BlotterInv, Opened
<1>6. ASSUME left > 0, NEW spread \in Spreads,
             Blotter!NewDeal(OpenMark(Universe[turn], session) + spread)
      PROVE  BlotterInv'
  <2> DEFINE price == OpenMark(Universe[turn], session) + spread
             id == <<x, numbered[x] + 1>>
  <2>1. price \in Int
    <3>1. session \in 0 .. NSessions - 1
      BY <1>6, DrawsAssumption DEF BlotterInv, Turns
    <3>2. OpenMark(Universe[turn], session) \in Int
      BY <1>1, <1>2, <3>1, CurveIsRead
    <3> QED BY <3>2, BookAssumption
  <2>2. PICK v \in Volumes :
          /\ Blotter!Append1(id, "new", v, price,
                             [d \in DOMAIN held \cup {id} |-> IF d = id THEN v ELSE held[d]])
          /\ Blotter!Advance
    BY <1>6 DEF Blotter!NewDeal
  <2> DEFINE open == [d \in DOMAIN held \cup {id} |-> IF d = id THEN v ELSE held[d]]
  <2>3. v \in Int /\ id \in {x} \X Nat
    BY <1>5, BookAssumption
  <2>4. \A d \in DOMAIN open : d \in {x} \X Nat /\ open[d] \in Int
    BY <1>4, <2>3
  <2> HIDE DEF open, price, id, held
  <2> QED BY <1>1, <1>6, <2>1, <2>2, <2>3, <2>4, AppendKeepsBlotter DEF Actions, open
<1>7. CASE Blotter!AmendDeal(NoValue)
  <2>1. PICK id \in DOMAIN held, change \in Changes :
          Blotter!Append1(id, "amend", held[id] + change, NoValue, [held EXCEPT ![id] = @ + change])
    BY <1>7 DEF Blotter!AmendDeal
  <2> DEFINE open == [held EXCEPT ![id] = @ + change]
  <2>2. left > 0 /\ Blotter!Advance
    BY <1>7 DEF Blotter!AmendDeal
  <2>3. id \in {x} \X Nat /\ held[id] + change \in Int /\ NoValue \in Int \cup {NoValue}
    BY <1>4, BookAssumption
  <2>4. \A d \in DOMAIN open : d \in {x} \X Nat /\ open[d] \in Int
    <3> HIDE DEF held
    <3> QED BY <1>4, <2>3
  <2> HIDE DEF open, held
  <2> QED BY <1>1, <2>1, <2>2, <2>3, <2>4, AppendKeepsBlotter DEF Actions, open
<1>8. CASE Blotter!CancelDeal(NoValue)
  <2>1. PICK id \in DOMAIN held :
          Blotter!Append1(id, "cancel", 0, NoValue, [d \in DOMAIN held \ {id} |-> held[d]])
    BY <1>8 DEF Blotter!CancelDeal
  <2> DEFINE open == [d \in DOMAIN held \ {id} |-> held[d]]
  <2>2. left > 0 /\ Blotter!Advance
    BY <1>8 DEF Blotter!CancelDeal
  <2>3. id \in {x} \X Nat /\ NoValue \in Int \cup {NoValue} /\ 0 \in Int
        /\ "cancel" \in Actions /\ "cancel" # "new"
    BY <1>4 DEF Actions
  <2>4. \A d \in DOMAIN open : d \in {x} \X Nat /\ open[d] \in Int
    BY <1>4
  <2>5. Blotter!Append1(id, "cancel", 0, NoValue, open)
    BY <2>1
  <2> HIDE DEF open, held
  <2> QED BY <1>1, <2>2, <2>3, <2>4, <2>5, AppendKeepsBlotter
<1> HIDE DEF x, held
<1> QED BY <1>3, <1>6, <1>7, <1>8 DEF BookDeal

\* Nothing else touches the blotter, and the curves do not change once built.
LEMMA BuiltStays == CurveInv /\ Built /\ [Next]_vars => UNCHANGED curves
<1> SUFFICES ASSUME CurveInv, Built, [Next]_vars PROVE UNCHANGED curves
  OBVIOUS
<1>1. ~DrawSession
  <2> SUFFICES ASSUME DrawSession PROVE FALSE
    OBVIOUS
  <2>1. PICK k \in DOMAIN Commodities : Len(curves[Commodities[k]]) < NSessions
    BY DEF DrawSession
  <2>2. Commodities[k] \in Range(Commodities) /\ NSessions \in Nat
    BY DrawsAssumption DEF Range
  <2> QED BY <2>1, <2>2 DEF Built
<1> QED BY <1>1 DEF Next, vars, BuildCurves, BookDeal, AttributeSession, NextInstrument,
                     Summarise, Returned

LEMMA NextKeepsBlotter == CurveInv /\ BlotterInv /\ [Next]_vars => BlotterInv'
<1> SUFFICES ASSUME CurveInv, BlotterInv, [Next]_vars PROVE BlotterInv'
  OBVIOUS
<1>1. CASE BookDeal
  BY <1>1, BookKeepsBlotter
<1>2. CASE UNCHANGED blotter
  <2>1. Built => Built'
    BY BuiltStays DEF Built
  <2> QED BY <1>2, <2>1 DEF blotter, BlotterInv, Turns, Opened, Written, InOrder
<1> QED BY <1>1, <1>2 DEF Next, vars, BuildCurves, AttributeSession, NextInstrument,
                          Summarise, Returned

LEMMA BlotterInvariant == Spec => [](CurveInv /\ BlotterInv)
<1>1. Init => BlotterInv
  <2> SUFFICES ASSUME Init PROVE BlotterInv
    OBVIOUS
  <2>1. /\ session = 0 /\ turn = 1 /\ left = 0 /\ deals = << >>
        /\ numbered = [x \in Range(Universe) |-> 0]
        /\ openDeals = [x \in Range(Universe) |-> [d \in {} |-> 0]]
    BY UniverseType DEF Init, Blotter!Init, Blotter!Empty
  <2>2. Turns
    BY <2>1, UniverseType, DrawsAssumption DEF Turns
  <2>3. Opened
    BY <2>1 DEF Opened
  <2>4. Written
    BY <2>1 DEF Written, InOrder
  <2> QED BY <2>2, <2>3, <2>4 DEF BlotterInv
<1> QED BY <1>1, NextKeepsBlotter, CurvesInvariant, PTL DEF Spec

-----------------------------------------------------------------------------
(* Folding an instrument's messages.                                       *)

VolumeSet(m) == Blotter!VolumeSet(m)
NetVolume(S) == Blotter!NetVolume(S)
LastVolumes(S) == [d \in {m.id : m \in S} |-> VolumeSet(Blotter!LatestOf(S, d))]
Prior(S, d) == IF d \in DOMAIN LastVolumes(S) THEN LastVolumes(S)[d] ELSE 0

\* Messages of which no two have the same number.
Numbered(S) == S \subseteq DealSet /\ IsFiniteSet(S) /\ \A m, n \in S : m.sequence = n.sequence => m = n

IsLatest(m, S, d) == m \in S /\ m.id = d /\ \A n \in S : n.id = d => n.sequence <= m.sequence

LEMMA DealType ==
  ASSUME NEW m \in DealSet
  PROVE  /\ VolumeSet(m) \in Int /\ m.sequence \in Nat /\ m.session \in Nat /\ m.volume \in Int
         /\ m.id \in Range(Universe) \X Nat /\ m.id[1] = m.instrument
         /\ m.action = "new" => m.trade_price \in Int
  BY DEF DealSet, Records, VolumeSet, Blotter!VolumeSet

LEMMA LatestExists ==
  ASSUME NEW S, Numbered(S), NEW d \in {m.id : m \in S}
  PROVE  IsLatest(Blotter!LatestOf(S, d), S, d)
<1> DEFINE Of == {m \in S : m.id = d}
           seqs == [m \in Of |-> m.sequence]
           N == {seqs[m] : m \in Of}
<1>1. IsFiniteSet(Of) /\ Of # {}
  BY FS_Subset DEF Numbered
<1>2. IsFiniteSet(N)
  <2> HIDE DEF Of, seqs
  <2> QED BY <1>1, ImageIsFinite
<1>3. N \in SUBSET Int /\ N # {}
  <2>1. \A m \in Of : m.sequence \in Int
    BY DealType DEF Numbered
  <2> QED BY <1>1, <2>1
<1>4. PICK top \in N : \A k \in N : top >= k
  <2> HIDE DEF N
  <2> QED BY <1>2, <1>3, GreatestInt
<1>5. PICK m \in Of : m.sequence = top
  OBVIOUS
<1>6. \A n \in S : n.id = d => n.sequence <= m.sequence
  <2> SUFFICES ASSUME NEW n \in S, n.id = d PROVE n.sequence <= m.sequence
    OBVIOUS
  <2>1. n \in Of /\ n.sequence = seqs[n] /\ n.sequence \in N
    OBVIOUS
  <2> HIDE DEF N
  <2>2. top >= n.sequence /\ top \in Int /\ n.sequence \in Int
    BY <1>3, <1>4, <2>1
  <2> QED BY <1>5, <2>2
<1>7. IsLatest(m, S, d)
  BY <1>6 DEF IsLatest
<1>8. \E mm \in S : mm.id = d /\ \A n \in S : n.id = d => n.sequence <= mm.sequence
  BY <1>7 DEF IsLatest
<1> QED BY <1>8 DEF IsLatest, Blotter!LatestOf

\* The last word on a deal is the message with the greatest number.
LEMMA LatestIsIt ==
  ASSUME NEW S, Numbered(S), NEW d, NEW m, IsLatest(m, S, d)
  PROVE  LastVolumes(S)[d] = VolumeSet(m) /\ d \in DOMAIN LastVolumes(S)
<1>1. d \in {n.id : n \in S}
  BY DEF IsLatest
<1> DEFINE l == Blotter!LatestOf(S, d)
<1>2. IsLatest(l, S, d)
  BY <1>1, LatestExists
<1>3. l \in S /\ m \in S /\ l.sequence <= m.sequence /\ m.sequence <= l.sequence
  BY <1>2 DEF IsLatest
<1>4. l.sequence \in Nat /\ m.sequence \in Nat
  BY <1>3, DealType DEF Numbered
<1>5. l = m
  <2> HIDE DEF l
  <2> QED BY <1>3, <1>4 DEF Numbered
<1> QED BY <1>1, <1>5 DEF LastVolumes

\* The sums of the blotter's module are those of this one.
LEMMA SameSum == \A f : Blotter!SumFunction(f) = SumFunction(f)
  BY DEF SumFunction, SumFunctionOnSet, FoldFunctionOnSet, MapThenFoldSet,
         Blotter!SumFunction, Blotter!SumFunctionOnSet, Blotter!FoldFunctionOnSet, Blotter!MapThenFoldSet

LEMMA VolumesType ==
  ASSUME NEW S, Numbered(S)
  PROVE  /\ LastVolumes(S) \in [{m.id : m \in S} -> Int]
         /\ NetVolume(S) \in Int /\ NetVolume(S) = SumFunction(LastVolumes(S))
         /\ IsFiniteSet(DOMAIN LastVolumes(S))
         /\ \A d : Prior(S, d) \in Int
<1>1. \A d \in {m.id : m \in S} : VolumeSet(Blotter!LatestOf(S, d)) \in Int
  <2> SUFFICES ASSUME NEW d \in {m.id : m \in S} PROVE VolumeSet(Blotter!LatestOf(S, d)) \in Int
    OBVIOUS
  <2>1. Blotter!LatestOf(S, d) \in S
    BY LatestExists DEF IsLatest
  <2> QED BY <2>1, DealType DEF Numbered
<1>2. LastVolumes(S) \in [{m.id : m \in S} -> Int]
  BY <1>1 DEF LastVolumes
<1>3. NetVolume(S) = SumFunction(LastVolumes(S))
  <2>1. NetVolume(S) = Blotter!SumFunction(LastVolumes(S))
    BY DEF NetVolume, Blotter!NetVolume, LastVolumes, VolumeSet
  <2> QED BY <2>1, SameSum
<1>4. IsFiniteSet({m.id : m \in S})
  <2> DEFINE ids == [m \in S |-> m.id]
  <2>1. IsFiniteSet({ids[m] : m \in S})
    <3> HIDE DEF ids
    <3> QED BY ImageIsFinite DEF Numbered
  <2>2. {ids[m] : m \in S} = {m.id : m \in S}
    OBVIOUS
  <2> QED BY <2>1, <2>2
<1>5. NetVolume(S) \in Int
  <2> DEFINE f == LastVolumes(S)
             D == {m.id : m \in S}
  <2>1. DOMAIN f = D /\ IsFiniteSet(D) /\ \A d \in D : f[d] \in Int
    BY <1>2, <1>4
  <2> HIDE DEF f, D
  <2>2. SumFunctionOnSet(f, D) \in Int
    BY <2>1, SumType
  <2> QED BY <1>3, <2>1, <2>2 DEF SumFunction, f
<1> QED BY <1>2, <1>3, <1>4, <1>5 DEF Prior

\* One message more, with a number above all others.
GrowsBy(S, a) ==
  /\ LastVolumes(S \cup {a}) =
       [d \in DOMAIN LastVolumes(S) \cup {a.id} |->
          IF d = a.id THEN VolumeSet(a) ELSE LastVolumes(S)[d]]
  /\ NetVolume(S \cup {a}) = NetVolume(S) + (VolumeSet(a) - Prior(S, a.id))
  /\ NetVolume({n \in S : n.id = a.id}) = Prior(S, a.id)

LEMMA OneMore ==
  ASSUME NEW S, Numbered(S), NEW a \in DealSet, \A n \in S : n.sequence < a.sequence
  PROVE  Numbered(S \cup {a}) /\ a \notin S /\ GrowsBy(S, a)
<1> DEFINE T == S \cup {a}
           f == LastVolumes(S)
           g == LastVolumes(T)
<1>1. \A n \in T : n.sequence \in Nat /\ n \in DealSet
  BY DealType DEF Numbered
<1>2. Numbered(T) /\ a \notin S
  <2>1. a \notin S
    BY <1>1
  <2>2. \A m, n \in T : m.sequence = n.sequence => m = n
    BY <1>1 DEF Numbered
  <2> QED BY <1>1, <2>1, <2>2, FS_AddElement DEF Numbered
<1>3. DOMAIN f = {m.id : m \in S} /\ DOMAIN g = DOMAIN f \cup {a.id}
  BY DEF LastVolumes
<1>4. IsLatest(a, T, a.id)
  BY <1>1 DEF IsLatest
<1>5. g[a.id] = VolumeSet(a)
  <2> HIDE DEF T
  <2> QED BY <1>2, <1>4, LatestIsIt
<1>6. ASSUME NEW d \in DOMAIN f, d # a.id PROVE g[d] = f[d]
  <2> DEFINE l == Blotter!LatestOf(S, d)
  <2>1. IsLatest(l, S, d)
    BY <1>3, LatestExists
  <2>2. IsLatest(l, T, d)
    BY <1>6, <2>1 DEF IsLatest
  <2>3. f[d] = VolumeSet(l)
    BY <2>1, LatestIsIt
  <2>4. g[d] = VolumeSet(l)
    <3> HIDE DEF T
    <3> QED BY <1>2, <2>2, LatestIsIt
  <2> QED BY <2>3, <2>4
<1> DEFINE h == [d \in DOMAIN f \cup {a.id} |-> IF d = a.id THEN VolumeSet(a) ELSE f[d]]
<1>7. g = h
  <2>1. \E D : g = [d \in D |-> g[d]]
    BY DEF LastVolumes
  <2>2. g = [d \in DOMAIN g |-> g[d]]
    BY <2>1
  <2>3. \A d \in DOMAIN g : g[d] = h[d]
    BY <1>3, <1>5, <1>6
  <2> HIDE DEF g, f
  <2> QED BY <1>3, <2>2, <2>3
<1>8. NetVolume(T) = NetVolume(S) + (VolumeSet(a) - Prior(S, a.id))
  <2>1. /\ f \in [DOMAIN f -> Int] /\ IsFiniteSet(DOMAIN f)
        /\ NetVolume(S) = SumFunction(f) /\ NetVolume(T) = SumFunction(g)
    <3>1. f \in [{m.id : m \in S} -> Int] /\ IsFiniteSet(DOMAIN f) /\ NetVolume(S) = SumFunction(f)
      BY VolumesType
    <3>2. NetVolume(T) = SumFunction(g)
      <4> HIDE DEF T
      <4> QED BY <1>2, VolumesType
    <3> QED BY <3>1, <3>2
  <2>2. VolumeSet(a) \in Int
    BY DealType
  <2>3. Prior(S, a.id) = IF a.id \in DOMAIN f THEN f[a.id] ELSE 0
    BY DEF Prior
  <2> HIDE DEF f, g, T
  <2>4. \A d \in DOMAIN f : f[d] \in Int
    BY <2>1
  <2>5. SumFunction(g) = SumFunction(f) + (g[a.id] - (IF a.id \in DOMAIN f THEN f[a.id] ELSE 0))
    BY <1>3, <1>5, <1>6, <2>1, <2>2, <2>4, SumUpdate
  <2> QED BY <1>5, <2>1, <2>3, <2>5
<1>9. NetVolume({n \in S : n.id = a.id}) = Prior(S, a.id)
  <2> DEFINE own == {n \in S : n.id = a.id}
             e == LastVolumes(own)
  <2>1. Numbered(own)
    BY FS_Subset DEF Numbered
  <2>2. NetVolume(own) = SumFunction(e)
    <3> HIDE DEF own
    <3> QED BY <2>1, VolumesType
  <2>3. CASE a.id \notin DOMAIN f
    <3>1. own = {}
      BY <1>3, <2>3
    <3>2. DOMAIN e = {}
      BY <3>1 DEF LastVolumes
    <3>3. SumFunction(e) = 0
      BY <3>2, SumEmpty DEF SumFunction
    <3> QED BY <2>2, <2>3, <3>3 DEF Prior
  <2>4. CASE a.id \in DOMAIN f
    <3> DEFINE l == Blotter!LatestOf(S, a.id)
    <3>1. IsLatest(l, S, a.id)
      BY <1>3, <2>4, LatestExists
    <3>2. IsLatest(l, own, a.id)
      BY <3>1 DEF IsLatest
    <3>3. f[a.id] = VolumeSet(l)
      BY <3>1, LatestIsIt
    <3>4. e[a.id] = VolumeSet(l) /\ a.id \in DOMAIN e
      <4> HIDE DEF own
      <4> QED BY <2>1, <3>2, LatestIsIt
    <3>5. DOMAIN e = {a.id}
      BY <3>4 DEF LastVolumes
    <3>6. VolumeSet(l) \in Int
      BY <3>1, DealType DEF IsLatest, Numbered
    <3> HIDE DEF e, l
    <3>7. SumFunctionOnSet(e, {} \cup {a.id}) = SumFunctionOnSet(e, {}) + e[a.id]
      BY <3>4, <3>6, SumAdd, FS_EmptySet
    <3>8. {} \cup {a.id} = {a.id}
      OBVIOUS
    <3>9. SumFunction(e) = e[a.id]
      BY <3>4, <3>5, <3>6, <3>7, <3>8, SumEmpty DEF SumFunction
    <3> QED BY <2>2, <2>4, <3>3, <3>4, <3>9 DEF Prior
  <2> QED BY <2>3, <2>4
<1> QED BY <1>2, <1>7, <1>8, <1>9 DEF GrowsBy

-----------------------------------------------------------------------------
(* A session's actions.                                                    *)

Ids == Range(Universe) \X Nat
Holdings == UNION {[D -> Int] : D \in SUBSET Ids}
BookStates == [volume : Int, deal_volume : Holdings, dv_new : Int, dv_amend : Int, cash_new : Int]

LEMMA BookType ==
  ASSUME NEW b \in BookStates, NEW a \in DealSet
  PROVE  Book(b, a) \in BookStates
<1> DEFINE dv == b.deal_volume
           prev == IF a.id \in DOMAIN dv THEN dv[a.id] ELSE 0
           new_val == IF a.action = "cancel" THEN 0 ELSE a.volume
           delta == new_val - prev
           cash == IF a.action = "new" THEN delta * a.trade_price ELSE 0
           held == [d \in DOMAIN dv \cup {a.id} |-> IF d = a.id THEN new_val ELSE dv[d]]
<1>1. /\ b.volume \in Int /\ b.dv_new \in Int /\ b.dv_amend \in Int /\ b.cash_new \in Int
      /\ dv \in Holdings
  BY DEF BookStates
<1>2. PICK D \in SUBSET Ids : dv \in [D -> Int]
  BY <1>1 DEF Holdings
<1>3. /\ a.id \in Ids /\ a.volume \in Int /\ (a.action = "new" => a.trade_price \in Int)
  BY DealType DEF Ids
<1>4. prev \in Int /\ new_val \in Int
  BY <1>2, <1>3
<1> HIDE DEF prev, new_val
<1>5. delta \in Int
  BY <1>4
<1>6. held \in Holdings
  <2>1. D \cup {a.id} \in SUBSET Ids /\ held \in [D \cup {a.id} -> Int]
    BY <1>2, <1>3, <1>4
  <2> HIDE DEF held
  <2> QED BY <2>1 DEF Holdings
<1> HIDE DEF delta, held
<1>7. cash \in Int
  BY <1>3, <1>5
<1>8. Book(b, a) = [volume |-> b.volume + delta, deal_volume |-> held,
                    dv_new |-> b.dv_new + (IF a.action = "new" THEN delta ELSE 0),
                    dv_amend |-> b.dv_amend + (IF a.action = "new" THEN 0 ELSE delta),
                    cash_new |-> b.cash_new + cash]
  BY DEF Book, delta, held, prev, new_val
<1> HIDE DEF cash
<1> QED BY <1>1, <1>5, <1>6, <1>7, <1>8 DEF BookStates

\* The loop over the actions, step by step.
BookSteps(g, held, dv, actions) ==
  /\ g[0] = Opening(held, dv)
  /\ \A k \in 1 .. Len(actions) : g[k] = Book(g[k - 1], actions[k])
  /\ \A k \in 0 .. Len(actions) : g[k] \in BookStates

LEMMA BookedUnfolds ==
  ASSUME NEW held \in Int, NEW dv \in Holdings, NEW actions \in Seq(DealSet)
  PROVE  \E g : BookSteps(g, held, dv, actions) /\ Booked(held, dv, actions) = g[Len(actions)]
<1> DEFINE n == Len(actions)
           S == BookStates
           s0 == Opening(held, dv)
           step == [k \in Nat |-> [b \in S |-> IF k \in 1 .. n THEN Book(b, actions[k]) ELSE b]]
           Eq(f) == f = [k \in 0 .. n |-> IF k = 0 THEN s0 ELSE Book(f[k - 1], actions[k])]
<1>1. n \in Nat /\ \A k \in 1 .. n : actions[k] \in DealSet
  OBVIOUS
<1>2. s0 \in S
  BY DEF Opening, BookStates
<1>3. step \in [Nat -> [S -> S]]
  <2>1. \A k \in Nat : \A b \in S : (IF k \in 1 .. n THEN Book(b, actions[k]) ELSE b) \in S
    BY <1>1, BookType
  <2> HIDE DEF S
  <2> QED BY <2>1
<1>4. PICK f : Follows(f, S, s0, step)
  <2> HIDE DEF S, s0, step
  <2> QED BY <1>2, <1>3, RecursionDefines
<1>5. f[0] = s0 /\ \A k \in Nat : f[k] \in S
  BY <1>4 DEF Follows
<1>6. \A k \in 1 .. n : f[k] = Book(f[k - 1], actions[k])
  <2> SUFFICES ASSUME NEW k \in 1 .. n PROVE f[k] = Book(f[k - 1], actions[k])
    OBVIOUS
  <2>1. k \in Nat \ {0} /\ k - 1 \in Nat
    BY <1>1
  <2>2. f[k] = step[k][f[k - 1]]
    BY <1>4, <2>1 DEF Follows
  <2>3. f[k - 1] \in S
    BY <1>5, <2>1
  <2> HIDE DEF S
  <2> QED BY <2>1, <2>2, <2>3
<1> DEFINE r == [k \in 0 .. n |-> f[k]]
<1>7. Eq(r)
  <2>1. \A k \in 0 .. n : r[k] = IF k = 0 THEN s0 ELSE Book(r[k - 1], actions[k])
    <3> SUFFICES ASSUME NEW k \in 0 .. n
                 PROVE  r[k] = IF k = 0 THEN s0 ELSE Book(r[k - 1], actions[k])
      OBVIOUS
    <3>1. CASE k = 0
      BY <1>5, <3>1
    <3>2. CASE k # 0
      <4>1. k \in 1 .. n /\ k - 1 \in 0 .. n
        BY <1>1, <3>2
      <4> HIDE DEF s0
      <4> QED BY <1>6, <3>2, <4>1
    <3> QED BY <3>1, <3>2
  <2> HIDE DEF s0
  <2> QED BY <2>1
<1> DEFINE g == CHOOSE h : Eq(h)
<1>8. Eq(g)
  <2> HIDE DEF Eq, r
  <2> QED BY <1>7
<1>9. Booked(held, dv, actions) = g[n]
  BY DEF Booked
<1> HIDE DEF g
\* The equation fixes the values, by counting.
<1>10. g[0] = s0 /\ \A k \in 1 .. n : g[k] = Book(g[k - 1], actions[k])
  <2>1. 0 \in 0 .. n /\ \A k \in 1 .. n : k \in 0 .. n /\ k # 0
    BY <1>1
  <2> HIDE DEF s0
  <2> QED BY <1>8, <2>1
<1>11. \A k \in 0 .. n : g[k] \in S
  <2> DEFINE P == {k \in Nat : k <= n => g[k] \in S}
  <2>1. 0 \in P
    BY <1>2, <1>10
  <2>2. ASSUME NEW k \in Nat, k \in P PROVE k + 1 \in P
    <3> SUFFICES ASSUME k + 1 <= n PROVE g[k + 1] \in S
      OBVIOUS
    <3>1. k <= n /\ k + 1 \in 1 .. n /\ (k + 1) - 1 = k
      BY <1>1
    <3>2. g[k] \in S
      BY <2>2, <3>1
    <3>3. g[k + 1] = Book(g[k], actions[k + 1])
      BY <1>10, <3>1
    <3> HIDE DEF S
    <3> QED BY <1>1, <3>1, <3>2, <3>3, BookType DEF S
  <2> HIDE DEF P
  <2>3. \A k \in Nat : k \in P
    BY <2>1, <2>2, NatsAreCounted
  <2> QED BY <1>1, <2>3 DEF P
<1>12. BookSteps(g, held, dv, actions)
  BY <1>10, <1>11 DEF BookSteps
<1> QED BY <1>9, <1>12

First(list, k) == {list[j] : j \in 1 .. k}

\* S in the order of its numbers.
Listed(list, S) ==
  /\ S \subseteq DealSet /\ IsFiniteSet(S)
  /\ list \in [1 .. Cardinality(S) -> S]
  /\ \A j, k \in DOMAIN list : j < k => list[j].sequence < list[k].sequence
  /\ {list[k] : k \in DOMAIN list} = S

LEMMA FirstOfList ==
  ASSUME NEW S, NEW list, Listed(list, S), NEW k \in Nat, k <= Cardinality(S)
  PROVE  /\ Cardinality(S) \in Nat /\ First(list, k) \subseteq S /\ Numbered(First(list, k))
         /\ k < Cardinality(S) =>
              /\ list[k + 1] \in S /\ list[k + 1] \in DealSet
              /\ First(list, k + 1) = First(list, k) \cup {list[k + 1]}
              /\ \A n \in First(list, k) : n.sequence < list[k + 1].sequence
<1> DEFINE N == Cardinality(S)
<1>1. N \in Nat
  BY FS_CardinalityType DEF Listed
<1>2. DOMAIN list = 1 .. N /\ \A j \in 1 .. N : list[j] \in S /\ list[j] \in DealSet
  BY DEF Listed
<1>3. \A i, j \in 1 .. N : i < j => list[i].sequence < list[j].sequence
  BY <1>2 DEF Listed
<1>4. First(list, k) \subseteq S
  BY <1>1, <1>2 DEF First
<1>5. Numbered(First(list, k))
  <2>1. IsFiniteSet(First(list, k)) /\ First(list, k) \subseteq DealSet
    BY <1>4, FS_Subset DEF Listed
  <2>2. ASSUME NEW m \in First(list, k), NEW n \in First(list, k), m.sequence = n.sequence
        PROVE  m = n
    <3>1. PICK i \in 1 .. k : m = list[i]
      BY DEF First
    <3>2. PICK j \in 1 .. k : n = list[j]
      BY DEF First
    <3>3. i \in 1 .. N /\ j \in 1 .. N /\ list[i].sequence \in Nat /\ list[j].sequence \in Nat
      BY <1>1, <1>2, DealType
    <3>4. ~(i < j) /\ ~(j < i)
      BY <1>3, <2>2, <3>1, <3>2, <3>3
    <3> QED BY <3>1, <3>2, <3>3, <3>4
  <2> QED BY <2>1, <2>2 DEF Numbered
<1>6. ASSUME k < N
      PROVE  /\ list[k + 1] \in S /\ list[k + 1] \in DealSet
             /\ First(list, k + 1) = First(list, k) \cup {list[k + 1]}
             /\ \A n \in First(list, k) : n.sequence < list[k + 1].sequence
  <2>1. k + 1 \in 1 .. N /\ \A j : j \in 1 .. (k + 1) <=> j \in 1 .. k \/ j = k + 1
    BY <1>1, <1>6
  <2>2. list[k + 1] \in S /\ list[k + 1] \in DealSet
    BY <1>2, <2>1
  <2>3. First(list, k + 1) = First(list, k) \cup {list[k + 1]}
    BY <2>1 DEF First
  <2>4. ASSUME NEW n \in First(list, k) PROVE n.sequence < list[k + 1].sequence
    <3>1. PICK j \in 1 .. k : n = list[j]
      BY DEF First
    <3>2. j \in 1 .. N /\ j < k + 1
      BY <1>1, <1>6
    <3> QED BY <1>3, <2>1, <3>1, <3>2
  <2> QED BY <2>2, <2>3, <2>4
<1> QED BY <1>1, <1>4, <1>5, <1>6

\* What the k-th message of the list costs: its change of the deal's volume at
\* the negotiated price, or at the open.
CostIs(cash, list, k, sod) ==
  cash[list[k]] = (VolumeSet(list[k]) - Prior(First(list, k - 1), list[k].id))
                  * (IF list[k].action = "new" THEN list[k].trade_price ELSE sod)

\* The state of the loop after the messages up to to, of which those after from
\* are of this session.
Folds(b, list, from, to, sod, cash) ==
  /\ b.volume = NetVolume(First(list, to)) /\ b.deal_volume = LastVolumes(First(list, to))
  /\ b.dv_new \in Int /\ b.dv_amend \in Int /\ b.cash_new \in Int
  /\ b.volume = NetVolume(First(list, from)) + b.dv_new + b.dv_amend
  /\ b.cash_new + b.dv_amend * sod =
       SumFunctionOnSet(cash, First(list, to)) - SumFunctionOnSet(cash, First(list, from))

LEMMA BookFolds ==
  ASSUME NEW S, NEW list, Listed(list, S), NEW from \in Nat, NEW k \in Nat, from <= k,
         k < Cardinality(S), NEW sod \in Int, NEW cash, \A m \in S : cash[m] \in Int,
         CostIs(cash, list, k + 1, sod), NEW b, Folds(b, list, from, k, sod, cash)
  PROVE  Folds(Book(b, list[k + 1]), list, from, k + 1, sod, cash)
<1> DEFINE a == list[k + 1]
           A == First(list, k)
           F == First(list, from)
           delta == VolumeSet(a) - Prior(A, a.id)
           isNew == a.action = "new"
           c == Book(b, a)
<1>1. /\ Cardinality(S) \in Nat /\ A \subseteq S /\ F \subseteq S /\ Numbered(A) /\ Numbered(F)
      /\ a \in S /\ a \in DealSet /\ First(list, k + 1) = A \cup {a}
      /\ \A n \in A : n.sequence < a.sequence
  <2>1. Cardinality(S) \in Nat
    BY FS_CardinalityType DEF Listed
  <2>2. from <= Cardinality(S)
    BY <2>1
  <2> QED BY <2>1, <2>2, FirstOfList
<1>2. /\ a \notin A
      /\ LastVolumes(A \cup {a}) =
           [d \in DOMAIN LastVolumes(A) \cup {a.id} |->
              IF d = a.id THEN VolumeSet(a) ELSE LastVolumes(A)[d]]
      /\ NetVolume(A \cup {a}) = NetVolume(A) + delta
  <2> HIDE DEF A, a, c, F
  <2>1. Numbered(A) /\ a \in DealSet /\ \A n \in A : n.sequence < a.sequence
    BY <1>1
  <2>2. a \notin A /\ GrowsBy(A, a)
    BY <2>1, OneMore
  <2> QED BY <2>2 DEF GrowsBy
<1>3. /\ VolumeSet(a) \in Int /\ Prior(A, a.id) \in Int /\ delta \in Int /\ NetVolume(A) \in Int
      /\ NetVolume(F) \in Int /\ (isNew => a.trade_price \in Int)
  <2> HIDE DEF A, F, a, c
  <2>1. VolumeSet(a) \in Int /\ (isNew => a.trade_price \in Int)
    BY <1>1, DealType
  <2>2. Prior(A, a.id) \in Int /\ NetVolume(A) \in Int /\ NetVolume(F) \in Int
    BY <1>1, VolumesType
  <2> QED BY <2>1, <2>2
<1>4. cash[a] = delta * (IF isNew THEN a.trade_price ELSE sod) /\ cash[a] \in Int
  <2>1. (k + 1) - 1 = k
    OBVIOUS
  <2> QED BY <1>1, <2>1 DEF CostIs
<1>5. VolumeSet(a) = (IF a.action = "cancel" THEN 0 ELSE a.volume)
      /\ Prior(A, a.id) = (IF a.id \in DOMAIN b.deal_volume THEN b.deal_volume[a.id] ELSE 0)
  BY DEF VolumeSet, Blotter!VolumeSet, Prior, Folds
<1> HIDE DEF delta, a, A, F, isNew
<1>6. /\ c.volume = b.volume + delta
      /\ c.deal_volume = [d \in DOMAIN b.deal_volume \cup {a.id} |->
                            IF d = a.id THEN VolumeSet(a) ELSE b.deal_volume[d]]
      /\ c.dv_new = b.dv_new + (IF isNew THEN delta ELSE 0)
      /\ c.dv_amend = b.dv_amend + (IF isNew THEN 0 ELSE delta)
      /\ c.cash_new = b.cash_new + (IF isNew THEN delta * a.trade_price ELSE 0)
  BY <1>5 DEF Book, delta, isNew
<1> HIDE DEF c
<1>7. /\ b.volume = NetVolume(A) /\ b.deal_volume = LastVolumes(A)
      /\ b.dv_new \in Int /\ b.dv_amend \in Int /\ b.cash_new \in Int
      /\ b.volume = NetVolume(F) + b.dv_new + b.dv_amend
      /\ b.cash_new + b.dv_amend * sod = SumFunctionOnSet(cash, A) - SumFunctionOnSet(cash, F)
  BY DEF Folds, A, F
<1>8. c.volume = NetVolume(A \cup {a}) /\ c.deal_volume = LastVolumes(A \cup {a})
  BY <1>2, <1>6, <1>7
<1>9. c.dv_new \in Int /\ c.dv_amend \in Int /\ c.cash_new \in Int
  <2>1. isNew => delta * a.trade_price \in Int
    BY <1>3
  <2> QED BY <1>3, <1>6, <1>7, <2>1
<1>10. c.volume = NetVolume(F) + c.dv_new + c.dv_amend
  BY <1>3, <1>6, <1>7
<1>11. SumFunctionOnSet(cash, A \cup {a}) = SumFunctionOnSet(cash, A) + cash[a]
       /\ SumFunctionOnSet(cash, A) \in Int /\ SumFunctionOnSet(cash, F) \in Int
  <2>1. IsFiniteSet(A) /\ IsFiniteSet(F)
    BY <1>1 DEF Numbered
  <2>2. \A m \in A \cup {a} : cash[m] \in Int
    BY <1>1
  <2>3. \A m \in F : cash[m] \in Int
    BY <1>1
  <2> QED BY <1>2, <2>1, <2>2, <2>3, SumAdd, SumType
<1>12. c.cash_new + c.dv_amend * sod
       = SumFunctionOnSet(cash, A \cup {a}) - SumFunctionOnSet(cash, F)
  <2>1. CASE isNew
    <3>1. c.cash_new = b.cash_new + cash[a] /\ c.dv_amend = b.dv_amend
      BY <1>4, <1>6, <1>7, <2>1
    <3>2. b.dv_amend * sod \in Int
      BY <1>7
    <3> QED BY <1>4, <1>7, <1>11, <3>1, <3>2
  <2>2. CASE ~isNew
    <3>1. c.cash_new = b.cash_new /\ c.dv_amend = b.dv_amend + delta /\ cash[a] = delta * sod
      BY <1>4, <1>6, <1>7, <2>2
    <3>2. \A x, y \in Int : (x + y) * sod = x * sod + y * sod /\ x * sod \in Int
      BY SMTT(30)
    <3>3. c.dv_amend * sod = b.dv_amend * sod + delta * sod /\ b.dv_amend * sod \in Int
      BY <1>3, <1>7, <3>1, <3>2
    <3> QED BY <1>4, <1>7, <1>11, <3>1, <3>3
  <2> QED BY <2>1, <2>2
<1>13. First(list, k + 1) = A \cup {a}
  BY <1>1
<1> QED BY <1>8, <1>9, <1>10, <1>12, <1>13 DEF Folds, F, c, a

LEMMA BookedFolds ==
  ASSUME NEW S, NEW list, Listed(list, S), NEW from \in Nat, NEW n \in Nat,
         from + n <= Cardinality(S), NEW sod \in Int, NEW cash, \A m \in S : cash[m] \in Int,
         \A k \in (from + 1) .. (from + n) : CostIs(cash, list, k, sod)
  PROVE  Folds(Booked(NetVolume(First(list, from)), LastVolumes(First(list, from)),
                      SubSeq(list, from + 1, from + n)), list, from, from + n, sod, cash)
<1> DEFINE held == NetVolume(First(list, from))
           dv == LastVolumes(First(list, from))
           actions == SubSeq(list, from + 1, from + n)
<1>1. /\ Cardinality(S) \in Nat /\ from <= Cardinality(S)
      /\ First(list, from) \subseteq S /\ Numbered(First(list, from))
  <2>1. Cardinality(S) \in Nat
    BY FS_CardinalityType DEF Listed
  <2>2. from <= Cardinality(S)
    BY <2>1
  <2> QED BY <2>1, <2>2, FirstOfList
<1>2. held \in Int /\ dv \in Holdings
  <2> DEFINE D == {m.id : m \in First(list, from)}
  <2>1. held \in Int /\ dv \in [D -> Int]
    BY <1>1, VolumesType
  <2>2. D \in SUBSET Ids
    BY <1>1, DealType DEF Numbered, Ids
  <2> HIDE DEF D, dv
  <2> QED BY <2>1, <2>2 DEF Holdings
<1>3. list \in Seq(DealSet) /\ Len(list) = Cardinality(S)
  BY <1>1 DEF Listed
<1>4. /\ actions \in Seq(DealSet) /\ Len(actions) = n
      /\ \A k \in 1 .. n : actions[k] = list[from + k]
  <2>1. from + 1 \in 1 .. (Len(list) + 1) /\ from + n \in 0 .. Len(list)
    BY <1>1, <1>3
  <2>2. Len(actions) = n
    BY <1>3, <2>1
  <2>3. \A k \in 1 .. n : actions[k] = list[from + k]
    BY <1>3, <2>1
  <2>4. actions \in Seq(DealSet)
    BY <1>3, <2>1
  <2> QED BY <2>2, <2>3, <2>4
<1> HIDE DEF held, dv, actions
<1>5. PICK g : BookSteps(g, held, dv, actions) /\ Booked(held, dv, actions) = g[Len(actions)]
  BY <1>2, <1>4, BookedUnfolds
<1> DEFINE P == {j \in Nat : j <= n => Folds(g[j], list, from, from + j, sod, cash)}
<1>6. 0 \in P
  <2>1. g[0] = Opening(held, dv)
    BY <1>5 DEF BookSteps
  <2>2. SumFunctionOnSet(cash, First(list, from)) \in Int
    <3>1. IsFiniteSet(First(list, from)) /\ \A m \in First(list, from) : cash[m] \in Int
      BY <1>1 DEF Numbered
    <3> QED BY <3>1, SumType
  <2>3. from + 0 = from
    OBVIOUS
  <2> QED BY <1>2, <2>1, <2>2, <2>3 DEF Folds, Opening, held, dv
<1>7. ASSUME NEW j \in Nat, j \in P PROVE j + 1 \in P
  <2> SUFFICES ASSUME j + 1 <= n PROVE Folds(g[j + 1], list, from, from + (j + 1), sod, cash)
    OBVIOUS
  <2>1. Folds(g[j], list, from, from + j, sod, cash)
    BY <1>7
  <2>2. /\ j + 1 \in 1 .. n /\ (j + 1) - 1 = j /\ from + (j + 1) = (from + j) + 1
        /\ from + j \in Nat /\ from <= from + j /\ from + j < Cardinality(S)
        /\ (from + j) + 1 \in (from + 1) .. (from + n)
    BY <1>1
  <2>3. g[j + 1] = Book(g[j], list[(from + j) + 1])
    BY <1>4, <1>5, <2>2 DEF BookSteps
  <2>4. CostIs(cash, list, (from + j) + 1, sod)
    BY <2>2
  <2> QED BY <2>1, <2>2, <2>3, <2>4, BookFolds
<1> HIDE DEF P
<1>8. \A j \in Nat : j \in P
  BY <1>6, <1>7, NatsAreCounted
<1>9. Folds(g[n], list, from, from + n, sod, cash)
  BY <1>8 DEF P
<1> QED BY <1>4, <1>5, <1>9 DEF held, dv, actions

-----------------------------------------------------------------------------
(* An instrument's messages, session by session.                           *)

Upto(x, t) == {m \in DealsOf(x) : m.session < t}

LEMMA DealsOfType ==
  ASSUME BlotterInv, NEW x
  PROVE  /\ Numbered(DealsOf(x))
         /\ \A m \in DealsOf(x) : m.instrument = x /\ m.session \in 0 .. NSessions - 1
         /\ \A m, n \in DealsOf(x) : m.sequence < n.sequence => m.session <= n.session
<1> DEFINE S == DealsOf(x)
<1>1. /\ deals \in Seq(DealSet) /\ DOMAIN deals = 1 .. Len(deals) /\ Len(deals) \in Nat
      /\ \A k \in 1 .. Len(deals) : deals[k] \in DealSet /\ deals[k].session < NSessions
  BY DEF BlotterInv, Written
<1>2. \A m \in S : \E k \in 1 .. Len(deals) : m = deals[k]
  BY <1>1 DEF DealsOf, Range
<1>3. ASSUME NEW m \in S
      PROVE  m \in DealSet /\ m.instrument = x /\ m.session \in 0 .. NSessions - 1 /\ m.sequence \in Nat
  <2>1. m \in DealSet /\ m.session < NSessions
    BY <1>1, <1>2
  <2>2. m.session \in Nat /\ m.sequence \in Nat
    BY <2>1, DealType
  <2> QED BY <2>1, <2>2, DrawsAssumption DEF DealsOf
<1>4. IsFiniteSet(S)
  <2>1. IsFiniteSet({deals[k] : k \in DOMAIN deals})
    <3> DEFINE D == DOMAIN deals
    <3>1. IsFiniteSet(D)
      BY <1>1, FS_Interval
    <3> HIDE DEF D
    <3>2. IsFiniteSet({deals[k] : k \in D})
      BY <3>1, ImageIsFinite
    <3> QED BY <3>2 DEF D
  <2>2. S \subseteq {deals[k] : k \in DOMAIN deals}
    BY DEF DealsOf, Range
  <2> QED BY <2>1, <2>2, FS_Subset
<1>5. ASSUME NEW m \in S, NEW n \in S
      PROVE  /\ m.sequence = n.sequence => m = n
             /\ m.sequence < n.sequence => m.session <= n.session
  <2>1. PICK j \in 1 .. Len(deals) : m = deals[j]
    BY <1>2
  <2>2. PICK k \in 1 .. Len(deals) : n = deals[k]
    BY <1>2
  <2>3. m.instrument = n.instrument /\ m.sequence \in Nat /\ n.sequence \in Nat
    BY <1>3
  <2>4. j < k => m.sequence < n.sequence /\ m.session <= n.session
    BY <2>1, <2>2, <2>3 DEF BlotterInv, Written, InOrder
  <2>5. k < j => n.sequence < m.sequence
    BY <2>1, <2>2, <2>3 DEF BlotterInv, Written, InOrder
  <2>6. j < k \/ k < j \/ j = k
    BY <1>1
  <2> QED BY <2>1, <2>2, <2>3, <2>4, <2>5, <2>6
<1> QED BY <1>3, <1>4, <1>5 DEF Numbered

LEMMA DealsListed ==
  ASSUME BlotterInv, NEW x
  PROVE  Listed(DealsInOrder(x), DealsOf(x))
<1> DEFINE S == DealsOf(x)
           N == Cardinality(S)
           list == DealsInOrder(x)
           key == [m \in S |-> m.sequence]
<1>1. /\ S \subseteq DealSet /\ IsFiniteSet(S) /\ N \in Nat
      /\ \A m, n \in S : m.sequence = n.sequence => m = n
      /\ \A m \in S : m.sequence \in Int /\ key[m] = m.sequence
  BY DealsOfType, FS_CardinalityType, DealType DEF Numbered
<1> HIDE DEF S, key
<1>2. \E l \in [1 .. N -> S] : \A j, k \in DOMAIN l : j < k => l[j].sequence < l[k].sequence
  <2>1. PICK l \in [1 .. N -> S] :
          \A j, k \in DOMAIN l : j < k => key[l[j]] < key[l[k]]
    <3>1. (\A m \in S : key[m] \in Int) /\ (\A m, n \in S : key[m] = key[n] => m = n)
      BY <1>1
    <3>2. \E l : SortedBy(key, l, S)
      BY <1>1, <3>1, SortedListExists
    <3> QED BY <3>2 DEF SortedBy
  <2>2. \A j \in DOMAIN l : key[l[j]] = l[j].sequence
    BY <1>1
  <2> QED BY <2>1, <2>2
<1>3. /\ list \in [1 .. N -> S]
      /\ \A j, k \in DOMAIN list : j < k => list[j].sequence < list[k].sequence
  BY <1>2 DEF DealsInOrder, S
<1> HIDE DEF list
\* As many places as messages, and none twice: none is left out.
<1>4. list \in Injection(1 .. N, S)
  <2>1. ASSUME NEW j \in 1 .. N, NEW k \in 1 .. N, list[j] = list[k] PROVE j = k
    <3>1. ~(j < k) /\ ~(k < j)
      <4>1. list[j].sequence \in Int /\ list[k].sequence \in Int
        BY <1>1, <1>3
      <4> QED BY <1>3, <2>1, <4>1
    <3> QED BY <1>1, <3>1
  <2> QED BY <1>3, <2>1 DEF Injection, IsInjective
<1>5. Cardinality(1 .. N) = N
  BY <1>1, FS_Interval
<1>6. list \in Surjection(1 .. N, S)
  BY <1>1, <1>4, <1>5, FS_Injection
<1>7. {list[k] : k \in DOMAIN list} = S
  BY <1>3, <1>6 DEF Surjection
<1> QED BY <1>1, <1>3, <1>7 DEF Listed, S, list

\* The loop takes exactly the messages of its session.
LEMMA TakenIsSession ==
  ASSUME BlotterInv, NEW x, NEW t \in Nat, NEW from \in Nat, from <= Cardinality(DealsOf(x)),
         First(DealsInOrder(x), from) = Upto(x, t)
  PROVE  LET n == Taken(DealsInOrder(x), from, t)
         IN  /\ n \in Nat /\ from + n <= Cardinality(DealsOf(x))
             /\ First(DealsInOrder(x), from + n) = Upto(x, t + 1)
             /\ \A k \in (from + 1) .. (from + n) : DealsInOrder(x)[k].session = t
<1> DEFINE S == DealsOf(x)
           N == Cardinality(S)
           list == DealsInOrder(x)
           Stops == {j \in Nat : from + j = N \/ (from + j < N /\ list[from + j + 1].session # t)}
           Fits(j) == /\ \A k \in from + 1 .. from + j : list[k].session = t
                      /\ from + j < Len(list) => list[from + j + 1].session # t
           n == Taken(list, from, t)
<1>1. Listed(list, S) /\ N \in Nat /\ Numbered(S)
  BY DealsListed, DealsOfType, FS_CardinalityType DEF Numbered
<1>2. /\ list \in [1 .. N -> S] /\ DOMAIN list = 1 .. N /\ Len(list) = N
      /\ \A k \in 1 .. N : list[k] \in S
      /\ \A j, k \in 1 .. N : j < k => list[j].sequence < list[k].sequence
      /\ \A m \in S : \E k \in 1 .. N : m = list[k]
  BY <1>1 DEF Listed
<1>3. \A m \in S : m.session \in Nat
  BY DealsOfType
<1>4. \A j, k \in 1 .. N : j < k => list[j].session <= list[k].session
  BY <1>2, DealsOfType
<1> HIDE DEF list, S, N
<1>5. \E j \in 0 .. N - from : Fits(j)
  <2>1. Stops \in SUBSET Nat /\ N - from \in Stops
    BY <1>1 DEF N, S
  <2>2. PICK j \in Stops : \A k \in Stops : j <= k
    <3> HIDE DEF Stops
    <3> QED BY <2>1, LeastNat
  <2>3. j \in Nat /\ j <= N - from /\ j \in 0 .. N - from
    <3>1. j <= N - from
      BY <2>1, <2>2
    <3> QED BY <1>1, <3>1
  <2>4. ASSUME NEW k \in from + 1 .. from + j PROVE list[k].session = t
    <3> DEFINE i == k - from - 1
    <3>1. i \in Nat /\ i < j /\ from + i + 1 = k /\ from + i < N
      BY <1>1, <2>3
    <3> HIDE DEF i
    <3>2. i \notin Stops
      <4> HIDE DEF Stops
      <4> QED BY <2>2, <2>3, <3>1
    <3> QED BY <3>1, <3>2
  <2>5. from + j < N => list[from + j + 1].session # t
    BY <1>1, <2>2
  <2>6. Fits(j)
    BY <1>2, <2>4, <2>5
  <2> HIDE DEF Fits
  <2> QED BY <2>3, <2>6
<1>6. n \in 0 .. N - from /\ Fits(n)
  <2>1. n = CHOOSE j \in 0 .. N - from : Fits(j)
    BY <1>2 DEF Taken
  <2> HIDE DEF Fits, n
  <2> QED BY <1>5, <2>1
<1> HIDE DEF n
<1>7. /\ n \in Nat /\ from + n <= N /\ from + n \in Nat
      /\ \A k \in (from + 1) .. (from + n) : list[k].session = t
      /\ from + n < N => list[from + n + 1].session # t
  BY <1>1, <1>2, <1>6
<1>8. \A k \in 1 .. N : k <= from <=> list[k].session < t
  <2>1. ASSUME NEW k \in 1 .. N, k <= from PROVE list[k].session < t
    <3>1. list[k] \in First(list, from)
      BY <2>1 DEF First
    <3> QED BY <3>1 DEF Upto, list
  <2>2. ASSUME NEW k \in 1 .. N, list[k].session < t PROVE k <= from
    <3>1. list[k] \in First(list, from)
      BY <1>2, <2>2 DEF Upto, list, S
    <3>2. PICK j \in 1 .. from : list[k] = list[j]
      BY <3>1 DEF First
    <3>3. j \in 1 .. N
      BY <1>1 DEF N, S
    <3>4. ~(j < k)
      <4>1. list[k].sequence \in Nat
        BY <1>1, <1>2, DealType DEF Numbered
      <4> QED BY <1>2, <3>2, <3>3, <4>1
    <3> QED BY <3>3, <3>4
  <2> QED BY <2>1, <2>2
<1>9. \A k \in 1 .. N : k <= from + n <=> list[k].session < t + 1
  <2> SUFFICES ASSUME NEW k \in 1 .. N PROVE k <= from + n <=> list[k].session < t + 1
    OBVIOUS
  <2>1. list[k].session \in Nat
    BY <1>2, <1>3
  <2>2. CASE k <= from
    BY <1>7, <1>8, <2>1, <2>2
  <2>3. CASE ~(k <= from) /\ k <= from + n
    <3>1. k \in (from + 1) .. (from + n)
      BY <1>7, <2>3
    <3> QED BY <1>7, <2>3, <3>1
  <2>4. CASE ~(k <= from + n)
    <3>1. from + n + 1 \in 1 .. N /\ from + n < N /\ ~(from + n + 1 <= from)
      BY <1>1, <1>7, <2>4
    <3>2. list[from + n + 1].session \in Nat /\ list[from + n + 1].session # t
          /\ ~(list[from + n + 1].session < t)
      BY <1>2, <1>3, <1>7, <1>8, <3>1
    <3>3. from + n + 1 < k \/ from + n + 1 = k
      BY <1>1, <1>7, <2>4
    <3>4. list[from + n + 1].session <= list[k].session
      BY <1>4, <2>1, <3>1, <3>2, <3>3
    <3> QED BY <2>1, <2>4, <3>2, <3>4
  <2> QED BY <2>2, <2>3, <2>4
<1>10. First(list, from + n) = Upto(x, t + 1)
  <2>1. \A m \in First(list, from + n) : m \in Upto(x, t + 1)
    <3> SUFFICES ASSUME NEW m \in First(list, from + n) PROVE m \in Upto(x, t + 1)
      OBVIOUS
    <3>1. PICK k \in 1 .. (from + n) : m = list[k]
      BY DEF First
    <3>2. k \in 1 .. N
      BY <1>1, <1>7
    <3> QED BY <1>2, <1>9, <3>1, <3>2 DEF Upto, S
  <2>2. \A m \in Upto(x, t + 1) : m \in First(list, from + n)
    <3> SUFFICES ASSUME NEW m \in Upto(x, t + 1) PROVE m \in First(list, from + n)
      OBVIOUS
    <3>1. m \in S /\ m.session < t + 1
      BY DEF Upto, S
    <3>2. PICK k \in 1 .. N : m = list[k]
      BY <1>2, <3>1
    <3>3. k \in 1 .. (from + n)
      BY <1>1, <1>7, <1>9, <3>1, <3>2
    <3> QED BY <3>2, <3>3 DEF First
  <2> QED BY <2>1, <2>2
<1> QED BY <1>7, <1>10 DEF n, list, N, S

-----------------------------------------------------------------------------
(* One session of one instrument.                                          *)

ClosingMark(x, t) == MarkEod(CurveOf(x, t), TenorSod(x, t) - 1)
CashOf(x) == [m \in DealsOf(x) |-> Cash(m)]
PaidUpto(x, t) == SumFunctionOnSet(CashOf(x), Upto(x, t))

\* The row of the instrument's k-th session.
RowIs(row, x, k) ==
  /\ row.residual = 0
  /\ row.v1 = NetVolume(Upto(x, k))
  /\ row.mark_eod = ClosingMark(x, k - 1)
  /\ row.actual_pnl = NetVolume(Upto(x, k)) * ClosingMark(x, k - 1)
                      - NetVolume(Upto(x, k - 1)) * OpenMark(x, k - 1)
                      - (PaidUpto(x, k) - PaidUpto(x, k - 1))

Steps == [v0 : Int, v1 : Int, deal_volume : Holdings, mark_sod : Int, mark_eod : Int,
          actual_pnl : Int, residual : Int]

LEMMA UptoType ==
  ASSUME BlotterInv, NEW x, NEW t
  PROVE  /\ Numbered(Upto(x, t)) /\ Upto(x, t) \subseteq DealsOf(x)
         /\ NetVolume(Upto(x, t)) \in Int /\ LastVolumes(Upto(x, t)) \in Holdings
<1> DEFINE S == Upto(x, t)
           D == {m.id : m \in S}
<1>1. Numbered(S) /\ S \subseteq DealsOf(x)
  <2>1. Numbered(DealsOf(x)) /\ S \subseteq DealsOf(x)
    BY DealsOfType DEF Upto
  <2> HIDE DEF S
  <2> QED BY <2>1, FS_Subset DEF Numbered
<1> HIDE DEF S
<1>2. NetVolume(S) \in Int /\ LastVolumes(S) \in [D -> Int]
  BY <1>1, VolumesType
<1>3. D \in SUBSET Ids
  BY <1>1, DealType DEF Numbered, Ids
<1>4. LastVolumes(S) \in Holdings
  <2> HIDE DEF D
  <2> QED BY <1>2, <1>3 DEF Holdings
<1> QED BY <1>1, <1>2, <1>4 DEF S

\* What a message costs is what the loop over the actions adds up for it.
LEMMA CashIsCost ==
  ASSUME CurveInv, BlotterInv, Built, NEW x \in Range(Universe),
         NEW k \in 1 .. Cardinality(DealsOf(x))
  PROVE  /\ DealsInOrder(x)[k] \in DealsOf(x) /\ Cash(DealsInOrder(x)[k]) \in Int
         /\ CostIs(CashOf(x), DealsInOrder(x), k, OpenMark(x, DealsInOrder(x)[k].session))
<1> DEFINE S == DealsOf(x)
           N == Cardinality(S)
           list == DealsInOrder(x)
           m == list[k]
           A == First(list, k - 1)
           earlier == {n \in Range(deals) : n.id = m.id /\ n.sequence < m.sequence}
           open == OpenMark(x, m.session)
<1>1. Listed(list, S)
  BY DealsListed
<1>2. /\ list \in [1 .. N -> S] /\ m \in S
      /\ \A i, j \in 1 .. N : i < j => list[i].sequence < list[j].sequence
      /\ \A d \in S : \E j \in 1 .. N : d = list[j]
      /\ \A j \in 1 .. N : list[j] \in DealSet
  BY <1>1 DEF Listed
<1> HIDE DEF list, S, N
<1>3. N \in Nat /\ k \in 1 .. N /\ k - 1 \in Nat /\ k - 1 < N /\ (k - 1) + 1 = k
  BY <1>1, FS_CardinalityType DEF N, S, Listed
<1>4. /\ Numbered(A) /\ m \in DealSet /\ \A n \in A : n.sequence < m.sequence
      /\ A \subseteq S
  <2>1. k - 1 <= Cardinality(S) /\ k - 1 < Cardinality(S)
    BY <1>3 DEF N
  <2> QED BY <1>1, <1>3, <2>1, FirstOfList
<1>5. m.instrument = x /\ m.session \in 0 .. NSessions - 1
  BY <1>2, DealsOfType DEF S
<1>6. open \in Int
  BY <1>5, CurveIsRead
<1>7. /\ VolumeSet(m) \in Int /\ (m.action = "new" => m.trade_price \in Int) /\ m.id[1] = x
      /\ m.sequence \in Nat
  BY <1>4, <1>5, DealType
<1>8. Prior(A, m.id) \in Int /\ NetVolume({n \in A : n.id = m.id}) = Prior(A, m.id)
  <2> HIDE DEF A, m
  <2>1. GrowsBy(A, m)
    BY <1>4, OneMore
  <2> QED BY <1>4, <2>1, VolumesType DEF GrowsBy
\* The earlier messages of the deal are those the loop has already taken.
<1>9. earlier = {n \in A : n.id = m.id}
  <2>1. ASSUME NEW n \in earlier PROVE n \in A /\ n.id = m.id
    <3>1. n \in DealSet
      <4>1. deals \in Seq(DealSet)
        BY DEF BlotterInv, Written
      <4> QED BY <4>1 DEF Range
    <3>2. n.instrument = x /\ n.sequence \in Nat /\ n.sequence < m.sequence
      BY <1>7, <3>1, DealType
    <3>3. n \in S
      BY <3>2 DEF S, DealsOf
    <3>4. PICK j \in 1 .. N : n = list[j]
      BY <1>2, <3>3
    <3>5. ~(k < j) /\ j # k
      <4>1. list[j].sequence < list[k].sequence /\ list[j].sequence \in Nat /\ list[k].sequence \in Nat
        BY <1>7, <3>2, <3>4
      <4> QED BY <1>2, <1>3, <4>1
    <3>6. j \in 1 .. (k - 1)
      BY <1>3, <3>5
    <3> QED BY <3>4, <3>6 DEF First
  <2>2. ASSUME NEW n \in A, n.id = m.id PROVE n \in earlier
    <3>1. n \in Range(deals) /\ n.sequence < m.sequence
      BY <1>4 DEF S, DealsOf
    <3> QED BY <2>2, <3>1
  <2> QED BY <2>1, <2>2
<1>10. Cash(m) = (VolumeSet(m) - Prior(A, m.id)) * (IF m.action = "new" THEN m.trade_price ELSE open)
  <2>1. NetVolume(earlier) = Prior(A, m.id)
    BY <1>8, <1>9
  <2> HIDE DEF A
  <2> QED BY <1>5, <2>1 DEF Cash, VolumeSet, NetVolume
<1>11. Cash(m) \in Int
  <2>1. CASE m.action = "new"
    BY <1>7, <1>8, <1>10, <2>1
  <2>2. CASE m.action # "new"
    BY <1>6, <1>7, <1>8, <1>10, <2>2
  <2> QED BY <2>1, <2>2
<1>12. CashOf(x)[m] = Cash(m)
  BY <1>2 DEF CashOf, S
<1>13. CostIs(CashOf(x), list, k, open)
  BY <1>10, <1>12 DEF CostIs
<1> QED BY <1>2, <1>11, <1>13 DEF list, S

LEMMA CashType ==
  ASSUME CurveInv, BlotterInv, Built, NEW x \in Range(Universe)
  PROVE  \A m \in DealsOf(x) : CashOf(x)[m] = Cash(m) /\ Cash(m) \in Int
<1>1. Listed(DealsInOrder(x), DealsOf(x))
  BY DealsListed
<1>2. \A m \in DealsOf(x) : \E k \in 1 .. Cardinality(DealsOf(x)) : m = DealsInOrder(x)[k]
  BY <1>1 DEF Listed
<1> QED BY <1>2, CashIsCost DEF CashOf

\* The closing curve at the opening tenor is the opening mark and the two moves.
LEMMA MarksSplit ==
  ASSUME CurveInv, Built, NEW x \in Range(Universe), NEW t \in 0 .. NSessions - 1
  PROVE  LET marks == Marks(x, t)
         IN  /\ marks.sod = OpenMark(x, t) /\ marks.eod = ClosingMark(x, t)
             /\ marks.sod \in Int /\ marks.eod \in Int /\ marks.level \in Int
             /\ marks.shape \in Int /\ marks.eod_at_open \in Int
             /\ marks.eod_at_open = marks.sod + marks.level + marks.shape
<1> DEFINE cs == CurveOf(x, t)
           tenor == TenorSod(x, t)
           open == cs.grid_sod
           shape == cs.shape_delta
           close == cs.grid_eod
           level == cs.level_delta
<1>1. cs \in CurveRecords /\ Moved(cs) /\ tenor \in Int /\ tenor - 1 \in Int
  BY CurveIsRead
<1>2. open \in Values /\ shape \in Values /\ close \in Values /\ level \in Int
  <2> HIDE DEF cs
  <2> QED BY <1>1 DEF CurveRecords
<1>3. \A k \in 1 .. Points : close[k] = open[k] + level + shape[k]
  BY <1>1 DEF Moved
<1>4. Marks(x, t) = [sod |-> Interp(open, tenor), eod |-> Interp(close, tenor - 1),
                     eod_at_open |-> Interp(close, tenor), level |-> Scale * level,
                     shape |-> Interp(shape, tenor)]
  BY DEF Marks, MarkSod, MarkEod, ShapeAt
<1>5. OpenMark(x, t) = Interp(open, tenor) /\ ClosingMark(x, t) = Interp(close, tenor - 1)
  BY DEF OpenMark, ClosingMark, MarkSod, MarkEod
<1> HIDE DEF open, shape, close, level, tenor
<1>6. Scale * level \in Int
  BY <1>2, CurveAssumption
<1>7. Interp(close, tenor - 1) \in Int
  <2>1. /\ Interp(open, tenor - 1) \in Int /\ Interp(shape, tenor - 1) \in Int
        /\ Interp(close, tenor - 1) \in Int
        /\ Interp(close, tenor - 1) =
             Interp(open, tenor - 1) + Scale * level + Interp(shape, tenor - 1)
    BY <1>1, <1>2, <1>3, InterpIsLinear
  <2> QED BY <2>1
<1> QED BY <1>1, <1>2, <1>3, <1>4, <1>5, <1>6, <1>7, InterpIsLinear

\* The five components make up the P&L, to the last unit.
LEMMA ComponentsExplain ==
  ASSUME NEW held \in Int, NEW dn \in Int, NEW da \in Int, NEW cash \in Int,
         NEW sod \in Int, NEW eod \in Int, NEW level \in Int, NEW shape \in Int
  PROVE  ((held + dn + da) * eod - held * sod - (cash + da * sod))
         - (held * level + held * shape + held * (eod - (sod + level + shape))
            + (dn * eod - cash) + da * (eod - sod)) = 0
  BY SMTT(30)

LEMMA SessionStep ==
  ASSUME CurveInv, BlotterInv, Built, NEW x \in Range(Universe), NEW t \in 0 .. NSessions - 1,
         NEW from \in Nat, from <= Cardinality(DealsOf(x)),
         First(DealsInOrder(x), from) = Upto(x, t), NEW n, n = Taken(DealsInOrder(x), from, t)
  PROVE  LET step == Step(NetVolume(Upto(x, t)), LastVolumes(Upto(x, t)), Marks(x, t),
                          SubSeq(DealsInOrder(x), from + 1, from + n))
         IN  /\ RowIs(step, x, t + 1) /\ step.deal_volume = LastVolumes(Upto(x, t + 1))
             /\ step \in Steps
<1> DEFINE S == DealsOf(x)
           list == DealsInOrder(x)
           held == NetVolume(Upto(x, t))
           dv == LastVolumes(Upto(x, t))
           marks == Marks(x, t)
           sod == marks.sod
           eod == marks.eod
           b == Booked(held, dv, SubSeq(list, from + 1, from + n))
           step == Step(held, dv, marks, SubSeq(list, from + 1, from + n))
           cash == CashOf(x)
<1>1. t \in Nat /\ NSessions \in Nat
  BY DrawsAssumption
<1>2. /\ n \in Nat /\ from + n <= Cardinality(S) /\ First(list, from + n) = Upto(x, t + 1)
      /\ \A k \in (from + 1) .. (from + n) : list[k].session = t
  BY <1>1, TakenIsSession
<1>3. Listed(list, S) /\ Cardinality(S) \in Nat
  BY DealsListed, FS_CardinalityType DEF Listed
<1>4. sod = OpenMark(x, t) /\ eod = ClosingMark(x, t) /\ sod \in Int /\ eod \in Int
      /\ marks.level \in Int /\ marks.shape \in Int
      /\ marks.eod_at_open = sod + marks.level + marks.shape
  BY MarksSplit
<1>5. \A m \in S : cash[m] \in Int
  BY CashType
<1>6. \A k \in (from + 1) .. (from + n) : CostIs(cash, list, k, sod)
  <2> SUFFICES ASSUME NEW k \in (from + 1) .. (from + n) PROVE CostIs(cash, list, k, sod)
    OBVIOUS
  <2>1. k \in 1 .. Cardinality(S) /\ list[k].session = t
    BY <1>2, <1>3
  <2> QED BY <1>4, <2>1, CashIsCost
<1>7. Folds(b, list, from, from + n, sod, cash)
  <2>1. Folds(Booked(NetVolume(First(list, from)), LastVolumes(First(list, from)),
                     SubSeq(list, from + 1, from + n)), list, from, from + n, sod, cash)
    <3> HIDE DEF list, S, sod, cash
    <3> QED BY <1>2, <1>3, <1>4, <1>5, <1>6, BookedFolds
  <2> QED BY <2>1
<1>8. /\ b.volume = NetVolume(Upto(x, t + 1)) /\ b.deal_volume = LastVolumes(Upto(x, t + 1))
      /\ b.dv_new \in Int /\ b.dv_amend \in Int /\ b.cash_new \in Int
      /\ b.volume = held + b.dv_new + b.dv_amend
      /\ b.cash_new + b.dv_amend * sod = PaidUpto(x, t + 1) - PaidUpto(x, t)
  <2> HIDE DEF b, sod, list
  <2> QED BY <1>2, <1>7 DEF Folds, PaidUpto, list
<1>9. held \in Int /\ LastVolumes(Upto(x, t + 1)) \in Holdings /\ NetVolume(Upto(x, t + 1)) \in Int
  BY UptoType
<1>10. /\ step.v0 = held /\ step.mark_sod = sod
       /\ step = [v0 |-> step.v0, v1 |-> step.v1, deal_volume |-> step.deal_volume,
                  mark_sod |-> step.mark_sod, mark_eod |-> step.mark_eod,
                  actual_pnl |-> step.actual_pnl, residual |-> step.residual]
       /\ step.v1 = b.volume /\ step.deal_volume = b.deal_volume /\ step.mark_eod = eod
       /\ step.actual_pnl = b.volume * eod - held * sod - (b.cash_new + b.dv_amend * sod)
       /\ step.residual = step.actual_pnl
            - (held * marks.level + held * marks.shape + held * (eod - marks.eod_at_open)
               + (b.dv_new * eod - b.cash_new) + b.dv_amend * (eod - sod))
  <2> HIDE DEF b, marks, held, dv
  <2> QED BY DEF Step, Components, ActualPnl, b
<1> HIDE DEF step, b, held, marks
<1>11. step.residual = 0
  <2>1. step.residual =
          ((held + b.dv_new + b.dv_amend) * eod - held * sod - (b.cash_new + b.dv_amend * sod))
          - (held * marks.level + held * marks.shape
             + held * (eod - (sod + marks.level + marks.shape))
             + (b.dv_new * eod - b.cash_new) + b.dv_amend * (eod - sod))
    BY <1>4, <1>8, <1>10
  <2> HIDE DEF sod, eod
  <2> QED BY <1>4, <1>8, <1>9, <2>1, ComponentsExplain
<1>12. step.actual_pnl = b.volume * eod - held * sod - (PaidUpto(x, t + 1) - PaidUpto(x, t))
  BY <1>8, <1>10
<1>13. (t + 1) - 1 = t
  BY <1>1
<1> HIDE DEF sod, eod
<1>14. RowIs(step, x, t + 1)
  BY <1>4, <1>8, <1>10, <1>11, <1>12, <1>13 DEF RowIs, held
<1>15. step \in Steps
  <2>1. b.volume * eod \in Int /\ held * sod \in Int /\ b.cash_new + b.dv_amend * sod \in Int
    BY <1>4, <1>8, <1>9
  <2>2. step.actual_pnl \in Int
    BY <1>10, <2>1
  <2> QED BY <1>4, <1>8, <1>9, <1>10, <1>11, <2>2 DEF Steps
<1> QED BY <1>8, <1>10, <1>14, <1>15 DEF step, marks, held

-----------------------------------------------------------------------------
(* The walk through the instruments and their sessions.                    *)

\* How many sessions of the j-th instrument are attributed.
Progress(j) == IF j < instrument THEN NSessions ELSE IF j = instrument THEN day ELSE 0

\* Nothing is carried into a first session.
Fresh == idx = 0 /\ dealVolume = Empty /\ v0 = 0

Loop ==
  /\ instrument \in 1 .. (Len(Universe) + 1) /\ day \in 0 .. NSessions
  /\ ~Blotter!Finished => instrument = 1 /\ day = 0 /\ Fresh

RowsInv ==
  /\ rows \in [Range(Universe) -> Seq(Steps)]
  /\ \A j \in 1 .. Len(Universe) : Len(rows[Universe[j]]) = Progress(j)
  /\ \A x \in Range(Universe) : \A k \in 1 .. Len(rows[x]) : RowIs(rows[x][k], x, k)

\* What is carried from session to session: the messages before this session
\* are taken, and the volumes are theirs.
Carried(x, t) ==
  /\ idx \in Nat /\ (idx = 0 \/ idx <= Cardinality(DealsOf(x)))
  /\ First(DealsInOrder(x), idx) = Upto(x, t)
  /\ dealVolume = LastVolumes(Upto(x, t)) /\ v0 = NetVolume(Upto(x, t))

Threaded == instrument <= Len(Universe) => Carried(Universe[instrument], day)

WalkInv == Loop /\ RowsInv /\ Threaded

\* The blotter is left alone once it is complete.
LEMMA FinishedStays ==
  CurveInv /\ BlotterInv /\ Blotter!Finished /\ [Next]_vars
    => Built /\ UNCHANGED <<curves, session, deals>>
<1> SUFFICES ASSUME CurveInv, BlotterInv, Blotter!Finished, [Next]_vars
             PROVE  Built /\ UNCHANGED <<curves, session, deals>>
  OBVIOUS
<1>1. session = NSessions /\ NSessions \in Nat
  BY DrawsAssumption DEF Blotter!Finished
<1>2. Built
  <2>1. CASE NSessions = 0
    <3>1. \A c \in Range(Commodities) : Len(curves[c]) <= 0 /\ Len(curves[c]) \in Nat
      BY <2>1 DEF CurveInv
    <3> QED BY <2>1, <3>1 DEF Built
  <2>2. CASE NSessions # 0
    BY <1>1, <2>2 DEF BlotterInv, Turns
  <2> QED BY <2>1, <2>2
<1>3. left = 0
  BY <1>1 DEF BlotterInv, Turns
<1>4. ~BookDeal
  BY <1>3 DEF BookDeal, Blotter!DrawCount, Blotter!AmendDeal, Blotter!CancelDeal
<1>5. UNCHANGED curves
  BY <1>2, BuiltStays
<1> QED BY <1>2, <1>4, <1>5 DEF Next, vars, blotter, BuildCurves, AttributeSession, NextInstrument,
                               Summarise, Returned

LEMMA RowStays ==
  ASSUME UNCHANGED <<curves, deals>>, NEW r, NEW x, NEW k
  PROVE  RowIs(r, x, k)' <=> RowIs(r, x, k)
  BY DEF RowIs, Upto, DealsOf, PaidUpto, CashOf, Cash, OpenMark, ClosingMark, CurveOf, MarkSod,
         MarkEod, NetVolume

LEMMA CarriedStays ==
  ASSUME UNCHANGED <<deals, idx, dealVolume, v0>>, NEW x, NEW t
  PROVE  Carried(x, t)' <=> Carried(x, t)
  BY DEF Carried, Upto, DealsOf, DealsInOrder, LastVolumes, NetVolume, First

LEMMA NothingBefore ==
  deals \in Seq(DealSet) => (\A x : Upto(x, 0) = {}) /\ NetVolume({}) = 0 /\ LastVolumes({}) = Empty
<1> SUFFICES ASSUME deals \in Seq(DealSet)
             PROVE  (\A x : Upto(x, 0) = {}) /\ NetVolume({}) = 0 /\ LastVolumes({}) = Empty
  OBVIOUS
<1>1. ASSUME NEW x, NEW m \in DealsOf(x) PROVE ~(m.session < 0)
  <2>1. m \in DealSet
    BY DEF DealsOf, Range
  <2> QED BY <2>1, DealType
<1>2. LastVolumes({}) = Empty
  BY DEF LastVolumes, Empty
<1>3. NetVolume({}) = SumFunction(LastVolumes({}))
  BY VolumesType, FS_EmptySet DEF Numbered
<1>4. SumFunction(Empty) = 0
  BY SumEmpty DEF SumFunction, Empty
<1> QED BY <1>1, <1>2, <1>3, <1>4 DEF Upto

LEMMA FreshIsCarried == deals \in Seq(DealSet) /\ Fresh => \A x : Carried(x, 0)
<1> SUFFICES ASSUME NEW x, deals \in Seq(DealSet), Fresh PROVE Carried(x, 0)
  OBVIOUS
<1>1. Upto(x, 0) = {} /\ LastVolumes({}) = Empty /\ NetVolume({}) = 0
  BY NothingBefore
<1>2. First(DealsInOrder(x), 0) = {}
  BY DEF First
<1> QED BY <1>1, <1>2 DEF Carried, Fresh

LEMMA FreshIsCarriedNext == (deals \in Seq(DealSet))' /\ Fresh' => \A x : Carried(x, 0)'
<1>1. (deals \in Seq(DealSet) /\ Fresh => \A x : Carried(x, 0))'
  BY FreshIsCarried, PTL
<1> QED BY <1>1

\* Before the blotter is complete there is nothing to attribute.
LEMMA EarlyStepsKeepWalk ==
  CurveInv /\ BlotterInv /\ BlotterInv' /\ WalkInv /\ ~Blotter!Finished /\ [Next]_vars => WalkInv'
<1> SUFFICES ASSUME CurveInv, BlotterInv, BlotterInv', WalkInv, ~Blotter!Finished, [Next]_vars
             PROVE  WalkInv'
  OBVIOUS
<1>1. instrument = 1 /\ day = 0 /\ Fresh /\ Len(Universe) >= 1
  BY UniverseType DEF WalkInv, Loop
<1>2. UNCHANGED <<instrument, day, idx, dealVolume, v0, rows>>
  <2>1. ~Attributed
    BY <1>1, UniverseType DEF Attributed
  <2> QED BY <2>1 DEF Next, vars, walk, BuildCurves, BookDeal, AttributeSession, NextInstrument,
                      Summarise, Returned, Walking
<1>3. Loop' /\ Fresh'
  BY <1>1, <1>2 DEF WalkInv, Loop, Fresh, Empty
<1>4. \A x \in Range(Universe) : Len(rows[x]) = 0
  <2> SUFFICES ASSUME NEW x \in Range(Universe) PROVE Len(rows[x]) = 0
    OBVIOUS
  <2>1. PICK j \in 1 .. Len(Universe) : x = Universe[j]
    BY UniverseType DEF Range
  <2>2. Progress(j) = 0
    BY <1>1, UniverseType DEF Progress
  <2> QED BY <2>1, <2>2 DEF WalkInv, RowsInv
<1>5. RowsInv'
  <2>1. rows' \in [Range(Universe) -> Seq(Steps)]
    BY <1>2 DEF WalkInv, RowsInv
  <2>2. \A j \in 1 .. Len(Universe) : Len(rows'[Universe[j]]) = Progress(j)'
    BY <1>2 DEF WalkInv, RowsInv, Progress
  <2>3. \A x \in Range(Universe) : \A k \in 1 .. Len(rows'[x]) : RowIs(rows[x][k], x, k)'
    <3>1. \A x \in Range(Universe) : 1 .. Len(rows'[x]) = {}
      BY <1>2, <1>4
    <3> QED BY <3>1
  <2> QED BY <2>1, <2>2, <2>3 DEF RowsInv
<1>6. Threaded'
  <2>1. \A x : Carried(x, 0)'
    BY <1>3, FreshIsCarriedNext DEF BlotterInv, Written
  <2> QED BY <1>1, <1>2, <2>1 DEF Threaded, Carried
<1> QED BY <1>3, <1>5, <1>6 DEF WalkInv

LEMMA CarriedNext ==
  ASSUME NEW x, UNCHANGED deals, Universe[instrument'] = x,
         idx' \in Nat, idx' <= Cardinality(DealsOf(x)),
         First(DealsInOrder(x), idx') = Upto(x, day'),
         dealVolume' = LastVolumes(Upto(x, day')), v0' = NetVolume(Upto(x, day'))
  PROVE  Threaded'
<1>1. DealsOf(x)' = DealsOf(x)
  BY DEF DealsOf
<1>2. DealsInOrder(x)' = DealsInOrder(x)
  BY <1>1 DEF DealsInOrder
<1>3. \A t : Upto(x, t)' = Upto(x, t)
  BY <1>1 DEF Upto
<1>4. First(DealsInOrder(x), idx)' = Upto(x, day')
  BY <1>2 DEF First
<1>5. PICK t : t = day'
  OBVIOUS
<1>6. Carried(x, t)'
  BY <1>1, <1>3, <1>4, <1>5 DEF Carried, NetVolume, LastVolumes
<1> QED BY <1>5, <1>6 DEF Threaded, Carried

LEMMA AttributeKeepsWalk ==
  CurveInv /\ BlotterInv /\ WalkInv /\ AttributeSession => WalkInv'
<1> SUFFICES ASSUME CurveInv, BlotterInv, WalkInv, AttributeSession PROVE WalkInv'
  OBVIOUS
<1> DEFINE x == Universe[instrument]
           list == DealsInOrder(x)
           n == Taken(list, idx, day)
           step == Step(v0, dealVolume, Marks(x, day), SubSeq(list, idx + 1, idx + n))
<1>1. Blotter!Finished /\ instrument \in 1 .. Len(Universe) /\ day \in 0 .. NSessions - 1
      /\ NSessions \in Nat /\ day + 1 \in 0 .. NSessions
  BY UniverseType, DrawsAssumption DEF AttributeSession, Walking, WalkInv, Loop
<1>2. Built /\ UNCHANGED <<curves, session, deals>>
  <2>1. [Next]_vars
    BY DEF Next
  <2> QED BY <1>1, <2>1, FinishedStays
<1>3. /\ rows' = [rows EXCEPT ![x] = Append(@, step)]
      /\ idx' = idx + n /\ dealVolume' = step.deal_volume /\ v0' = step.v1
      /\ day' = day + 1 /\ instrument' = instrument
  BY DEF AttributeSession
<1>4. x \in Range(Universe) /\ Carried(x, day)
  BY <1>1, UniverseType DEF WalkInv, Threaded
<1>5. idx \in Nat /\ idx <= Cardinality(DealsOf(x)) /\ First(list, idx) = Upto(x, day)
      /\ dealVolume = LastVolumes(Upto(x, day)) /\ v0 = NetVolume(Upto(x, day))
  <2>1. Cardinality(DealsOf(x)) \in Nat
    BY DealsOfType, FS_CardinalityType DEF Numbered
  <2> QED BY <1>4, <2>1 DEF Carried
<1>6. RowIs(step, x, day + 1) /\ step.deal_volume = LastVolumes(Upto(x, day + 1)) /\ step \in Steps
  <2> DEFINE net == NetVolume(Upto(x, day))
             last == LastVolumes(Upto(x, day))
             taken == SubSeq(list, idx + 1, idx + n)
  <2>1. LET st == Step(net, last, Marks(x, day), taken)
        IN  /\ RowIs(st, x, day + 1) /\ st.deal_volume = LastVolumes(Upto(x, day + 1))
            /\ st \in Steps
    <3> HIDE DEF x
    <3> QED BY <1>1, <1>2, <1>4, <1>5, SessionStep
  <2>2. step = Step(net, last, Marks(x, day), taken)
    BY <1>5
  <2> HIDE DEF step, net, last, taken
  <2> QED BY <2>1, <2>2
<1>7. n \in Nat /\ idx + n <= Cardinality(DealsOf(x)) /\ First(list, idx + n) = Upto(x, day + 1)
  <2>1. day \in Nat
    BY <1>1
  <2> HIDE DEF x
  <2> QED BY <1>5, <2>1, TakenIsSession
<1> HIDE DEF step, n, list, x
<1>8. Loop'
  BY <1>1, <1>2, <1>3 DEF WalkInv, Loop, Blotter!Finished
<1>9. rows \in [Range(Universe) -> Seq(Steps)] /\ Len(rows[x]) = day /\ rows[x] \in Seq(Steps)
  <2>1. Len(rows[x]) = Progress(instrument)
    BY <1>1 DEF WalkInv, RowsInv, x
  <2> QED BY <1>1, <1>4, <2>1 DEF WalkInv, RowsInv, Progress
<1>10. /\ rows' \in [Range(Universe) -> Seq(Steps)]
       /\ rows'[x] = Append(rows[x], step)
       /\ \A y \in Range(Universe) : y # x => rows'[y] = rows[y]
  BY <1>3, <1>4, <1>6, <1>9
<1>11. /\ Len(rows'[x]) = day + 1 /\ rows'[x][day + 1] = step
       /\ \A k \in 1 .. day : rows'[x][k] = rows[x][k]
  BY <1>6, <1>9, <1>10
<1>12. \A j \in 1 .. Len(Universe) : Len(rows'[Universe[j]]) = Progress(j)'
  <2> SUFFICES ASSUME NEW j \in 1 .. Len(Universe) PROVE Len(rows'[Universe[j]]) = Progress(j)'
    OBVIOUS
  <2>1. CASE j = instrument
    BY <1>1, <1>3, <1>11, <2>1 DEF Progress, x
  <2>2. CASE j # instrument
    <3>1. Universe[j] # x /\ Universe[j] \in Range(Universe)
      BY <1>1, <2>2, UniverseType DEF x
    <3>2. Progress(j)' = Progress(j)
      BY <1>3, <2>2 DEF Progress
    <3> QED BY <1>10, <3>1, <3>2 DEF WalkInv, RowsInv
  <2> QED BY <2>1, <2>2
<1>13. \A y \in Range(Universe) : \A k \in 1 .. Len(rows'[y]) : RowIs(rows'[y][k], y, k)
  <2> SUFFICES ASSUME NEW y \in Range(Universe), NEW k \in 1 .. Len(rows'[y])
               PROVE  RowIs(rows'[y][k], y, k)
    OBVIOUS
  <2>1. CASE y # x
    BY <1>10, <2>1 DEF WalkInv, RowsInv
  <2>2. CASE y = x /\ k \in 1 .. day
    BY <1>9, <1>11, <2>2 DEF WalkInv, RowsInv
  <2>3. CASE y = x /\ k = day + 1
    BY <1>6, <1>11, <2>3
  <2>4. y = x => k \in 1 .. day \/ k = day + 1
    BY <1>1, <1>11
  <2> QED BY <2>1, <2>2, <2>3, <2>4
<1>14. \A y \in Range(Universe) : \A k \in 1 .. Len(rows'[y]) : RowIs(rows[y][k], y, k)'
  <2> SUFFICES ASSUME NEW y \in Range(Universe), NEW k \in 1 .. Len(rows'[y])
               PROVE  RowIs(rows[y][k], y, k)'
    OBVIOUS
  <2> DEFINE r == rows'[y][k]
  <2>1. \A rr : RowIs(rr, y, k)' <=> RowIs(rr, y, k)
    BY <1>2, RowStays
  <2>2. RowIs(r, y, k)
    BY <1>13
  <2> QED BY <1>2, <2>2 DEF RowIs, Upto, DealsOf, PaidUpto, CashOf, Cash, OpenMark, ClosingMark,
                            CurveOf, MarkSod, MarkEod, NetVolume
<1>15. Threaded'
  <2>1. idx' \in Nat /\ idx' <= Cardinality(DealsOf(x)) /\ First(list, idx') = Upto(x, day')
    BY <1>3, <1>5, <1>7
  <2>2. dealVolume' = LastVolumes(Upto(x, day')) /\ v0' = NetVolume(Upto(x, day'))
    BY <1>3, <1>6 DEF RowIs
  <2>3. Universe[instrument'] = x
    BY <1>3 DEF x
  <2> QED BY <1>2, <2>1, <2>2, <2>3, CarriedNext DEF list
<1> QED BY <1>8, <1>10, <1>12, <1>14, <1>15 DEF WalkInv, RowsInv

LEMMA QuietStepsKeepRows ==
  CurveInv /\ WalkInv /\ UNCHANGED <<curves, session, deals, rows>>
    => \A x \in Range(Universe) : \A k \in 1 .. Len(rows'[x]) : RowIs(rows[x][k], x, k)'
<1> SUFFICES ASSUME CurveInv, WalkInv, UNCHANGED <<curves, session, deals, rows>>,
                    NEW x \in Range(Universe), NEW k \in 1 .. Len(rows'[x])
             PROVE  RowIs(rows[x][k], x, k)'
  OBVIOUS
<1>1. PICK r : r = rows[x][k]
  OBVIOUS
<1>2. RowIs(r, x, k)
  BY <1>1 DEF WalkInv, RowsInv
<1>3. RowIs(r, x, k)'
  BY <1>2, RowStays
<1> QED BY <1>1, <1>3 DEF RowIs

LEMMA NextInstrumentKeepsWalk ==
  CurveInv /\ BlotterInv /\ BlotterInv' /\ WalkInv /\ NextInstrument => WalkInv'
<1> SUFFICES ASSUME CurveInv, BlotterInv, BlotterInv', WalkInv, NextInstrument PROVE WalkInv'
  OBVIOUS
<1>1. /\ Blotter!Finished /\ instrument \in 1 .. Len(Universe) /\ day = NSessions
      /\ NSessions \in Nat
  BY UniverseType, DrawsAssumption DEF NextInstrument, Walking, WalkInv, Loop
<1>2. /\ instrument' = instrument + 1 /\ day' = 0
      /\ UNCHANGED <<curves, session, deals, rows>>
  BY DEF NextInstrument, blotter
<1>3. Fresh'
  BY DEF NextInstrument, Fresh, Empty
<1>4. Loop'
  BY <1>1, <1>2, UniverseType DEF Loop, Blotter!Finished, NextInstrument, blotter
<1>5. Threaded'
  <2>1. \A x : Carried(x, 0)'
    BY <1>3, FreshIsCarriedNext DEF BlotterInv, Written
  <2> QED BY <1>2, <2>1 DEF Threaded, Carried
<1>6. rows' \in [Range(Universe) -> Seq(Steps)]
  BY <1>2 DEF WalkInv, RowsInv
<1>7. \A j \in 1 .. Len(Universe) : Len(rows'[Universe[j]]) = Progress(j)'
  <2> SUFFICES ASSUME NEW j \in 1 .. Len(Universe) PROVE Progress(j)' = Progress(j)
    BY <1>2 DEF WalkInv, RowsInv
  <2> QED BY <1>1, <1>2, UniverseType DEF Progress
<1> QED BY <1>2, <1>4, <1>5, <1>6, <1>7, QuietStepsKeepRows DEF WalkInv, RowsInv

LEMMA QuietStepsKeepWalk ==
  CurveInv /\ WalkInv
    /\ UNCHANGED <<curves, session, deals, instrument, day, idx, dealVolume, v0, rows>>
    => WalkInv'
<1> SUFFICES ASSUME CurveInv, WalkInv,
                    UNCHANGED <<curves, session, deals, instrument, day, idx, dealVolume, v0, rows>>
             PROVE  WalkInv'
  OBVIOUS
<1>1. Loop'
  BY DEF WalkInv, Loop, Fresh, Empty, Blotter!Finished
<1>2. Threaded'
  <2>1. PICK x, t : x = Universe[instrument] /\ t = day
    OBVIOUS
  <2>2. Carried(x, t) => Carried(x, t)'
    BY CarriedStays
  <2> QED BY <2>1, <2>2 DEF WalkInv, Threaded, Carried
<1>3. rows' \in [Range(Universe) -> Seq(Steps)]
      /\ \A j \in 1 .. Len(Universe) : Len(rows'[Universe[j]]) = Progress(j)'
  BY DEF WalkInv, RowsInv, Progress
<1> QED BY <1>1, <1>2, <1>3, QuietStepsKeepRows DEF WalkInv, RowsInv

ForwardInv == CurveInv /\ BlotterInv /\ WalkInv

LEMMA NextKeepsForward == ForwardInv /\ [Next]_vars => ForwardInv'
<1> SUFFICES ASSUME CurveInv, BlotterInv, WalkInv, [Next]_vars PROVE ForwardInv'
  BY DEF ForwardInv
<1>1. CurveInv' /\ BlotterInv'
  BY NextKeepsCurves, NextKeepsBlotter
<1>2. WalkInv'
  <2>1. CASE ~Blotter!Finished
    BY <1>1, <2>1, EarlyStepsKeepWalk
  <2>2. CASE AttributeSession
    BY <2>2, AttributeKeepsWalk
  <2>3. CASE NextInstrument
    BY <1>1, <2>3, NextInstrumentKeepsWalk
  <2>4. CASE Blotter!Finished /\ ~AttributeSession /\ ~NextInstrument
    <3>1. UNCHANGED <<curves, session, deals>>
      BY <2>4, FinishedStays
    <3>2. UNCHANGED <<instrument, day, idx, dealVolume, v0, rows>>
      BY <2>4 DEF Next, vars, walk, BuildCurves, BookDeal, Summarise, Returned
    <3> QED BY <3>1, <3>2, QuietStepsKeepWalk
  <2> QED BY <2>1, <2>2, <2>3, <2>4
<1> QED BY <1>1, <1>2 DEF ForwardInv

LEMMA ForwardInvariant == Spec => []ForwardInv
<1>1. Init => WalkInv
  <2> SUFFICES ASSUME Init PROVE WalkInv
    OBVIOUS
  <2>1. /\ instrument = 1 /\ day = 0 /\ Fresh
        /\ rows = [x \in Range(Universe) |-> << >>] /\ deals = << >>
    BY DEF Init, Blotter!Init, Fresh
  <2>2. Loop
    BY <2>1, UniverseType, DrawsAssumption DEF Loop
  <2>3. \A x \in Range(Universe) : Len(rows[x]) = 0 /\ 1 .. Len(rows[x]) = {}
    BY <2>1
  <2>4. << >> \in Seq(Steps)
    OBVIOUS
  <2>5. RowsInv
    BY <2>1, <2>3, <2>4, UniverseType DEF RowsInv, Progress
  <2>6. deals \in Seq(DealSet)
    BY <2>1
  <2>7. Threaded
    BY <2>1, <2>6, FreshIsCarried DEF Threaded
  <2> QED BY <2>2, <2>5, <2>7 DEF WalkInv
<1>2. ForwardInv /\ [Next]_vars => ForwardInv'
  BY NextKeepsForward
<1>3. Spec => [](CurveInv /\ BlotterInv)
  BY BlotterInvariant
<1>4. Init /\ CurveInv /\ BlotterInv => ForwardInv
  BY <1>1 DEF ForwardInv
<1> QED BY <1>2, <1>3, <1>4, PTL DEF Spec

\* The threaded volumes are the positions of the messages so far, for every
\* universe, schedule and draw.
THEOREM VolumesAreThreaded == Spec => []VolumesAreNetPositions
<1>1. ForwardInv => VolumesAreNetPositions
  <2> SUFFICES ASSUME ForwardInv, NEW x \in Range(Universe), NEW k \in DOMAIN rows[x]
               PROVE  rows[x][k].v1 = Blotter!NetVolume({m \in DealsOf(x) : m.session < k})
    BY DEF VolumesAreNetPositions
  <2>1. rows[x] \in Seq(Steps)
    BY DEF ForwardInv, WalkInv, RowsInv
  <2>2. RowIs(rows[x][k], x, k)
    BY <2>1 DEF ForwardInv, WalkInv, RowsInv
  <2> QED BY <2>2 DEF RowIs, Upto, NetVolume
<1> QED BY <1>1, ForwardInvariant, PTL

-----------------------------------------------------------------------------
(* What an instrument earned over its sessions.                            *)

\* The position after so many sessions at its close, less what was paid for it.
Worth(x, t) ==
  IF t = 0 THEN 0 ELSE NetVolume(Upto(x, t)) * ClosingMark(x, t - 1) - PaidUpto(x, t)

\* A session opens at the marks the one before closed at.
LEMMA OpensWhereItClosed ==
  ASSUME CurveInv, Built, NEW x \in Range(Universe), NEW t \in 1 .. NSessions - 1
  PROVE  OpenMark(x, t) = ClosingMark(x, t - 1)
<1>1. t \in 0 .. NSessions - 1 /\ t > 0 /\ NSessions \in Nat
  BY DrawsAssumption
<1>2. CurveOf(x, t).grid_sod = CurveOf(x, t - 1).grid_eod
  BY <1>1, CurveIsRead
<1>3. InitialTenor[x] \in Int
  BY BookAssumption
<1>4. TenorSod(x, t) = TenorSod(x, t - 1) - 1
  BY <1>1, <1>3 DEF TenorSod
<1> QED BY <1>2, <1>4 DEF OpenMark, ClosingMark, MarkSod, MarkEod

LEMMA PaidType ==
  ASSUME CurveInv, BlotterInv, Built, NEW x \in Range(Universe), NEW t
  PROVE  PaidUpto(x, t) \in Int /\ IsFiniteSet(Upto(x, t)) /\ \A m \in Upto(x, t) : CashOf(x)[m] = Cash(m) /\ Cash(m) \in Int
<1> DEFINE S == Upto(x, t)
           cash == CashOf(x)
<1>1. IsFiniteSet(S) /\ S \subseteq DealsOf(x)
  BY UptoType DEF Numbered
<1>2. \A m \in S : cash[m] = Cash(m) /\ Cash(m) \in Int
  BY <1>1, CashType
<1> HIDE DEF S, cash
<1>3. SumFunctionOnSet(cash, S) \in Int
  BY <1>1, <1>2, SumType
<1> QED BY <1>1, <1>2, <1>3 DEF PaidUpto, S, cash

\* What a session earned is what the position became worth more.
LEMMA RowEarns ==
  ASSUME CurveInv, BlotterInv, Built, NEW x \in Range(Universe), NEW k \in 1 .. NSessions,
         NEW row, RowIs(row, x, k)
  PROVE  row.actual_pnl = Worth(x, k) - Worth(x, k - 1) /\ Worth(x, k) \in Int /\ Worth(x, k - 1) \in Int
<1>1. k \in Nat /\ k # 0 /\ k - 1 \in 0 .. NSessions - 1 /\ NSessions \in Nat
      /\ (k # 1 => k - 1 \in 1 .. NSessions - 1 /\ (k - 1) - 1 \in 0 .. NSessions - 1)
  BY DrawsAssumption
<1> DEFINE n == NetVolume(Upto(x, k))
           n0 == NetVolume(Upto(x, k - 1))
           p == PaidUpto(x, k)
           p0 == PaidUpto(x, k - 1)
           close == ClosingMark(x, k - 1)
           open == OpenMark(x, k - 1)
<1>2. n \in Int /\ n0 \in Int /\ p \in Int /\ p0 \in Int
  BY UptoType, PaidType
<1>3. close \in Int /\ open \in Int
  BY <1>1, MarksSplit
<1>4. row.actual_pnl = n * close - n0 * open - (p - p0)
  BY DEF RowIs
<1>5. Worth(x, k) = n * close - p
  BY <1>1 DEF Worth
<1>6. Worth(x, k - 1) = n0 * open - p0
  <2>1. CASE k = 1
    <3>0. k - 1 = 0
      BY <2>1
    <3>1. Upto(x, k - 1) = {} /\ n0 = 0
      <4>1. deals \in Seq(DealSet)
        BY DEF BlotterInv, Written
      <4>2. Upto(x, k - 1) = {}
        BY <3>0, <4>1, NothingBefore
      <4> QED BY <4>1, <4>2, NothingBefore
    <3>2. p0 = 0
      BY <3>1, SumEmpty DEF PaidUpto
    <3>3. 0 * open = 0
      BY <1>3
    <3> QED BY <3>0, <3>1, <3>2, <3>3 DEF Worth
  <2>2. CASE k # 1
    <3>1. open = ClosingMark(x, (k - 1) - 1)
      BY <1>1, <2>2, OpensWhereItClosed
    <3> QED BY <1>1, <2>2, <3>1 DEF Worth
  <2> QED BY <2>1, <2>2
<1> HIDE DEF n, n0, p, p0, close, open
<1>7. n * close \in Int /\ n0 * open \in Int
  BY <1>2, <1>3
<1> QED BY <1>2, <1>4, <1>5, <1>6, <1>7

LEMMA SessionsAddUp == ForwardInv => PnlAddsUp
<1> SUFFICES ASSUME ForwardInv, NEW x \in Range(Universe), rows[x] # << >>
             PROVE  LET sofar == rows[x]
                        booked == {m \in DealsOf(x) : m.session < Len(sofar)}
                    IN  Total([k \in DOMAIN sofar |-> sofar[k].actual_pnl]) =
                        Last(sofar).v1 * Last(sofar).mark_eod - Total([m \in booked |-> Cash(m)])
  BY DEF PnlAddsUp
<1> DEFINE sofar == rows[x]
           n == Len(sofar)
           f == [k \in 1 .. n |-> sofar[k].actual_pnl]
           v == [t \in 0 .. n |-> Worth(x, t)]
<1>1. /\ CurveInv /\ BlotterInv /\ NSessions \in Nat
      /\ sofar \in Seq(Steps) /\ DOMAIN sofar = 1 .. n /\ n \in Nat /\ n # 0
      /\ \A k \in 1 .. n : RowIs(sofar[k], x, k)
  BY DrawsAssumption DEF ForwardInv, WalkInv, RowsInv
<1>2. Built /\ n <= NSessions
  <2>1. PICK j \in 1 .. Len(Universe) : x = Universe[j]
    BY UniverseType DEF Range
  <2>2. n = Progress(j) /\ Loop
    BY <2>1 DEF ForwardInv, WalkInv, RowsInv
  <2>3. n <= NSessions
    BY <1>1, <2>2 DEF Progress, Loop
  <2>4. Blotter!Finished
    BY <1>1, <2>2 DEF Progress, Loop
  <2>5. session = NSessions /\ NSessions # 0
    BY <1>1, <2>3, <2>4 DEF Blotter!Finished
  <2> QED BY <1>1, <2>3, <2>5 DEF BlotterInv, Turns
<1> HIDE DEF sofar, n
<1>3. \A k \in 1 .. n : /\ sofar[k].actual_pnl = Worth(x, k) - Worth(x, k - 1)
                        /\ Worth(x, k) \in Int /\ Worth(x, k - 1) \in Int
  BY <1>1, <1>2, RowEarns
<1>4. \A t \in 0 .. n : v[t] \in Int
  <2>1. \A t \in 0 .. n : t \in 1 .. n \/ t = 0
    BY <1>1
  <2>2. Worth(x, 0) \in Int
    BY DEF Worth
  <2> QED BY <1>3, <2>1, <2>2
<1>5. \A k \in 1 .. n : f[k] = v[k] - v[k - 1]
  <2>1. \A k \in 1 .. n : k \in 0 .. n /\ k - 1 \in 0 .. n
    BY <1>1
  <2> QED BY <1>3, <2>1
<1>6. SumFunctionOnSet(f, 1 .. n) = v[n] - v[0]
  <2> HIDE DEF f, v
  <2>1. SumFunctionOnSet(f, (0 + 1) .. (0 + n)) = v[0 + n] - v[0]
    <3>1. 0 + 1 = 1 /\ 0 + n = n /\ 0 \in Int /\ n \in Nat
      BY <1>1
    <3>2. /\ \A k \in 0 .. (0 + n) : v[k] \in Int
          /\ \A k \in (0 + 1) .. (0 + n) : f[k] = v[k] - v[k - 1]
      BY <1>4, <1>5, <3>1
    <3> QED BY ONLY <3>1, <3>2, SumTelescopes
  <2>2. 0 + 1 = 1 /\ 0 + n = n
    BY <1>1
  <2> QED BY <2>1, <2>2
<1>7. Total(f) = Worth(x, n)
  <2>1. n \in 0 .. n /\ 0 \in 0 .. n /\ v[n] = Worth(x, n) /\ v[0] = 0
    BY <1>1 DEF Worth
  <2>2. DOMAIN f = 1 .. n /\ v[n] \in Int
    BY <1>4, <2>1
  <2> HIDE DEF f, v
  <2> QED BY <1>6, <2>1, <2>2 DEF Total, SumFunction
<1>8. PaidUpto(x, n) = Total([m \in Upto(x, n) |-> Cash(m)])
  <2> DEFINE paid == [m \in Upto(x, n) |-> Cash(m)]
             S == Upto(x, n)
             cash == CashOf(x)
  <2>1. IsFiniteSet(S) /\ \A m \in S : cash[m] \in Int /\ cash[m] = paid[m]
    BY <1>1, <1>2, PaidType
  <2>2. DOMAIN paid = S
    OBVIOUS
  <2> HIDE DEF paid, S, cash
  <2>3. SumFunctionOnSet(cash, S) = SumFunctionOnSet(paid, S)
    BY <2>1, SumSame
  <2> QED BY <2>2, <2>3 DEF PaidUpto, Total, SumFunction, paid, S, cash
<1>9. Worth(x, n) = Last(sofar).v1 * Last(sofar).mark_eod - PaidUpto(x, n)
  <2>1. Last(sofar) = sofar[n] /\ n \in 1 .. n
    BY <1>1 DEF Last, n
  <2>2. RowIs(sofar[n], x, n)
    BY <1>1, <2>1
  <2> QED BY <1>1, <2>1, <2>2 DEF RowIs, Worth
<1>10. f = [k \in DOMAIN sofar |-> sofar[k].actual_pnl]
  BY <1>1
<1>11. Upto(x, n) = {m \in DealsOf(x) : m.session < n}
  BY DEF Upto
<1> QED BY <1>7, <1>8, <1>9, <1>10, <1>11 DEF n, sofar

\* What an instrument earned is what its position is worth less what was paid.
THEOREM EarnedIsWorth == Spec => []PnlAddsUp
  BY SessionsAddUp, ForwardInvariant, PTL

-----------------------------------------------------------------------------
(* The summary of all rows.                                                *)

SizesOf(frame, amount) == [p \in DOMAIN frame |-> Size(frame[p][amount])]

LEMMA SizeIsNat == \A a \in Int : Size(a) \in Int /\ Size(a) >= a /\ Size(a) >= -a /\ (a = 0 => Size(a) = 0)
  BY DEF Size

\* The figure of a session is the sum over its rows, the overall one over all rows.
LEMMA SumsOfFrame ==
  ASSUME NEW frame, IsFiniteSet(DOMAIN frame), NEW amount,
         \A p \in DOMAIN frame : frame[p][amount] \in Int
  PROVE  LET sums == PerSession(frame, amount)
             sizes == SizesOf(frame, amount)
         IN  /\ IsFiniteSet(SessionIds(frame)) /\ DOMAIN sums = SessionIds(frame)
             /\ \A sid \in SessionIds(frame) :
                  sums[sid] = SumFunctionOnSet(sizes, {p \in DOMAIN frame : frame[p].session_id = sid})
             /\ Overall(sums) = SumFunctionOnSet(sizes, DOMAIN frame)
<1> DEFINE sums == PerSession(frame, amount)
           sizes == SizesOf(frame, amount)
           S == DOMAIN frame
           key == [p \in S |-> frame[p].session_id]
<1>1. \A p \in S : sizes[p] \in Int /\ sizes[p] = Size(frame[p][amount])
  BY SizeIsNat DEF SizesOf
<1>2. DOMAIN sums = SessionIds(frame) /\ DOMAIN sums = {key[p] : p \in S}
  BY DEF PerSession, SessionIds
<1>3. \A sid : {p \in S : key[p] = sid} = {p \in DOMAIN frame : frame[p].session_id = sid}
  OBVIOUS
<1>4. ASSUME NEW sid \in DOMAIN sums
      PROVE  sums[sid] = SumFunction([p \in {q \in S : key[q] = sid} |-> sizes[p]])
  <2>1. sums[sid] = SumFunction([k \in {n \in DOMAIN frame : frame[n].session_id = sid} |->
                                   Size(frame[k][amount])])
    BY <1>2 DEF PerSession
  <2>2. [k \in {n \in DOMAIN frame : frame[n].session_id = sid} |-> Size(frame[k][amount])]
        = [p \in {q \in S : key[q] = sid} |-> sizes[p]]
    BY <1>1, <1>3
  <2> QED BY <2>1, <2>2
<1> HIDE DEF sums, sizes, key, S
<1>5. /\ IsFiniteSet(DOMAIN sums) /\ SumFunction(sums) = SumFunctionOnSet(sizes, S)
      /\ \A sid \in DOMAIN sums : sums[sid] = SumFunctionOnSet(sizes, {p \in S : key[p] = sid})
  <2>1. IsFiniteSet(S)
    BY DEF S
  <2>2. SumsOfGroups(sums, sizes, S, key)
    BY <1>2, <1>4 DEF SumsOfGroups
  <2>3. ByGroup(sums, sizes, S, key, DOMAIN sums)
        /\ IsFiniteSet(DOMAIN sums) /\ SumFunction(sums) = SumFunctionOnSet(sizes, S)
    BY ONLY <1>1, <2>1, <2>2, GroupsAddUp
  <2> QED BY <2>3 DEF ByGroup
<1> QED BY <1>2, <1>3, <1>5 DEF Overall, S, sums, sizes

LEMMA FrameType ==
  ASSUME ForwardInv
  PROVE  /\ IsFiniteSet(DOMAIN Frame)
         /\ \A p \in DOMAIN Frame :
              Frame[p].residual = 0 /\ Frame[p].actual_pnl \in Int
         /\ Attributed => \A t \in 0 .. NSessions - 1 : t \in SessionIds(Frame)
<1>1. /\ NSessions \in Nat /\ rows \in [Range(Universe) -> Seq(Steps)]
      /\ \A x \in Range(Universe) : /\ DOMAIN rows[x] \subseteq 1 .. NSessions
                                    /\ Attributed => DOMAIN rows[x] = 1 .. NSessions
  <2> SUFFICES ASSUME NEW x \in Range(Universe)
               PROVE  /\ DOMAIN rows[x] \subseteq 1 .. NSessions
                      /\ Attributed => DOMAIN rows[x] = 1 .. NSessions
    BY DrawsAssumption DEF ForwardInv, WalkInv, RowsInv
  <2>1. PICK j \in 1 .. Len(Universe) : x = Universe[j]
    BY UniverseType DEF Range
  <2>2. Len(rows[x]) = Progress(j) /\ rows[x] \in Seq(Steps) /\ Loop
    BY <2>1 DEF ForwardInv, WalkInv, RowsInv
  <2>3. DOMAIN rows[x] = 1 .. Len(rows[x])
    BY <2>2
  <2>4. Progress(j) \in Nat /\ Progress(j) <= NSessions /\ (Attributed => Progress(j) = NSessions)
    BY <2>2, UniverseType, DrawsAssumption DEF Progress, Loop, Attributed
  <2>5. 1 .. Progress(j) \subseteq 1 .. NSessions
    BY <2>4, DrawsAssumption
  <2>6. Attributed => 1 .. Progress(j) = 1 .. NSessions
    BY <2>4
  <2>7. DOMAIN rows[x] = 1 .. Progress(j)
    BY <2>2, <2>3
  <2> QED BY <2>5, <2>6, <2>7
<1> DEFINE pairs == UNION {{x} \X DOMAIN rows[x] : x \in Range(Universe)}
<1>2. DOMAIN Frame = pairs
  BY DEF Frame
<1>3. \A p \in pairs : /\ p[1] \in Range(Universe) /\ p[2] \in DOMAIN rows[p[1]]
                       /\ p \in Range(Universe) \X (1 .. NSessions)
  BY <1>1
<1>4. IsFiniteSet(pairs)
  <2>1. IsFiniteSet(Range(Universe))
    <3>1. Range(Universe) = {Universe[j] : j \in 1 .. Len(Universe)}
      BY UniverseType DEF Range
    <3>2. IsFiniteSet(1 .. Len(Universe))
      BY UniverseType, FS_Interval
    <3> QED BY <3>1, <3>2, ImageIsFinite
  <2>2. IsFiniteSet(1 .. NSessions)
    BY <1>1, FS_Interval
  <2>3. IsFiniteSet(Range(Universe) \X (1 .. NSessions))
    BY <2>1, <2>2, FS_Product
  <2>4. pairs \subseteq Range(Universe) \X (1 .. NSessions)
    BY <1>3
  <2> HIDE DEF pairs
  <2> QED BY <2>3, <2>4, FS_Subset
<1>5. \A p \in pairs : /\ Frame[p].session_id = p[2] - 1
                       /\ Frame[p].actual_pnl = rows[p[1]][p[2]].actual_pnl
                       /\ Frame[p].residual = rows[p[1]][p[2]].residual
  BY DEF Frame
<1>6. \A p \in pairs : Frame[p].residual = 0 /\ Frame[p].actual_pnl \in Int
  <2> SUFFICES ASSUME NEW p \in pairs PROVE Frame[p].residual = 0 /\ Frame[p].actual_pnl \in Int
    OBVIOUS
  <2> DEFINE x == p[1]
             k == p[2]
  <2>1. x \in Range(Universe) /\ k \in DOMAIN rows[x]
    BY <1>3
  <2>2. rows[x] \in Seq(Steps) /\ k \in 1 .. Len(rows[x])
    BY <1>1, <2>1
  <2>3. RowIs(rows[x][k], x, k) /\ rows[x][k] \in Steps
    BY <2>1, <2>2 DEF ForwardInv, WalkInv, RowsInv
  <2> QED BY <1>5, <2>3 DEF RowIs, Steps
<1>7. ASSUME Attributed, NEW t \in 0 .. NSessions - 1 PROVE t \in SessionIds(Frame)
  <2> DEFINE x == Universe[1]
             p == <<x, t + 1>>
  <2>1. x \in Range(Universe)
    BY UniverseType DEF Range
  <2>2. t + 1 \in DOMAIN rows[x] /\ (t + 1) - 1 = t
    BY <1>1, <1>7, <2>1
  <2>3. p \in pairs /\ p[2] = t + 1
    BY <2>1, <2>2
  <2>4. p \in DOMAIN Frame /\ Frame[p].session_id = t
    BY <1>2, <1>5, <2>2, <2>3
  <2> QED BY <2>4 DEF SessionIds
<1> QED BY <1>2, <1>4, <1>6, <1>7

GrossOfBook == Total([p \in DOMAIN Frame |-> Frame[p].actual_pnl])

\* What the summary says of the rows, which stay as they are once it is made.
SummaryInv ==
  summary # << >> =>
    /\ Attributed
    /\ summary.overall_ratio.num = 0
    /\ \A t \in 0 .. NSessions - 1 : summary.per_session_ratio[t].num = 0
    /\ summary.total_gross >= Size(GrossOfBook)

LEMMA GrossCoversNet ==
  ASSUME ForwardInv
  PROVE  Overall(PerSession(Frame, "actual_pnl")) >= Size(GrossOfBook)
<1> DEFINE S == DOMAIN Frame
           pnl == [p \in S |-> Frame[p].actual_pnl]
           sizes == SizesOf(Frame, "actual_pnl")
<1>1. IsFiniteSet(S) /\ \A p \in S : Frame[p].actual_pnl \in Int
  BY FrameType
<1>2. Overall(PerSession(Frame, "actual_pnl")) = SumFunctionOnSet(sizes, S)
  <2>1. \A p \in DOMAIN Frame : Frame[p]["actual_pnl"] \in Int
    BY <1>1
  <2> QED BY <1>1, <2>1, SumsOfFrame
<1>3. \A p \in S : /\ pnl[p] \in Int /\ sizes[p] \in Int
                   /\ sizes[p] >= pnl[p] /\ sizes[p] >= -pnl[p]
  BY <1>1, SizeIsNat DEF SizesOf
<1>4. GrossOfBook = SumFunctionOnSet(pnl, S)
  BY DEF GrossOfBook, Total, SumFunction
<1> HIDE DEF S, pnl, sizes
<1>5. /\ SumFunctionOnSet(sizes, S) >= SumFunctionOnSet(pnl, S)
      /\ SumFunctionOnSet(sizes, S) >= -SumFunctionOnSet(pnl, S)
  BY <1>1, <1>3, SumBounded
<1> QED BY <1>2, <1>4, <1>5 DEF Size

LEMMA NothingUnexplained ==
  ASSUME ForwardInv
  PROVE  LET residual == PerSession(Frame, "residual")
         IN  Overall(residual) = 0 /\ \A t \in SessionIds(Frame) : residual[t] = 0
<1> DEFINE S == DOMAIN Frame
           residual == PerSession(Frame, "residual")
           sizes == SizesOf(Frame, "residual")
           Group(t) == {p \in S : Frame[p].session_id = t}
<1>1. IsFiniteSet(S) /\ \A p \in S : Frame[p].residual = 0
  BY FrameType
<1>2. /\ Overall(residual) = SumFunctionOnSet(sizes, S)
      /\ \A t \in SessionIds(Frame) : residual[t] = SumFunctionOnSet(sizes, Group(t))
  <2>1. \A p \in DOMAIN Frame : Frame[p]["residual"] \in Int
    BY <1>1
  <2> QED BY <1>1, <2>1, SumsOfFrame
<1>3. \A p \in S : sizes[p] = 0
  BY <1>1, SizeIsNat DEF SizesOf
<1>4. \A t : IsFiniteSet(Group(t)) /\ \A p \in Group(t) : sizes[p] = 0
  BY <1>1, <1>3, FS_Subset
<1> HIDE DEF S, sizes, residual, Group
<1>5. SumFunctionOnSet(sizes, S) = 0 /\ \A t : SumFunctionOnSet(sizes, Group(t)) = 0
  BY <1>1, <1>3, <1>4, SumOfZeros
<1> QED BY <1>2, <1>5 DEF residual

LEMMA SummariseIsTrue == ForwardInv /\ Summarise => SummaryInv'
<1> SUFFICES ASSUME ForwardInv, Summarise PROVE SummaryInv'
  OBVIOUS
<1> DEFINE gross == PerSession(Frame, "actual_pnl")
           residual == PerSession(Frame, "residual")
<1>1. /\ Attributed /\ UNCHANGED <<rows, instrument>>
      /\ summary' = [total_gross |-> Overall(gross),
                     total_residual |-> Overall(residual),
                     overall_ratio |-> Ratio(Overall(residual), Overall(gross)),
                     per_session_ratio |-> Ratios(residual, gross)]
  BY DEF Summarise
<1>2. Overall(residual) = 0 /\ \A t \in SessionIds(Frame) : residual[t] = 0
  BY NothingUnexplained
<1>3. Overall(gross) >= Size(GrossOfBook)
  BY GrossCoversNet
<1>4. \A t \in 0 .. NSessions - 1 : t \in SessionIds(Frame)
  BY <1>1, FrameType
<1>5. DOMAIN gross = SessionIds(Frame)
  BY DEF PerSession
<1> HIDE DEF gross, residual
<1>6. \A whole : Ratio(0, whole).num = 0
  BY DEF Ratio
<1>7. Ratio(Overall(residual), Overall(gross)).num = 0
  BY <1>2, <1>6
<1>8. ASSUME NEW t \in 0 .. NSessions - 1 PROVE Ratios(residual, gross)[t].num = 0
  BY <1>2, <1>4, <1>5, <1>6 DEF Ratios
<1>9. /\ summary'.overall_ratio.num = 0 /\ summary'.total_gross >= Size(GrossOfBook)
      /\ \A t \in 0 .. NSessions - 1 : summary'.per_session_ratio[t].num = 0
  BY <1>1, <1>3, <1>7, <1>8
<1>10. GrossOfBook' = GrossOfBook
  BY <1>1 DEF GrossOfBook, Frame
<1>11. Attributed'
  BY <1>1 DEF Attributed
<1> QED BY <1>9, <1>10, <1>11 DEF SummaryInv

LEMMA NextKeepsSummary == ForwardInv /\ SummaryInv /\ [Next]_vars => SummaryInv'
<1> SUFFICES ASSUME ForwardInv, SummaryInv, [Next]_vars PROVE SummaryInv'
  OBVIOUS
<1>1. CASE Summarise
  BY <1>1, SummariseIsTrue
<1>2. CASE ~Summarise
  <2>1. UNCHANGED summary
    BY <1>2 DEF Next, vars, walk, BuildCurves, BookDeal, AttributeSession, NextInstrument, Returned
  <2>2. SUFFICES ASSUME summary # << >> PROVE SummaryInv'
    BY <2>1 DEF SummaryInv
  <2>3. Attributed /\ Len(Universe) \in Nat /\ instrument \in Nat
    BY <2>2, UniverseType DEF SummaryInv, ForwardInv, WalkInv, Loop
  <2>4. UNCHANGED <<rows, instrument>>
    BY <1>2, <2>3 DEF Next, vars, walk, BuildCurves, BookDeal, AttributeSession, NextInstrument,
                      Returned, Walking, Attributed
  <2>5. GrossOfBook' = GrossOfBook /\ Attributed' = Attributed
    BY <2>4 DEF GrossOfBook, Frame, Attributed
  <2> QED BY <2>1, <2>5 DEF SummaryInv
<1> QED BY <1>1, <1>2

\* The five components explain all of the P&L, in every row and in the summary.
THEOREM ComponentsExplainAll == Spec => []FullyExplained
<1>1. Init => SummaryInv
  BY DEF Init, SummaryInv
<1>2. ForwardInv /\ SummaryInv /\ [Next]_vars => SummaryInv'
  BY NextKeepsSummary
<1>3. ForwardInv /\ SummaryInv => FullyExplained
  <2> SUFFICES ASSUME ForwardInv, SummaryInv PROVE FullyExplained
    OBVIOUS
  <2>1. ASSUME NEW x \in Range(Universe), NEW k \in DOMAIN rows[x] PROVE rows[x][k].residual = 0
    <3>1. k \in 1 .. Len(rows[x])
      BY DEF ForwardInv, WalkInv, RowsInv
    <3> QED BY <3>1 DEF ForwardInv, WalkInv, RowsInv, RowIs
  <2> QED BY <2>1 DEF FullyExplained, SummaryInv, GrossOfBook
<1> QED BY <1>1, <1>2, <1>3, ForwardInvariant, PTL DEF Spec
=============================================================================
