---------------------------- MODULE ForwardCurve ----------------------------
(***************************************************************************)
(* Forward curves of pipeline/commodity_simulator.py: per commodity and    *)
(* session, the grid at the open, a parallel (level) move, a zero-mean     *)
(* (shape) move, and the grid at the close, which opens the next session.  *)
(* Prices are integers: draws are multiplied by the number of grid points, *)
(* which makes a mean integral, and marks by Scale, which makes an         *)
(* interpolated value integral.  All arithmetic is exact.                  *)
(***************************************************************************)
EXTENDS Integers, SequencesExt

CONSTANTS
  Commodities,   \* in the order the curves are built
  NSessions,
  Grid,          \* CURVE_TENOR_GRID_DAYS
  BaseCurve,     \* COMMODITY_BASE_CURVE
  LevelDraws, ShapeDraws,  \* what the generator may draw: a number, a tuple
  Scale

Points == Len(Grid)
Gap(k) == Grid[k + 1] - Grid[k]

ASSUME CurveAssumption ==
  /\ Grid \in Seq(Int) /\ Points > 1 /\ Scale \in Nat
  /\ \A k \in 1 .. Points - 1 : Gap(k) > 0 /\ Scale % Gap(k) = 0
ASSUME DrawsAssumption ==
  /\ NSessions \in Nat
  /\ LevelDraws \subseteq Int /\ ShapeDraws \subseteq [1 .. Points -> Int]
  /\ \A c \in Range(Commodities) : BaseCurve[c] \in [1 .. Points -> Int]

VARIABLE curves   \* commodity -> its CurveSessions so far

Total(t) == SumFunction(t)

\* _interp, as a multiple of 1/Scale: linear between grid points, flat beyond.
Interp(values, tenor) ==
  IF tenor <= Grid[1] THEN Scale * values[1]
  ELSE IF tenor >= Grid[Points] THEN Scale * values[Points]
  ELSE LET k == CHOOSE j \in 1 .. Points - 1 : Grid[j] <= tenor /\ tenor <= Grid[j + 1]
           w == tenor - Grid[k]
       IN  (Scale \div Gap(k)) * (values[k] * (Gap(k) - w) + values[k + 1] * w)

MarkSod(cs, tenor) == Interp(cs.grid_sod, tenor)
MarkEod(cs, tenor) == Interp(cs.grid_eod, tenor)
ShapeAt(cs, tenor) == Interp(cs.shape_delta, tenor)

\* Faulty: the mean is not taken out of the shape.
CurveSessionRawShape(open, draw, raw) ==
  LET level == Points * draw
      shape == [k \in 1 .. Points |-> Points * raw[k]]
  IN  [grid_sod |-> open, level_delta |-> level, shape_delta |-> shape,
       grid_eod |-> [k \in 1 .. Points |-> open[k] + level + shape[k]]]

CurveSession(open, draw, raw) ==
  LET level == Points * draw
      shape == [k \in 1 .. Points |-> Points * raw[k] - Total(raw)]
  IN  [grid_sod |-> open, level_delta |-> level, shape_delta |-> shape,
       grid_eod |-> [k \in 1 .. Points |-> open[k] + level + shape[k]]]

\* Faulty: every session opens at the base curve.
OpeningAtBase(c) == BaseCurve[c]

OpeningGrid(c) == IF curves[c] = << >> THEN BaseCurve[c] ELSE Last(curves[c]).grid_eod

NoCurves == curves = [c \in Range(Commodities) |-> << >>]

Built == \A c \in Range(Commodities) : Len(curves[c]) = NSessions

\* One turn of build_curve_sessions' loop for the commodity whose turn it is.
DrawSession ==
  \E k \in DOMAIN Commodities, draw \in LevelDraws, raw \in ShapeDraws :
    LET c == Commodities[k]
    IN  /\ Len(curves[c]) < NSessions
        /\ \A j \in 1 .. k - 1 : Len(curves[Commodities[j]]) = NSessions
        /\ curves' = [curves EXCEPT ![c] = Append(@, CurveSession(OpeningGrid(c), draw, raw))]

-----------------------------------------------------------------------------

\* Level and shape are separable at every session of the run: the level moves
\* alone account for the drift of the grid's mean since the base curve.
LevelIsParallelMove ==
  \A c \in Range(Commodities) :
    curves[c] # << >> =>
      Total(Last(curves[c]).grid_eod) - Total(BaseCurve[c]) =
      Points * Total([k \in DOMAIN curves[c] |-> curves[c][k].level_delta])
=============================================================================
