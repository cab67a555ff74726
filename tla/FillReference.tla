--------------------------- MODULE FillReference ---------------------------
(***************************************************************************)
(* What the positions table must hold for a given set of accepted fills,   *)
(* stated without any order of arrival: walk the sequence numbers upwards  *)
(* from zero and fold whatever fill carries each number.                   *)
(***************************************************************************)
EXTENDS CostBasis, SqlNull

CONSTANT MaxSequence   \* the largest sequence number in use

ASSUME MaxSequenceAssumption == MaxSequence \in Nat

\* The two loop variables of rebuild_positions: (qty, avg_price), last_session.
Start == [pos |-> Flat, last |-> NoValue]
Apply(a, m) == [pos |-> Fold(a.pos, m.quantity, m.price), last |-> m.session]

FillsOf(fills, x) == {m \in fills : m.instrument = x}
FillsAt(fills, x, n) == {m \in fills : m.instrument = x /\ m.sequence = n}

Running(fills, x) ==
  LET f[n \in Nat] ==
        IF n = 0 THEN Start
        ELSE IF FillsAt(fills, x, n) = {} THEN f[n - 1]
        ELSE Apply(f[n - 1], CHOOSE m \in FillsAt(fills, x, n) : TRUE)
  IN  f

PositionRow(x, a) == [instrument |-> x, session_id |-> a.last, pos |-> a.pos]

Instruments(fills) == {m.instrument : m \in fills}

Rebuilt(fills) ==
  {PositionRow(x, Running(fills, x)[MaxSequence]) : x \in Instruments(fills)}
=============================================================================
