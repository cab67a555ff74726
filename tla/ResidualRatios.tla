--------------------------- MODULE ResidualRatios ---------------------------
(***************************************************************************)
(* How both attributions sum up their rows (pipeline/attribution.py,       *)
(* pipeline/commodity_attribution.py): unexplained over gross P&L, per     *)
(* session and over all.  A ratio is an exact fraction of integers.        *)
(***************************************************************************)
EXTENDS Integers, Sequences, Functions

\* Faulty: abs() is forgotten, and rows of opposite sign cancel.
SignedSize(x) == x

Size(x) == IF x < 0 THEN -x ELSE x

SessionIds(rows) == {rows[k].session_id : k \in DOMAIN rows}

\* Per session, the sum over its rows of the size of one of their fields.
PerSession(rows, amount) ==
  [sid \in SessionIds(rows) |->
     SumFunction([k \in {n \in DOMAIN rows : rows[n].session_id = sid} |-> Size(rows[k][amount])])]

Overall(sums) == SumFunction(sums)

\* `part / whole if whole else 0.0`; wholes are sums of sizes.
Ratio(part, whole) ==
  IF whole = 0 THEN [num |-> 0, den |-> 1] ELSE [num |-> part, den |-> whole]

AtMost(a, b) == a.num * b.den <= b.num * a.den

\* ratio > 0.01
OverOnePercent(r) == 100 * r.num > r.den

Ratios(residual, gross) == [sid \in DOMAIN gross |-> Ratio(residual[sid], gross[sid])]

\* `max(ratios) if ratios else 0.0`
Largest(ratios, sids) ==
  IF sids = {} THEN Ratio(0, 0)
  ELSE ratios[CHOOSE sid \in sids : \A other \in sids : AtMost(ratios[other], ratios[sid])]
=============================================================================
