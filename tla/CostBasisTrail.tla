--------------------------- MODULE CostBasisTrail ---------------------------
(***************************************************************************)
(* Any sequence of fills folded into one position, to compare the running  *)
(* average of _fold with what the fills themselves say about it.           *)
(***************************************************************************)
EXTENDS CostBasis, SequencesExt

CONSTANTS Quantities, Prices,
          MaxFills   \* bound on the length of the trail

ASSUME TrailAssumption == Quantities \subseteq Int /\ Prices \subseteq Nat

VARIABLES
  pos,    \* (qty, avg_price)
  trail   \* the <<quantity, price>> pairs folded so far

vars == <<pos, trail>>

Init == pos = Flat /\ trail = << >>

FoldFill ==
  /\ Len(trail) < MaxFills
  /\ \E q \in Quantities, price \in Prices :
       /\ pos' = Fold(pos, q, price)
       /\ trail' = Append(trail, <<q, price>>)

Spec == Init /\ [][FoldFill]_vars

-----------------------------------------------------------------------------

\* The net quantity of the first n fills.
Net(n) == SumFunctionOnSet([k \in DOMAIN trail |-> trail[k][1]], 1 .. n)

Sign(n) == IF n > 0 THEN 1 ELSE IF n < 0 THEN -1 ELSE 0

\* The fill that opened the position now held: the last one at which the net
\* quantity left zero or changed sign.
OpenedAt == Max({n \in DOMAIN trail : Sign(Net(n)) # Sign(Net(n - 1))})

\* The prices paid, since then, by fills in the direction of the position.
PricesPaid ==
  {trail[n][2] : n \in {k \in OpenedAt .. Len(trail) : Sign(trail[k][1]) = Sign(pos.qty)}}

\* price compared with the average num/den, whose den may be negative.
AtMostAverage(price) == price * pos.den * pos.den <= pos.num * pos.den
AtLeastAverage(price) == price * pos.den * pos.den >= pos.num * pos.den

\* However the position came about, through additions, reductions, closings and
\* flips, its quantity is the net of the fills and its average lies between the
\* lowest and the highest price paid for what is still held: nothing of an
\* earlier position, closed or flipped, is left in it.
BasisWithinPricesPaid ==
  /\ pos.qty = Net(Len(trail))
  /\ IF pos.qty = 0 THEN pos = Flat
     ELSE /\ \E price \in PricesPaid : AtMostAverage(price)
          /\ \E price \in PricesPaid : AtLeastAverage(price)

\* A fill executed in two parts at one price leaves the position it would have
\* left in one, also when the first part closes the position or flips it.
SplitFillsAgree ==
  Len(trail) < MaxFills =>
    \A q, r \in Quantities, price \in Prices :
      q * r > 0 => SamePosition(Fold(Fold(pos, q, price), r, price), Fold(pos, q + r, price))
=============================================================================
