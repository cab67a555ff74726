------------------------------ MODULE CostBasis ------------------------------
(***************************************************************************)
(* The weighted-average-cost fold of pipeline/ingest.py (_fold): one       *)
(* position, one fill, the position after it.  A position is a signed      *)
(* quantity with an average price, kept here as the exact fraction num/den *)
(* (never reduced to lowest terms) in place of the program's float.        *)
(***************************************************************************)
EXTENDS Integers

Position == [qty : Int, num : Int, den : Int \ {0}]

Flat == [qty |-> 0, num |-> 0, den |-> 1]

SameDirectionOrFlat(p, q) == p.qty = 0 \/ (p.qty > 0 <=> q > 0)

Flips(p, q) == \/ p.qty > 0 /\ p.qty + q < 0
               \/ p.qty < 0 /\ p.qty + q > 0

\* Faulty: not weighted by quantity.
BlendUnweighted(p, q, price) ==
  [qty |-> p.qty + q, num |-> p.num + price * p.den, den |-> 2 * p.den]

\* Adding to a position: the average is weighted by quantity.
Blend(p, q, price) ==
  [qty |-> p.qty + q,
   num |-> p.qty * p.num + q * price * p.den,
   den |-> p.den * (p.qty + q)]

\* Faulty: a position that changes sign keeps its average.
FoldWithoutFlip(p, q, price) ==
  IF p.qty + q = 0 THEN Flat
  ELSE IF SameDirectionOrFlat(p, q) THEN Blend(p, q, price)
  ELSE [p EXCEPT !.qty = @ + q]

\* _fold: a position that closes is forgotten, one that changes sign starts
\* afresh at the fill's price, one that is merely reduced keeps its average.
Fold(p, q, price) ==
  CASE p.qty + q = 0 -> Flat
    [] p.qty + q # 0 /\ SameDirectionOrFlat(p, q) -> Blend(p, q, price)
    [] p.qty + q # 0 /\ ~SameDirectionOrFlat(p, q) /\ Flips(p, q) ->
         [qty |-> p.qty + q, num |-> price, den |-> 1]
    [] OTHER -> [p EXCEPT !.qty = @ + q]

\* Two positions the program could not tell apart.
SamePosition(p, r) == p.qty = r.qty /\ p.num * r.den = r.num * p.den
=============================================================================
