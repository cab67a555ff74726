-------------------------- MODULE MCCostBasisTrail --------------------------
\* Buys and sells of unequal size, so that reductions, exact closings and
\* flips all occur within MaxFills fills.
EXTENDS CostBasisTrail

MCQuantities == {-2, -1, 1, 2}
=============================================================================
