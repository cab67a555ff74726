------------------------ MODULE MCForwardAttribution ------------------------
\* A small instance of ForwardAttribution.
EXTENDS ForwardAttribution

CONSTANTS Wti, Near, Far

MCCommodities == <<Wti>>
MCUniverse == <<Near, Far>>
\* Near rolls over the knot at 5, Far from beyond the grid into it.
MCGrid == <<3, 5, 9>>
MCInitialTenor == (Near :> 6) @@ (Far :> 10)
MCCommodityOf == [x \in {Near, Far} |-> Wti]
MCBaseCurve == (Wti :> <<30, 27, 21>>)
MCLevelDraws == {-1, 2}
MCShapeDraws == {<<0, 0, 0>>, <<2, -1, 0>>}
MCVolumes == {2}
MCChanges == {-1}
MCSpreads == {3}
=============================================================================
