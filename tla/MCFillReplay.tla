---------------------------- MODULE MCFillReplay ----------------------------
\* A small instance of FillReplay.
EXTENDS FillReplay

CONSTANTS A, B

MCUniverse == <<A, B>>
\* A's fills add, flip and cross zero in orders that give different averages.
MCTrades == (A :> {<<2, 1>>, <<-3, 2>>, <<-1, 3>>}) @@ (B :> {<<1, 2>>})
=============================================================================
