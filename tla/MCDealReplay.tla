---------------------------- MODULE MCDealReplay ----------------------------
\* A small instance of DealReplay.
EXTENDS DealReplay

CONSTANT W

MCUniverse == <<W>>
MCVolumes == {2, -3}
MCChanges == {-1, 1}
=============================================================================
