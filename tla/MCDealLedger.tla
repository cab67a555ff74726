---------------------------- MODULE MCDealLedger ----------------------------
\* Small instances of DealLedger.
EXTENDS CanonicalDeals, SequencesExt

CONSTANTS W, G, d1, d2, e1

Deal(id, seq, action, x, v, t) ==
  [id |-> id, sequence |-> seq, action |-> action, instrument |-> x,
   volume |-> v, session |-> t]

\* W: a deal opened in session 0, resized and a second one opened in session
\* 2 (session 1 is quiet), the first cancelled; G: one deal in session 0.
MCMessages == { Deal(d1, 1, "new", W, 3, 0), Deal(d1, 2, "amend", W, 5, 2),
                Deal(d2, 3, "new", W, -1, 2), Deal(d1, 4, "cancel", W, 0, 2),
                Deal(e1, 1, "new", G, 2, 0) }

MCStreams == BoundedSeq(MCMessages, 2)

Columns == {"id", "sequence", "action", "instrument", "volume", "session"}

\* What the theorems assume of the producers holds of these.
ASSUME CanonicalAssumption == Canonical(Deals)
=============================================================================
