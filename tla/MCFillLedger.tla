---------------------------- MODULE MCFillLedger ----------------------------
\* Small instances of FillLedger.
EXTENDS CanonicalFills, SequencesExt

CONSTANTS A, B, f1, f2, f3, f4, f5

Fill(id, seq, x, q, price, s) ==
  [id |-> id, sequence |-> seq, instrument |-> x, quantity |-> q,
   price |-> price, session |-> s]

\* A is bought, flips to short and adds to the short, so that the order of its
\* fills matters to the average; B has one fill, in a later session, and one
\* that lacks its price.
Incomplete == Fill(f5, 2, B, 1, NoValue, 1)
Complete == { Fill(f1, 1, A, 2, 3, 0), Fill(f2, 2, A, -3, 1, 0),
              Fill(f3, 3, A, -2, 2, 1), Fill(f4, 1, B, 1, 2, 1) }
MCMessages == Complete \cup {Incomplete}

MCStreams == BoundedSeq(Complete, 3) \cup {<<m, Incomplete>> : m \in Complete}

\* Fewer streams, for the runs that look for one counterexample.
PairStreams == BoundedSeq(MCMessages, 2)

Columns == {"id", "sequence", "instrument", "quantity", "price", "session"}

\* What the theorems assume of the producers holds of these.
ASSUME CanonicalAssumption == Canonical(Fills)
=============================================================================
