--------------------------- MODULE CanonicalFills ---------------------------
(***************************************************************************)
(* FillLedger fed by producers that number their fills as the simulator    *)
(* does (build_canonical_fill_stream).  The database enforces neither of   *)
(* these two facts: its key is the pair (fill_id, sequence), whatever the  *)
(* instrument and whatever the content.                                    *)
(***************************************************************************)
EXTENDS FillLedger

\* One content per key: a redelivered fill is the same fill.
KeysIdentify(fills) == \A m, n \in fills : SameKey(m, n) => m = n

\* No two fills of an instrument share a sequence number.
SequencesIdentify(fills) ==
  \A m, n \in fills : m.instrument = n.instrument /\ m.sequence = n.sequence => m = n

Canonical(fills) == KeysIdentify(fills) /\ SequencesIdentify(fills)

Fills == {m \in Messages : Storable(m)}
=============================================================================
