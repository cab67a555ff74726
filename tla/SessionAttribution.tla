------------------------- MODULE SessionAttribution -------------------------
(***************************************************************************)
(* attribute_session (pipeline/commodity_attribution.py): one instrument,  *)
(* one session, its deal messages in sequence order.                       *)
(***************************************************************************)
EXTENDS Integers, Sequences

\* What the loop over the actions keeps.
Opening(v0, dealVolume) ==
  [volume |-> v0, deal_volume |-> dealVolume, dv_new |-> 0, dv_amend |-> 0, cash_new |-> 0]

Book(b, a) ==
  LET known == a.id \in DOMAIN b.deal_volume
      prev == IF known THEN b.deal_volume[a.id] ELSE 0
      new_val == IF a.action = "cancel" THEN 0 ELSE a.volume
      delta == new_val - prev
      isNew == a.action = "new"
  IN  [volume |-> b.volume + delta,
       deal_volume |-> [d \in DOMAIN b.deal_volume \cup {a.id} |->
                          IF d = a.id THEN new_val ELSE b.deal_volume[d]],
       dv_new |-> b.dv_new + (IF isNew THEN delta ELSE 0),
       dv_amend |-> b.dv_amend + (IF isNew THEN 0 ELSE delta),
       cash_new |-> b.cash_new + (IF isNew THEN delta * a.trade_price ELSE 0)]

Booked(v0, dealVolume, actions) ==
  LET after[n \in 0 .. Len(actions)] ==
        IF n = 0 THEN Opening(v0, dealVolume) ELSE Book(after[n - 1], actions[n])
  IN  after[Len(actions)]

\* Faulty: the first attempt told of in the source, which marks a new deal to
\* the session's open only.
ComponentsToOpen(v0, b, marks) ==
  [price |-> v0 * marks.level,
   curve_shift |-> v0 * marks.shape,
   time |-> v0 * (marks.eod - marks.eod_at_open),
   new_deals |-> b.dv_new * marks.sod - b.cash_new,
   volume |-> b.dv_amend * (marks.eod - marks.sod)]

\* marks: the four readings of the session's curve, all in the same unit:
\* sod and eod at the tenor of the open and of the close, eod_at_open the
\* closing curve at the opening tenor, level and shape the moves at the open.
Components(v0, b, marks) ==
  [price |-> v0 * marks.level,
   curve_shift |-> v0 * marks.shape,
   time |-> v0 * (marks.eod - marks.eod_at_open),
   new_deals |-> b.dv_new * marks.eod - b.cash_new,
   volume |-> b.dv_amend * (marks.eod - marks.sod)]

ActualPnl(v0, b, marks) ==
  b.volume * marks.eod - v0 * marks.sod - (b.cash_new + b.dv_amend * marks.sod)

Step(v0, dealVolume, marks, actions) ==
  LET b == Booked(v0, dealVolume, actions)
      c == Components(v0, b, marks)
      actual == ActualPnl(v0, b, marks)
  IN  [v0 |-> v0, v1 |-> b.volume, deal_volume |-> b.deal_volume,
       mark_sod |-> marks.sod, mark_eod |-> marks.eod, actual_pnl |-> actual,
       residual |-> actual - (c.price + c.curve_shift + c.time + c.new_deals + c.volume)]
=============================================================================
