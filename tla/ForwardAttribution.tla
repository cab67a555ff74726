------------------------- MODULE ForwardAttribution -------------------------
(***************************************************************************)
(* run_full_commodity_attribution (pipeline/commodity_attribution.py):     *)
(* build the curves, the blotter, then walk every instrument through all   *)
(* sessions, threading its volumes from one session to the next, and sum   *)
(* up all rows.                                                            *)
(***************************************************************************)
EXTENDS ForwardCurve, SessionAttribution, ResidualRatios, SqlNull

CONSTANTS
  Universe, MaxActions, Volumes, Changes,
  CommodityOf, InitialTenor,  \* of each instrument
  Spreads                     \* what a negotiated price may differ from the mark by

ASSUME BookAssumption ==
  /\ Universe \in Seq(Range(Universe)) /\ Universe # << >> /\ IsInjective(Universe)
  /\ CommodityOf \in [Range(Universe) -> Range(Commodities)]
  /\ InitialTenor \in [Range(Universe) -> Int]
  /\ MaxActions \in Nat /\ Volumes \subseteq Int /\ Changes \subseteq Int /\ Spreads \subseteq Int

VARIABLES
  session, turn, left, numbered, openDeals, deals,
  instrument,  \* index of the instrument being attributed
  day,         \* session_id of the attribution loop
  idx,         \* deals of the instrument already taken
  dealVolume, v0,
  rows,        \* instrument -> the rows of its sessions
  summary      \* what is returned beside them

Blotter == INSTANCE DealBlotter

blotter == <<session, turn, left, numbered, openDeals, deals>>
walk == <<instrument, day, idx, dealVolume, v0, rows, summary>>
vars == <<curves, blotter, walk>>

Empty == [d \in {} |-> 0]

Init ==
  /\ NoCurves
  /\ Blotter!Init
  /\ instrument = 1 /\ day = 0 /\ idx = 0 /\ dealVolume = Empty /\ v0 = 0
  /\ rows = [x \in Range(Universe) |-> << >>]
  /\ summary = << >>

BuildCurves == DrawSession /\ UNCHANGED <<blotter, walk>>

CurveOf(x, t) == curves[CommodityOf[x]][t + 1]

TenorSod(x, t) == InitialTenor[x] - t

OpenMark(x, t) == MarkSod(CurveOf(x, t), TenorSod(x, t))

BookDeal ==
  /\ Built
  /\ \/ Blotter!DrawCount
     \/ /\ left > 0
        /\ \E spread \in Spreads : Blotter!NewDeal(OpenMark(Universe[turn], session) + spread)
     \/ Blotter!AmendDeal(NoValue)
     \/ Blotter!CancelDeal(NoValue)
  /\ UNCHANGED <<curves, walk>>

DealsOf(x) == {d \in Range(deals) : d.instrument = x}

\* inst_deals: sorted by sequence, of which no two are equal.
DealsInOrder(x) ==
  CHOOSE list \in [1 .. Cardinality(DealsOf(x)) -> DealsOf(x)] :
    \A j, k \in DOMAIN list : j < k => list[j].sequence < list[k].sequence

\* The while loop: deals from idx on, as long as they are of this session.
Taken(list, from, t) ==
  CHOOSE n \in 0 .. Len(list) - from :
    /\ \A k \in from + 1 .. from + n : list[k].session = t
    /\ from + n < Len(list) => list[from + n + 1].session # t

Marks(x, t) ==
  LET cs == CurveOf(x, t)
      tenor == TenorSod(x, t)
  IN  [sod |-> MarkSod(cs, tenor), eod |-> MarkEod(cs, tenor - 1),
       eod_at_open |-> MarkEod(cs, tenor),
       level |-> Scale * cs.level_delta, shape |-> ShapeAt(cs, tenor)]

Walking == Blotter!Finished /\ instrument <= Len(Universe)

AttributeSession ==
  /\ Walking /\ day < NSessions
  /\ LET x == Universe[instrument]
         list == DealsInOrder(x)
         n == Taken(list, idx, day)
         step == Step(v0, dealVolume, Marks(x, day), SubSeq(list, idx + 1, idx + n))
     IN  /\ rows' = [rows EXCEPT ![x] = Append(@, step)]
         /\ idx' = idx + n
         /\ dealVolume' = step.deal_volume
         /\ v0' = step.v1
  /\ day' = day + 1
  /\ UNCHANGED <<curves, blotter, instrument, summary>>

\* Faulty: v0 is set before the loop over the instruments.
NextInstrumentKeepingV0 ==
  /\ Walking /\ day = NSessions
  /\ instrument' = instrument + 1
  /\ day' = 0 /\ idx' = 0 /\ dealVolume' = Empty
  /\ UNCHANGED <<curves, blotter, v0, rows, summary>>

NextInstrument ==
  /\ Walking /\ day = NSessions
  /\ instrument' = instrument + 1
  /\ day' = 0 /\ idx' = 0 /\ dealVolume' = Empty /\ v0' = 0
  /\ UNCHANGED <<curves, blotter, rows, summary>>

Attributed == instrument > Len(Universe)

\* The data frame: all rows, of which the sums do not see the order.
Frame ==
  [p \in UNION {{x} \X DOMAIN rows[x] : x \in Range(Universe)} |->
     LET row == rows[p[1]][p[2]]
     IN  [session_id |-> p[2] - 1, actual_pnl |-> row.actual_pnl, residual |-> row.residual]]

Summarise ==
  /\ Attributed /\ summary = << >>
  /\ LET gross == PerSession(Frame, "actual_pnl")
         residual == PerSession(Frame, "residual")
     IN  summary' = [total_gross |-> Overall(gross),
                     total_residual |-> Overall(residual),
                     overall_ratio |-> Ratio(Overall(residual), Overall(gross)),
                     per_session_ratio |-> Ratios(residual, gross)]
  /\ UNCHANGED <<curves, blotter, instrument, day, idx, dealVolume, v0, rows>>

\* The function has returned; anywhere else a state without a step is an error.
Returned == Attributed /\ summary # << >> /\ UNCHANGED vars

Next == \/ BuildCurves \/ BookDeal
        \/ AttributeSession \/ NextInstrument
        \/ Summarise \/ Returned

Spec == Init /\ [][Next]_vars

-----------------------------------------------------------------------------

\* The five components account for the P&L of every instrument and session,
\* exactly: what the module's docstring claims, over all volumes and moves.  The
\* summary says so for every session, and its gross P&L is no less than what the
\* whole book made or lost over all sessions.
FullyExplained ==
  /\ \A x \in Range(Universe) : \A k \in DOMAIN rows[x] : rows[x][k].residual = 0
  /\ summary # << >> =>
       /\ summary.overall_ratio.num = 0
       /\ \A t \in 0 .. NSessions - 1 : summary.per_session_ratio[t].num = 0
       /\ summary.total_gross >=
            Size(Total([p \in DOMAIN Frame |-> Frame[p].actual_pnl]))

\* The volumes threaded through the sessions are the positions the commodity
\* ledger derives from the same messages: no deal is left behind by idx, counted
\* in another session, or carried over from another instrument.
VolumesAreNetPositions ==
  \A x \in Range(Universe) : \A k \in DOMAIN rows[x] :
    rows[x][k].v1 =
      Blotter!NetVolume({m \in DealsOf(x) : m.session < k})

\* The cash a message of the blotter moves: its change of the deal's volume, at
\* the negotiated price when it opens the deal, at the opening mark otherwise.
Cash(m) ==
  LET earlier == {n \in Range(deals) : n.id = m.id /\ n.sequence < m.sequence}
      change == Blotter!VolumeSet(m) - Blotter!NetVolume(earlier)
  IN  change * (IF m.action = "new" THEN m.trade_price ELSE OpenMark(m.instrument, m.session))

\* The sessions' P&Ls add up: what an instrument earned since the first session
\* is the value of its closing position less all the cash paid for it, so that
\* nothing is gained or lost between one session's close and the next's open.
PnlAddsUp ==
  \A x \in Range(Universe) : rows[x] # << >> =>
    LET sofar == rows[x]
        booked == {m \in DealsOf(x) : m.session < Len(sofar)}
    IN  Total([k \in DOMAIN sofar |-> sofar[k].actual_pnl]) =
        Last(sofar).v1 * Last(sofar).mark_eod - Total([m \in booked |-> Cash(m)])
=============================================================================
