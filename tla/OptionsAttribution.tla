------------------------- MODULE OptionsAttribution -------------------------
(***************************************************************************)
(* run_full_attribution (pipeline/attribution.py): build the market, send  *)
(* every session to the engine in one batch, join the answers to their     *)
(* metadata by position, sum up.  Also a client that calls the bridge      *)
(* with requests of its own, as the tests do.                              *)
(***************************************************************************)
EXTENDS OptionSessions, EngineBatch, ResidualRatios

CONSTANT DirectCalls  \* lists of requests another client may send

\* A list of RepriceRequests, whose fields are numbers.
ASSUME DirectCallsAssumption ==
  \A requests \in DirectCalls :
    /\ DOMAIN requests = 1 .. Len(requests)
    /\ \A k \in DOMAIN requests :
         LET q == requests[k]
         IN  {q.contract.strike, q.from.s, q.from.sigma, q.from.t, q.to.s, q.to.sigma, q.to.t}
             \subseteq Int

VARIABLES
  stage,   \* "build", "full", "direct", "done"; a composition may add others
  rows,    \* of run_full_attribution
  summary  \* what it returns beside them

attribution == <<rows, summary>>

NoAttribution == stage = "build" /\ rows = << >> /\ summary = << >>

BuildMarket ==
  /\ stage = "build" /\ engine = "none"
  /\ DrawInstrument \/ DrawSession
  /\ UNCHANGED <<bridge, stage, attribution>>

StartDirect ==
  /\ stage = "build" /\ universe = << >>
  /\ \E requests \in DirectCalls : StartBatch(requests)
  /\ stage' = "direct"
  /\ UNCHANGED <<marketVars, attribution>>

TakeDirect ==
  /\ stage = "direct" /\ Returned
  /\ stage' = "done"
  /\ UNCHANGED <<marketVars, attribution>>

FullRequest(m) == Request(<<m.instrument, m.session_id>>, m.contract, m.open, m.close)

StartFull ==
  /\ stage = "build" /\ MarketBuilt
  /\ StartBatch([k \in DOMAIN market |-> FullRequest(market[k])])
  /\ stage' = "full"
  /\ UNCHANGED <<marketVars, attribution>>

\* zip: as many pairs as the shorter list has.
Zipped(a, b) == [k \in 1 .. Min({Len(a), Len(b)}) |-> <<a[k], b[k]>>]

SessionRow(m, r) ==
  [instrument |-> m.instrument, session_id |-> m.session_id, is_gap |-> m.is_gap,
   actual_pnl |-> r.actual_pnl, residual |-> r.residual, residual_full |-> r.residual_full]

\* Faulty: a session some instrument had no gap in.
NonGapIdsByRow(list) == {list[k].session_id : k \in {n \in DOMAIN list : ~list[n].is_gap}}

GapIds(list) == {list[k].session_id : k \in {n \in DOMAIN list : list[n].is_gap}}

NonGapIds(list) == SessionIds(list) \ GapIds(list)

\* The means over the gap and the other sessions are taken of the same ratios
\* as the maxima and are left out.
Summary(list) ==
  LET gross == PerSession(list, "actual_pnl")
      residual == PerSession(list, "residual")
      residual_full == PerSession(list, "residual_full")
      ratio == Ratios(residual, gross)
      ratio_full == Ratios(residual_full, gross)
      \* sorted() is stable, ratios descend and the sessions come in ascending order.
      worse(a, b) == IF AtMost(ratio_full[a], ratio_full[b])
                     THEN AtMost(ratio_full[b], ratio_full[a]) /\ a < b ELSE TRUE
      over == {sid \in DOMAIN ratio_full : OverOnePercent(ratio_full[sid])}
  IN  [overall_residual_ratio |-> Ratio(Overall(residual), Overall(gross)),
       overall_residual_ratio_full |-> Ratio(Overall(residual_full), Overall(gross)),
       per_session_ratio |-> ratio, per_session_ratio_full |-> ratio_full,
       gap_session_ratio_max |-> Largest(ratio, GapIds(list)),
       non_gap_session_ratio_max |-> Largest(ratio, NonGapIds(list)),
       sessions_over_1pct_full |->
         [k \in 1 .. Cardinality(over) |->
            CHOOSE sid \in over : Cardinality({other \in over : worse(other, sid)}) = k - 1]]

Summarise ==
  /\ stage = "full" /\ Returned
  /\ LET pairs == Zipped(market, results)
     IN  rows' = [k \in DOMAIN pairs |-> SessionRow(pairs[k][1], pairs[k][2])]
  /\ summary' = Summary(rows')
  /\ stage' = "done"
  /\ UNCHANGED marketVars

Attribution == BuildMarket \/ StartDirect \/ TakeDirect \/ StartFull \/ Summarise

-----------------------------------------------------------------------------

\* The comment of price_and_greeks: the simulator never leaves the closed form.
\* However long the path, whatever is drawn, every state it opens or closes in
\* has a positive spot, volatility and maturity.
MarketStaysPriced ==
  \A k \in DOMAIN market : \A state \in {market[k].open, market[k].close} :
    state.s > 0 /\ ~Degenerate(state.sigma, state.t)

\* The expired branch explains a move by delta alone, exactly, unless the move
\* crosses the strike or leaves it into the money: there and only there is the
\* residual not zero, for calls and puts.
ExpiredMovesAreDelta ==
  engine = "exited" =>
    \A k \in DOMAIN input :
      LET q == input[k]
          strike == q.contract.strike
          up == IsCall(q.contract)
          stays == \/ q.from.s > strike /\ q.to.s >= strike
                   \/ q.from.s < strike /\ q.to.s <= strike
                   \/ q.from.s = strike /\ IF up THEN q.to.s <= strike ELSE q.to.s >= strike
      IN  Degenerate(q.from.sigma, q.from.t) /\ Degenerate(q.to.sigma, q.to.t)
          => ((results[k].residual_full = 0) <=> stays)

\* Sessions lean on one another: what an instrument's rows earn over all
\* sessions is the price it ends at less the price it was listed at.  A row that
\* got another row's answer, or a session that does not open where the last one
\* closed, breaks the sum.
PnlTelescopes ==
  stage = "done" /\ rows # << >> =>
    \A x \in 0 .. NInstruments - 1 :
      LET mine == {k \in DOMAIN rows : rows[k].instrument = x}
          first == market[x * NSessions + 1]
          final == market[(x + 1) * NSessions]
          priced(m, state) == Price(m.contract, state.s, state.sigma, state.t)
      IN  SumFunction([k \in mine |-> rows[k].actual_pnl])
          = priced(final, final.close) - priced(first, universe[x + 1].listing.open)

\* When no session is listed as over 1 %, all that is left unexplained in the
\* book is at most 1 % of its gross P&L: nothing is hidden by cancellation
\* inside a session or between sessions.  The one way out is a session without
\* gross P&L, whose ratio the code reports as zero whatever its residual is.
SummaryHidesNothing ==
  LET abs(x) == Max({x, -x})
      unexplained == SumFunction([k \in DOMAIN rows |-> abs(rows[k].residual_full)])
      gross == SumFunction([k \in DOMAIN rows |-> abs(rows[k].actual_pnl)])
      hidden(sid) ==
        LET mine == {k \in DOMAIN rows : rows[k].session_id = sid}
        IN  (\A k \in mine : rows[k].actual_pnl = 0) /\ (\E k \in mine : rows[k].residual_full # 0)
  IN  stage = "done" /\ rows # << >> =>
        \/ summary.sessions_over_1pct_full # << >>
        \/ \E sid \in 0 .. NSessions - 1 : hidden(sid)
        \/ 100 * unexplained <= gross

\* The figures for other than gap sessions are figures of days on which no
\* instrument was shocked, and every session is in one of the two groups: a day
\* that gapped for one instrument only counts as a gap for the whole book.
ShocksStayInGapSessions ==
  stage = "done" /\ rows # << >> =>
    LET shocked == {market[k].session_id : k \in {n \in DOMAIN market : market[n].is_gap}}
        calm == (0 .. NSessions - 1) \ shocked
        ratio == summary.per_session_ratio
        isLargest(max, sids) ==
          /\ \A sid \in sids : AtMost(ratio[sid], max)
          /\ sids # {} => \E sid \in sids : AtMost(max, ratio[sid])
    IN  /\ isLargest(summary.gap_session_ratio_max, shocked)
        /\ isLargest(summary.non_gap_session_ratio_max, calm)

\* The docstring of test_cross_greek_residual_ratio_is_no_worse_than_baseline:
\* adding real terms to a Taylor expansion cannot increase the exact
\* reconstruction error for the same move.
CrossTermsNeverWorsen ==
  \A k \in DOMAIN rows : Size(rows[k].residual_full) <= Size(rows[k].residual)
=============================================================================
