------------------------ MODULE SequentialOrderCheck ------------------------
(***************************************************************************)
(* scripts/run_sequential_order_check.py: the market and the one batch of  *)
(* OptionsAttribution, whose vanna_pnl is joined to each session by        *)
(* position, then compare_sequential_orders                                *)
(* (pipeline/sequential_order_check.py) with a batch of two requests per   *)
(* session and one of one.  Only the last batch's answers make a row.      *)
(***************************************************************************)
EXTENDS OptionsAttribution

VARIABLES
  sessions,  \* the market with its vanna_pnl
  partial,   \* rows: price0, price_s_first, price_vol_first of each session
  out

check == <<sessions, partial, out>>
vars == <<bridge, marketVars, stage, attribution, check>>

Init ==
  /\ BridgeInit /\ NoMarket /\ NoAttribution
  /\ sessions = << >> /\ partial = << >> /\ out = << >>

\* The script leaves off where run_full_attribution would sum up.
JoinVanna ==
  /\ stage = "full" /\ Returned
  /\ LET pairs == Zipped(market, results)
     IN  sessions' = [k \in DOMAIN pairs |->
                        [move |-> pairs[k][1], vanna_pnl |-> pairs[k][2].vanna_pnl]]
  /\ stage' = "bumps"
  /\ UNCHANGED <<marketVars, attribution, partial, out>>

Bumped(m, tag, to) == Request(<<m.instrument, m.session_id, tag>>, m.contract, m.open, to)

SpotFirst(m) == Bumped(m, "S_first", State(m.close.s, m.open.sigma, m.open.t))
VolFirst(m) == Bumped(m, "vol_first", State(m.open.s, m.close.sigma, m.open.t))
Final(m) == Bumped(m, "final", State(m.close.s, m.close.sigma, m.open.t))

StartBumps ==
  /\ stage = "bumps"
  /\ StartBatch([k \in 1 .. 2 * Len(sessions) |->
                   IF k % 2 = 1 THEN SpotFirst(sessions[(k + 1) \div 2].move)
                                ELSE VolFirst(sessions[k \div 2].move)])
  /\ UNCHANGED <<marketVars, stage, attribution, check>>

\* Faulty: reads the answers as if all spot bumps came first.
TakeBumpsByKind ==
  /\ stage = "bumps" /\ Returned
  /\ partial' = [k \in DOMAIN sessions |->
                   [vanna_pnl |-> sessions[k].vanna_pnl,
                    price0 |-> results[k].price_sod,
                    s_first |-> results[k].price_eod,
                    vol_first |-> results[Len(sessions) + k].price_eod]]
  /\ stage' = "final"
  /\ UNCHANGED <<marketVars, attribution, sessions, out>>

\* meta was filled in the same pass as the requests.
TakeBumps ==
  /\ stage = "bumps" /\ Returned
  /\ partial' = [k \in DOMAIN sessions |->
                   [vanna_pnl |-> sessions[k].vanna_pnl,
                    price0 |-> results[2 * k - 1].price_sod,
                    s_first |-> results[2 * k - 1].price_eod,
                    vol_first |-> results[2 * k].price_eod]]
  /\ stage' = "final"
  /\ UNCHANGED <<marketVars, attribution, sessions, out>>

\* Faulty: spares the engine the sessions whose spot has not moved.
StartFinalOfMoved ==
  /\ stage = "final"
  /\ LET moved == SelectSeq(sessions, LAMBDA x : x.move.close.s # x.move.open.s)
     IN  StartBatch([k \in DOMAIN moved |-> Final(moved[k].move)])
  /\ UNCHANGED <<marketVars, stage, attribution, check>>

StartFinal ==
  /\ stage = "final"
  /\ StartBatch([k \in DOMAIN sessions |-> Final(sessions[k].move)])
  /\ UNCHANGED <<marketVars, stage, attribution, check>>

\* Faulty: compares the buckets of one factor each instead of the vol buckets.
OrderRowMixed(p, final) ==
  [spot_a |-> p.s_first - p.price0, vol_a |-> final - p.s_first,
   vol_b |-> p.vol_first - p.price0, spot_b |-> final - p.vol_first,
   discrepancy |-> (p.s_first - p.price0) - (p.vol_first - p.price0),
   vanna_pnl |-> p.vanna_pnl]

OrderRow(p, final) ==
  [spot_a |-> p.s_first - p.price0, vol_a |-> final - p.s_first,
   vol_b |-> p.vol_first - p.price0, spot_b |-> final - p.vol_first,
   discrepancy |-> (final - p.s_first) - (p.vol_first - p.price0),
   vanna_pnl |-> p.vanna_pnl]

TakeFinal ==
  /\ stage = "final" /\ Returned
  /\ LET pairs == Zipped(partial, results)
     IN  out' = [k \in DOMAIN pairs |-> OrderRow(pairs[k][1], pairs[k][2].price_eod)]
  /\ stage' = "done"
  /\ UNCHANGED <<marketVars, attribution, sessions, partial>>

\* The program is at a call of run_attribution_batch.
Calling == stage \in {"bumps", "final"} \/ (stage = "build" /\ (MarketBuilt \/ universe = << >>))

Engine == /\ Step \/ (Calling /\ NotBuilt)
          /\ UNCHANGED <<marketVars, stage, attribution, check>>

Next == \/ Attribution /\ UNCHANGED check
        \/ JoinVanna
        \/ StartBumps \/ TakeBumps
        \/ StartFinal \/ TakeFinal
        \/ Engine

Spec == Init /\ [][Next]_vars
FairSpec == Spec /\ WF_vars(Next)

-----------------------------------------------------------------------------

\* What the module's docstring defines for one move, in terms of prices alone.
Expected(m) ==
  LET p(s, v) == Price(m.contract, s, v, m.open.t)
      final == p(m.close.s, m.close.sigma)
      price0 == p(m.open.s, m.open.sigma)
      s_first == p(m.close.s, m.open.sigma)
      vol_first == p(m.open.s, m.close.sigma)
  IN  [spot_a |-> s_first - price0, vol_a |-> final - s_first,
       vol_b |-> vol_first - price0, spot_b |-> final - vol_first,
       discrepancy |-> (final - s_first) - (vol_first - price0),
       vanna_pnl |-> Reprice(FullRequest(m)).vanna_pnl]

\* Three batches joined by position, none of whose answers is checked against
\* an id: each row's buckets, its mixed second difference and its vanna_pnl are
\* those of the one contract and session at the same place in the book.
RowsBelongToTheirMoves == \A k \in DOMAIN out : out[k] = Expected(market[k])

\* No batch came back short: a program that is done has a row for every session
\* of the market or, called directly, none of either.
NothingDropped == stage = "done" => Len(market) \in {Len(rows), Len(out)}

\* Every program ends, with all its rows (or, called directly, with its answers)
\* or in an exception.
EveryMoveOrException == <>(engine = "failed" \/ (stage = "done" /\ NothingDropped))
=============================================================================
