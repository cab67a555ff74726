--------------------------- MODULE OptionSessions ---------------------------
(***************************************************************************)
(* build_universe and build_sessions (pipeline/simulator.py), in the order *)
(* their callers interleave them: the universe first, then each            *)
(* instrument's sessions, every one opening where the last one closed.     *)
(* The seeded generators' draws are choices.                               *)
(***************************************************************************)
EXTENDS Integers, SequencesExt

CONSTANTS
  NInstruments, NSessions,
  Listings,           \* option_type -> the [strike, open] an instrument of it may
                      \* be listed with, open being [s, sigma, t] as in sessions
  Draws,              \* pairs <<z, vol_step>> a session may draw
  Moved(_, _, _, _),  \* the spot after a session: of spot, volatility, z, shock
  GapEvery, GapShockMultiplier,
  VolFloor, VolCap, DT, MaturityFloor

ASSUME SessionsAssumption == NInstruments \in Nat /\ NSessions \in Nat \ {0}
ASSUME MarketAssumption ==
  /\ GapEvery \in Nat \ {0}
  /\ 0 < VolFloor /\ VolFloor <= VolCap
  /\ 0 < MaturityFloor
  /\ {VolFloor, VolCap, MaturityFloor, DT} \subseteq Int /\ GapShockMultiplier \in Nat
ASSUME DrawsAssumption == Draws \subseteq Int \X Int
\* Strikes around the spot, spots of 50 and more, volatilities of 15 % and more,
\* over a year to go.
ASSUME ListingsAssumption ==
  \A option_type \in {"C", "P"} : \A listing \in Listings[option_type] :
    /\ listing \in [strike : Int, open : [s : Int, sigma : Int, t : Int]]
    /\ listing.strike > 0
    /\ listing.open.s > 0 /\ listing.open.sigma > 0 /\ listing.open.t > 0

VARIABLES
  universe,  \* the instruments, in order
  market     \* the sessions built so far: instrument after instrument

marketVars == <<universe, market>>

\* A market state, as a session opens and closes with.
State(s, sigma, t) == [s |-> s, sigma |-> sigma, t |-> t]

NoMarket == universe = << >> /\ market = << >>

\* Index k of the code is k + 1 here.  Calls and puts alternate.
DrawInstrument ==
  /\ Len(universe) < NInstruments
  /\ LET option_type == IF Len(universe) % 2 = 0 THEN "C" ELSE "P"
     IN  \E listing \in Listings[option_type] :
           universe' = Append(universe, [option_type |-> option_type, listing |-> listing])
  /\ UNCHANGED market

Index == Len(market) \div NSessions
SessionId == Len(market) % NSessions

Listed == universe[Index + 1].listing

\* Faulty: a path always starts from its listing.
OpeningAtListing == Listed.open

\* s, sigma, t when the session begins: the listing's, or the last close.
Opening == IF SessionId = 0 THEN Listed.open ELSE Last(market).close

Clamped(sigma) == Min({Max({sigma, VolFloor}), VolCap})

\* Faulty: the maturity runs out.
UnflooredMaturity(t) == t - DT

NextMaturity(t) == Max({t - DT, MaturityFloor})

\* Instruments have different gap days.
IsGap == SessionId % GapEvery = Index % GapEvery

UniverseBuilt == Len(universe) = NInstruments
MarketBuilt == UniverseBuilt /\ Len(market) = NInstruments * NSessions

DrawSession ==
  /\ UniverseBuilt /\ ~MarketBuilt
  /\ \E draw \in Draws :
       LET open == Opening
           shock == IF IsGap THEN GapShockMultiplier ELSE 1
       IN  market' = Append(market,
             [instrument |-> Index, session_id |-> SessionId, is_gap |-> IsGap,
              contract |-> [option_type |-> universe[Index + 1].option_type,
                            strike |-> Listed.strike],
              open |-> open,
              close |-> State(Moved(open.s, open.sigma, draw[1], shock),
                              Clamped(open.sigma + draw[2]), NextMaturity(open.t))])
  /\ UNCHANGED universe
=============================================================================
