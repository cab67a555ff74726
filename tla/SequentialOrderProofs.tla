------------------------ MODULE SequentialOrderProofs ------------------------
(***************************************************************************)
(* The programs of SequentialOrderCheck for any market, any closed form    *)
(* and any failure of the engine: what a batch returns, what the simulator *)
(* hands to it, and what becomes of its answers when they are joined to    *)
(* the sessions by position.                                               *)
(***************************************************************************)
EXTENDS TaylorTerms, RecursionAndSums

-----------------------------------------------------------------------------
(* What a batch returns.                                                   *)

\* Lines printed so far answer the lines read so far.
Answered(n) == [k \in 1 .. n |-> Reprice(input[k])]

BatchInv ==
  /\ engine = "running" => /\ read \in Nat /\ outLines = Answered(read)
                           /\ \A k \in 1 .. read : WellFormed(input[k])
  /\ engine = "exited" => results = Answered(Len(input))

\* Nothing has been read when a process is started.
LEMMA StartKeeps ==
  ASSUME NEW requests, StartBatch(requests) PROVE BatchInv'
<1>1. engine' = "running" /\ read' = 0 /\ outLines' = << >>
  BY DEF StartBatch
<1>2. Answered(read)' = << >>
  BY <1>1 DEF Answered
<1>3. \A k \in (1 .. read)' : FALSE
  BY <1>1
<1> QED BY <1>1, <1>2, <1>3 DEF BatchInv

\* What has failed, or has been handed over, answers nothing any more.
LEMMA IdleKeeps ==
  ASSUME engine' \in {"none", "failed"} PROVE BatchInv'
BY DEF BatchInv

\* Every step of the engine itself keeps it: one more line, one more answer.
LEMMA StepKeeps ==
  ASSUME BatchInv, Step PROVE BatchInv'
<1>1. CASE ReadLine
  <2>1. read \in Nat /\ outLines = Answered(read) /\ engine' = "running" /\ input' = input
    BY <1>1 DEF BatchInv, ReadLine
  <2>2. read' = read + 1 /\ outLines' = Append(Answered(read), Reprice(input[read + 1]))
    BY <1>1, <2>1 DEF ReadLine
  <2> DEFINE F(k) == Reprice(input[k])
  <2>3. Append([k \in 1 .. read |-> F(k)], F(read + 1)) = [k \in 1 .. read + 1 |-> F(k)]
    <3> HIDE DEF F
    <3> QED BY <2>1
  <2>4. outLines' = [k \in 1 .. read + 1 |-> Reprice(input[k])]
    BY <2>2, <2>3 DEF Answered
  <2>5. Answered(read)' = [k \in 1 .. read + 1 |-> Reprice(input[k])]
    BY <2>1, <2>2 DEF Answered
  <2>6. ASSUME NEW k \in (1 .. read)' PROVE WellFormed(input'[k])
    <3>1. k \in 1 .. read \/ k = read + 1
      BY <2>1, <2>2
    <3>2. WellFormed(input[read + 1])
      BY <1>1 DEF ReadLine
    <3> QED BY <1>1, <2>1, <3>1, <3>2 DEF BatchInv, ReadLine
  <2> QED BY <2>1, <2>2, <2>4, <2>5, <2>6 DEF BatchInv
<1>2. CASE RefuseLine
  BY <1>2, IdleKeeps DEF RefuseLine
<1>3. CASE Killed
  BY <1>3, IdleKeeps DEF Killed
<1>4. CASE PrintAll
  <2>1. /\ outLines = Answered(read) /\ read = Len(input)
        /\ results' = outLines /\ input' = input /\ engine' = "exited"
    BY <1>4 DEF BatchInv, PrintAll
  <2>2. Answered(Len(input))' = Answered(Len(input))
    BY <2>1 DEF Answered
  <2> QED BY <2>1, <2>2 DEF BatchInv
<1> QED BY <1>1, <1>2, <1>3, <1>4 DEF Step

LEMMA StutterKeeps ==
  ASSUME BatchInv, UNCHANGED bridge PROVE BatchInv'
BY DEF BatchInv, Answered, bridge

-----------------------------------------------------------------------------

\* The clients start batches, take their results or leave the bridge alone.
LEMMA NextKeeps ==
  ASSUME BatchInv, [Next]_vars PROVE BatchInv'
<1>1. CASE Attribution
  <2>1. CASE BuildMarket
    BY <2>1, StutterKeeps DEF BuildMarket
  <2>2. CASE StartDirect
    BY <2>2, StartKeeps DEF StartDirect
  <2>3. CASE StartFull
    BY <2>3, StartKeeps DEF StartFull
  <2>4. CASE TakeDirect
    BY <2>4, IdleKeeps DEF TakeDirect, Returned
  <2>5. CASE Summarise
    BY <2>5, IdleKeeps DEF Summarise, Returned
  <2> QED BY <1>1, <2>1, <2>2, <2>3, <2>4, <2>5 DEF Attribution
<1>2. CASE JoinVanna
  BY <1>2, IdleKeeps DEF JoinVanna, Returned
<1>3. CASE StartBumps
  BY <1>3, StartKeeps DEF StartBumps
<1>4. CASE TakeBumps
  BY <1>4, IdleKeeps DEF TakeBumps, Returned
<1>5. CASE StartFinal
  BY <1>5, StartKeeps DEF StartFinal
<1>6. CASE TakeFinal
  BY <1>6, IdleKeeps DEF TakeFinal, Returned
<1>7. CASE Engine
  BY <1>7, StepKeeps, IdleKeeps DEF Engine, NotBuilt
<1>8. CASE UNCHANGED vars
  BY <1>8, StutterKeeps DEF vars
<1> QED BY <1>1, <1>2, <1>3, <1>4, <1>5, <1>6, <1>7, <1>8 DEF Next

\* A start, a hand-over and every step of the engine are steps of the promise.
LEMMA BridgeSteps ==
  /\ \A requests : StartBatch(requests) => Batch!Ask
  /\ Returned => Batch!Take
  /\ NotBuilt \/ RefuseLine \/ Killed => Batch!Raise
  /\ BatchInv /\ PrintAll => Batch!Return
  /\ ReadLine => UNCHANGED <<engine, input, results>>
<1>1. \A requests : StartBatch(requests) => Batch!Ask
  BY DEF StartBatch, Batch!Ask
<1>2. Returned => Batch!Take
  BY DEF Returned, Batch!Take
<1>3. NotBuilt \/ RefuseLine \/ Killed => Batch!Raise
  BY DEF NotBuilt, RefuseLine, Killed, Batch!Raise
<1>4. BatchInv /\ PrintAll => Batch!Return
  <2> SUFFICES ASSUME BatchInv, PrintAll PROVE Batch!Return
    OBVIOUS
  <2>1. /\ engine = "running" /\ engine' = "exited" /\ input' = input
        /\ results' = Answered(Len(input))
        /\ \A k \in 1 .. Len(input) : WellFormed(input[k])
    BY DEF BatchInv, PrintAll
  <2> QED BY <2>1 DEF Batch!Return, Answered
<1>5. ReadLine => UNCHANGED <<engine, input, results>>
  BY DEF ReadLine
<1> QED BY <1>1, <1>2, <1>3, <1>4, <1>5

\* The callers do nothing to the bridge but that.
LEMMA NextIsABatchStep ==
  ASSUME BatchInv, [Next]_vars
  PROVE  [Batch!Next]_<<engine, input, results>>
<1>1. CASE Attribution
  <2>1. CASE BuildMarket
    BY <2>1 DEF BuildMarket, bridge
  <2>2. CASE StartDirect
    BY <2>2, BridgeSteps DEF StartDirect, Batch!Next
  <2>3. CASE StartFull
    BY <2>3, BridgeSteps DEF StartFull, Batch!Next
  <2>4. CASE TakeDirect
    BY <2>4, BridgeSteps DEF TakeDirect, Batch!Next
  <2>5. CASE Summarise
    BY <2>5, BridgeSteps DEF Summarise, Batch!Next
  <2> QED BY <1>1, <2>1, <2>2, <2>3, <2>4, <2>5 DEF Attribution
<1>2. CASE JoinVanna \/ TakeBumps \/ TakeFinal
  BY <1>2, BridgeSteps DEF JoinVanna, TakeBumps, TakeFinal, Batch!Next
<1>3. CASE StartBumps
  BY <1>3, BridgeSteps DEF StartBumps, Batch!Next
<1>4. CASE StartFinal
  BY <1>4, BridgeSteps DEF StartFinal, Batch!Next
<1>5. CASE Engine
  BY <1>5, BridgeSteps DEF Engine, Step, Batch!Next
<1>6. CASE UNCHANGED vars
  BY <1>6 DEF vars, bridge
<1> QED BY <1>1, <1>2, <1>3, <1>4, <1>5, <1>6 DEF Next

\* A process that reads, prints and may die at any moment keeps the promise of
\* a batch answered as a whole, whatever the requests and the prices are.
THEOREM ImplementsBatch == Spec => BatchSpec
<1>1. Init => BatchInv /\ Batch!Init
  BY DEF Init, BridgeInit, BatchInv, Batch!Init
<1>2. BatchInv /\ [Next]_vars => BatchInv' /\ [Batch!Next]_<<engine, input, results>>
  BY NextKeeps, NextIsABatchStep
<1> QED BY <1>1, <1>2, PTL DEF Spec, BatchSpec, Batch!Spec

-----------------------------------------------------------------------------
(* What build_universe and build_sessions hand to the engine, for any      *)
(* number of instruments and sessions and whatever is drawn.               *)

Positive == {x \in Int : x > 0}

\* The move is by an exponential factor, so a positive spot stays positive.
PositiveMoves ==
  \A s, sigma \in Positive, z \in Int, shock \in Nat : Moved(s, sigma, z, shock) \in Positive

Priced == [s : Positive, sigma : Positive, t : Positive]
Listing(option_type) == [option_type : {option_type}, listing : Listings[option_type]]
Session == [instrument : Int, session_id : Int, is_gap : BOOLEAN,
            contract : [option_type : {"C", "P"}, strike : Positive],
            open : Priced, close : Priced]

MarketInv ==
  /\ universe \in Seq(Listing("C") \union Listing("P"))
  /\ market \in Seq(Session)
  /\ Len(market) <= NInstruments * NSessions

LEMMA MaxOfTwo ==
  ASSUME NEW a \in Int, NEW b \in Int
  PROVE  Max({a, b}) \in {a, b} /\ Max({a, b}) >= a /\ Max({a, b}) >= b
<1>1. \E x \in {a, b} : \A y \in {a, b} : x >= y
  OBVIOUS
<1> QED BY <1>1 DEF Max

LEMMA MinOfTwo ==
  ASSUME NEW a \in Int, NEW b \in Int
  PROVE  Min({a, b}) \in {a, b} /\ Min({a, b}) <= a /\ Min({a, b}) <= b
<1>1. \E x \in {a, b} : \A y \in {a, b} : x <= y
  OBVIOUS
<1> QED BY <1>1 DEF Min

\* Clamp and floor, whatever the step: both are positive.
LEMMA ClampedIsPositive ==
  ASSUME NEW sigma \in Int PROVE Clamped(sigma) \in Positive
<1> DEFINE raised == Max({sigma, VolFloor})
<1>1. VolFloor \in Int /\ VolCap \in Int /\ 0 < VolFloor /\ VolFloor <= VolCap
  BY MarketAssumption
<1>2. raised \in Int /\ raised >= VolFloor
  BY <1>1, MaxOfTwo
<1>3. Min({raised, VolCap}) \in {raised, VolCap}
  BY <1>1, <1>2, MinOfTwo
<1> HIDE DEF raised
<1>4. Min({raised, VolCap}) \in Positive
  BY <1>1, <1>2, <1>3 DEF Positive
<1> QED BY <1>4 DEF Clamped, raised

LEMMA MaturityIsPositive ==
  ASSUME NEW t \in Int PROVE NextMaturity(t) \in Positive
<1>1. MaturityFloor \in Int /\ 0 < MaturityFloor /\ t - DT \in Int
  BY MarketAssumption
<1>2. NextMaturity(t) \in {t - DT, MaturityFloor} /\ NextMaturity(t) >= MaturityFloor
  BY <1>1, MaxOfTwo DEF NextMaturity
<1> QED BY <1>1, <1>2 DEF Positive

\* Between two instruments of the book there is always one to draw for.
LEMMA IndexIsInBook ==
  ASSUME NEW m \in Nat, m < NInstruments * NSessions
  PROVE  m \div NSessions \in 0 .. NInstruments - 1 /\ m % NSessions \in 0 .. NSessions - 1
<1> DEFINE q == m \div NSessions
<1>1. NInstruments \in Nat /\ NSessions \in Nat /\ NSessions > 0
  BY SessionsAssumption
<1>2. q \in Nat /\ m % NSessions \in 0 .. NSessions - 1 /\ m = (q * NSessions) + (m % NSessions)
  BY <1>1
<1>3. ASSUME q >= NInstruments PROVE FALSE
  <2>1. q * NSessions >= NInstruments * NSessions
    <3> HIDE DEF q
    <3> QED BY <1>1, <1>2, <1>3
  <2> HIDE DEF q
  <2> QED BY <1>1, <1>2, <2>1
<1> HIDE DEF q
<1>4. q < NInstruments
  BY <1>1, <1>2, <1>3
<1>5. q \in 0 .. NInstruments - 1
  BY <1>1, <1>2, <1>4
<1> QED BY <1>2, <1>5 DEF q

-----------------------------------------------------------------------------

\* A session opens where the listing or the session before it left the market.
LEMMA OpeningIsPriced ==
  ASSUME MarketInv, UniverseBuilt, ~MarketBuilt
  PROVE  /\ Opening \in Priced
         /\ Index \in Int /\ SessionId \in Int
         /\ [option_type |-> universe[Index + 1].option_type, strike |-> Listed.strike]
            \in [option_type : {"C", "P"}, strike : Positive]
<1>1. /\ Len(market) \in Nat /\ NInstruments \in Nat /\ NSessions \in Nat /\ NSessions > 0
      /\ NInstruments * NSessions \in Nat
  BY SessionsAssumption DEF MarketInv
<1>2. Len(market) < NInstruments * NSessions
  BY <1>1 DEF MarketInv, MarketBuilt
<1>3. Index \in 0 .. NInstruments - 1 /\ SessionId \in 0 .. NSessions - 1
  BY <1>1, <1>2, IndexIsInBook DEF Index, SessionId
<1>4. Index + 1 \in 1 .. Len(universe)
  BY <1>1, <1>3 DEF UniverseBuilt
<1>5. universe[Index + 1] \in Listing("C") \union Listing("P")
  BY <1>4 DEF MarketInv
<1>6. /\ universe[Index + 1].option_type \in {"C", "P"}
      /\ Listed \in Listings[universe[Index + 1].option_type]
  BY <1>5 DEF Listing, Listed
<1>7. /\ Listed \in [strike : Int, open : [s : Int, sigma : Int, t : Int]]
      /\ Listed.strike > 0
      /\ Listed.open.s > 0 /\ Listed.open.sigma > 0 /\ Listed.open.t > 0
  BY <1>6, ListingsAssumption
<1>8. Listed.open \in Priced /\ Listed.strike \in Positive
  BY <1>7 DEF Priced, Positive
<1>9. CASE SessionId = 0
  BY <1>3, <1>6, <1>7, <1>8, <1>9 DEF Opening
<1>10. CASE SessionId # 0
  <2>1. Len(market) # 0
    BY <1>1, <1>10 DEF SessionId
  <2>2. market[Len(market)] \in Session
    BY <1>1, <2>1 DEF MarketInv
  <2> QED BY <1>3, <1>6, <1>7, <1>8, <1>10, <2>2 DEF Opening, Last, Session
<1> QED BY <1>9, <1>10

LEMMA DrawSessionKeeps ==
  ASSUME PositiveMoves, MarketInv, DrawSession PROVE MarketInv'
<1>1. /\ UniverseBuilt /\ ~MarketBuilt /\ universe' = universe
      /\ Len(market) \in Nat /\ NInstruments * NSessions \in Nat
  BY SessionsAssumption DEF DrawSession, MarketInv
<1>2. Len(market) < NInstruments * NSessions
  BY <1>1 DEF MarketInv, MarketBuilt
<1> DEFINE shock == IF IsGap THEN GapShockMultiplier ELSE 1
           contract == [option_type |-> universe[Index + 1].option_type,
                        strike |-> Listed.strike]
           close(draw) == State(Moved(Opening.s, Opening.sigma, draw[1], shock),
                                Clamped(Opening.sigma + draw[2]), NextMaturity(Opening.t))
           session(draw) == [instrument |-> Index, session_id |-> SessionId, is_gap |-> IsGap,
                             contract |-> contract, open |-> Opening, close |-> close(draw)]
<1>3. PICK draw \in Draws : market' = Append(market, session(draw))
  BY DEF DrawSession
<1>4. Opening \in Priced /\ Index \in Int /\ SessionId \in Int
      /\ contract \in [option_type : {"C", "P"}, strike : Positive]
  BY <1>1, OpeningIsPriced
<1>5. shock \in Nat /\ IsGap \in BOOLEAN
  BY MarketAssumption DEF IsGap
<1>6. draw[1] \in Int /\ draw[2] \in Int
  BY DrawsAssumption
<1>7. /\ Opening.s \in Positive /\ Opening.sigma \in Positive
      /\ Opening.sigma + draw[2] \in Int /\ Opening.t \in Int
  BY <1>4, <1>6 DEF Priced, Positive
<1>8. Moved(Opening.s, Opening.sigma, draw[1], shock) \in Positive
  <2> HIDE DEF shock
  <2> QED BY <1>5, <1>6, <1>7 DEF PositiveMoves
<1>9. close(draw) \in Priced
  BY <1>7, <1>8, ClampedIsPositive, MaturityIsPositive DEF State, Priced
<1> HIDE DEF close, contract
<1>10. session(draw) \in Session
  BY <1>4, <1>5, <1>9 DEF Session
<1> HIDE DEF session
<1>11. market' \in Seq(Session) /\ Len(market') = Len(market) + 1
  BY <1>3, <1>10 DEF MarketInv
<1> QED BY <1>1, <1>2, <1>11 DEF MarketInv

LEMMA DrawInstrumentKeeps ==
  ASSUME MarketInv, DrawInstrument PROVE MarketInv'
<1> DEFINE type == IF Len(universe) % 2 = 0 THEN "C" ELSE "P"
<1>1. PICK listing \in Listings[type] :
        universe' = Append(universe, [option_type |-> type, listing |-> listing])
  BY DEF DrawInstrument
<1>2. [option_type |-> type, listing |-> listing] \in Listing("C") \union Listing("P")
  BY DEF Listing
<1>3. market' = market
  BY DEF DrawInstrument
<1> HIDE DEF type
<1> QED BY <1>1, <1>2, <1>3 DEF MarketInv

\* Only the two draws touch the market.
LEMMA MarketNextKeeps ==
  ASSUME PositiveMoves, MarketInv, [Next]_vars PROVE MarketInv'
<1>1. CASE Attribution
  <2>1. CASE BuildMarket
    BY <2>1, DrawSessionKeeps, DrawInstrumentKeeps DEF BuildMarket
  <2>2. CASE UNCHANGED marketVars
    BY <2>2 DEF marketVars, MarketInv
  <2> QED BY <1>1, <2>1, <2>2 DEF Attribution, StartDirect, TakeDirect, StartFull, Summarise
<1>2. CASE UNCHANGED marketVars
  BY <1>2 DEF marketVars, MarketInv
<1> QED BY <1>1, <1>2 DEF Next, vars, JoinVanna, StartBumps, TakeBumps, StartFinal, TakeFinal, Engine

\* The comment of price_and_greeks, for a path of any length: no state that
\* build_sessions opens or closes in reaches the expired branch.
THEOREM SimulatorStaysPriced == PositiveMoves => (Spec => []MarketStaysPriced)
<1> SUFFICES ASSUME PositiveMoves PROVE Spec => []MarketStaysPriced
  OBVIOUS
<1>1. Init => MarketInv
  BY SessionsAssumption DEF Init, NoMarket, MarketInv
<1>2. MarketInv /\ [Next]_vars => MarketInv'
  BY MarketNextKeeps
<1>3. MarketInv => MarketStaysPriced
  <2> SUFFICES ASSUME MarketInv, NEW k \in DOMAIN market,
                      NEW state \in {market[k].open, market[k].close}
               PROVE  state.s > 0 /\ ~Degenerate(state.sigma, state.t)
    BY DEF MarketStaysPriced
  <2>1. market[k] \in Session
    BY DEF MarketInv
  <2>2. state \in Priced
    BY <2>1 DEF Session
  <2> QED BY <2>2 DEF Priced, Positive, Degenerate
<1> QED BY <1>1, <1>2, <1>3, PTL DEF Spec

-----------------------------------------------------------------------------
(* What becomes of the answers, stage by stage.                            *)

LEMMA ListLength ==
  ASSUME NEW n \in Nat, NEW f, DOMAIN f = 1 .. n, f = [k \in 1 .. n |-> f[k]]
  PROVE  Len(f) = n
<1>1. \A k \in 1 .. n : f[k] \in {f[j] : j \in 1 .. n}
  OBVIOUS
<1>2. [k \in 1 .. n |-> f[k]] \in Seq({f[j] : j \in 1 .. n})
  BY <1>1
<1>3. f \in Seq({f[j] : j \in 1 .. n})
  BY <1>2
<1> HIDE <1>1
<1> QED BY <1>3

IsList(s) == \E S : s \in Seq(S)

LEMMA ListDomain ==
  ASSUME NEW s, IsList(s) PROVE Len(s) \in Nat /\ DOMAIN s = 1 .. Len(s)
BY DEF IsList

LEMMA AppendIsList ==
  ASSUME NEW s, IsList(s), NEW x
  PROVE  IsList(Append(s, x))
<1>1. PICK S : s \in Seq(S)
  BY DEF IsList
<1> DEFINE T == S \cup {x}
<1>2. s \in Seq(T)
  <2>1. \A k \in 1 .. Len(s) : s[k] \in T
    BY <1>1
  <2>2. Len(s) \in Nat /\ s = [k \in 1 .. Len(s) |-> s[k]]
    BY <1>1
  <2> HIDE DEF T
  <2>3. [k \in 1 .. Len(s) |-> s[k]] \in Seq(T)
    BY <2>1, <2>2
  <2> QED BY <2>2, <2>3
<1>3. x \in T
  OBVIOUS
<1> HIDE DEF T
<1>4. Append(s, x) \in Seq(T)
  BY <1>2, <1>3
<1> QED BY <1>4 DEF IsList

\* What each stage of the script keeps: the batch it has asked for, and what it
\* has made of the batches before.
FullRequests == [k \in DOMAIN market |-> FullRequest(market[k])]
Joined == [k \in DOMAIN market |->
             [move |-> market[k], vanna_pnl |-> Reprice(FullRequest(market[k])).vanna_pnl]]
Bumps == [k \in 1 .. 2 * Len(sessions) |->
            IF k % 2 = 1 THEN SpotFirst(sessions[(k + 1) \div 2].move)
                         ELSE VolFirst(sessions[k \div 2].move)]
PricedOneByOne(m) ==
  [vanna_pnl |-> Reprice(FullRequest(m)).vanna_pnl,
   price0 |-> Price(m.contract, m.open.s, m.open.sigma, m.open.t),
   s_first |-> Price(m.contract, m.close.s, m.open.sigma, m.open.t),
   vol_first |-> Price(m.contract, m.open.s, m.close.sigma, m.open.t)]
Partial == [k \in DOMAIN market |-> PricedOneByOne(market[k])]
Finals == [k \in DOMAIN sessions |-> Final(sessions[k].move)]

Asked == engine \in {"running", "exited"}

StageInv ==
  /\ IsList(market)
  /\ stage = "full" => input = FullRequests
  /\ stage \in {"bumps", "final"} => sessions = Joined
  /\ stage = "bumps" /\ Asked => input = Bumps
  /\ stage = "final" => partial = Partial
  /\ stage = "final" /\ Asked => input = Finals
  /\ stage # "done" => out = << >>
  /\ out = << >> \/ DOMAIN out = DOMAIN market
  /\ RowsBelongToTheirMoves

\* A batch handed over holds an answer for every request, at its place.
LEMMA AnswersInPlace ==
  ASSUME BatchInv, engine = "exited", NEW n \in Nat, DOMAIN input = 1 .. n, Len(input) = n
  PROVE  /\ Len(results) = n
         /\ DOMAIN results = 1 .. n
         /\ \A k \in 1 .. n : results[k] = Reprice(input[k])
<1>1. results = [k \in 1 .. n |-> Reprice(input[k])]
  BY DEF BatchInv, Answered
<1>2. DOMAIN results = 1 .. n /\ results = [k \in 1 .. n |-> results[k]]
  BY <1>1
<1>3. Len(results) = n
  BY <1>2, ListLength
<1> QED BY <1>1, <1>2, <1>3

LEMMA RepricedPrices ==
  ASSUME NEW q
  PROVE  /\ Reprice(q).price_sod = Price(q.contract, q.from.s, q.from.sigma, q.from.t)
         /\ Reprice(q).price_eod = Price(q.contract, q.to.s, q.to.sigma, q.to.t)
BY DEF Reprice, Price

\* Two lists of one length are joined in full.
LEMMA JoinedInFull ==
  ASSUME NEW a, NEW b, NEW n \in Nat, Len(a) = n, Len(b) = n
  PROVE  Zipped(a, b) = [k \in 1 .. n |-> <<a[k], b[k]>>]
<1>1. Min({n, n}) = n
  <2>1. n \in Int
    OBVIOUS
  <2>2. Min({n, n}) \in {n, n}
    BY ONLY <2>1, MinOfTwo
  <2> QED BY <2>2
<1> QED BY <1>1 DEF Zipped

LEMMA JoinVannaKeeps ==
  ASSUME BatchInv, StageInv, JoinVanna
  PROVE  StageInv'
<1> DEFINE n == Len(market)
<1>1. /\ stage = "full" /\ engine = "exited" /\ engine' = "none" /\ stage' = "bumps"
      /\ market' = market /\ out' = out
      /\ sessions' = [k \in DOMAIN Zipped(market, results) |->
                        [move |-> Zipped(market, results)[k][1],
                         vanna_pnl |-> Zipped(market, results)[k][2].vanna_pnl]]
  BY DEF JoinVanna, Returned, marketVars
<1>2. n \in Nat /\ DOMAIN market = 1 .. n /\ input = FullRequests /\ out = << >>
  BY <1>1, ListDomain DEF StageInv
<1> HIDE DEF n
<1>3. DOMAIN input = 1 .. n /\ input = [k \in 1 .. n |-> input[k]]
      /\ \A k \in 1 .. n : input[k] = FullRequest(market[k])
  BY <1>2 DEF FullRequests
<1>4. Len(input) = n
  BY <1>2, <1>3, ListLength
<1>5. Len(results) = n /\ \A k \in 1 .. n : results[k] = Reprice(input[k])
  BY <1>1, <1>2, <1>3, <1>4, AnswersInPlace
<1>6. Zipped(market, results) = [k \in 1 .. n |-> <<market[k], results[k]>>]
  BY <1>2, <1>5, JoinedInFull DEF n
<1>7. sessions' = [k \in 1 .. n |-> [move |-> market[k], vanna_pnl |-> results[k].vanna_pnl]]
  BY <1>1, <1>6
<1>8. \A k \in 1 .. n : results[k] = Reprice(FullRequest(market[k]))
  BY <1>3, <1>5
<1>9. sessions' = Joined
  BY <1>2, <1>7, <1>8 DEF Joined
<1>10. Joined' = Joined
  BY <1>1 DEF Joined
<1>11. ~Asked' /\ IsList(market)'
  BY <1>1 DEF Asked, StageInv
<1> QED BY <1>1, <1>2, <1>9, <1>10, <1>11 DEF StageInv, RowsBelongToTheirMoves

\* Two answers for each session, the first of each pair for the spot.
LEMMA TakeBumpsKeeps ==
  ASSUME BatchInv, StageInv, TakeBumps
  PROVE  StageInv'
<1> DEFINE n == Len(market)
<1>1. /\ stage = "bumps" /\ engine = "exited" /\ engine' = "none" /\ stage' = "final"
      /\ market' = market /\ out' = out /\ sessions' = sessions
      /\ partial' = [k \in DOMAIN sessions |->
                   [vanna_pnl |-> sessions[k].vanna_pnl,
                    price0 |-> results[2 * k - 1].price_sod,
                    s_first |-> results[2 * k - 1].price_eod,
                    vol_first |-> results[2 * k].price_eod]]
  BY DEF TakeBumps, Returned, marketVars
<1>2. n \in Nat /\ DOMAIN market = 1 .. n /\ sessions = Joined /\ out = << >> /\ input = Bumps
  BY <1>1, ListDomain DEF StageInv, Asked
<1> HIDE DEF n
<1>3. /\ DOMAIN sessions = 1 .. n /\ sessions = [k \in 1 .. n |-> sessions[k]]
      /\ \A k \in 1 .. n : /\ sessions[k].move = market[k]
                           /\ sessions[k].vanna_pnl = Reprice(FullRequest(market[k])).vanna_pnl
  BY <1>2 DEF Joined
<1>4. Len(sessions) = n
  BY <1>2, <1>3, ListLength
<1>5. 2 * n \in Nat
  BY <1>2
<1>6. input = [k \in 1 .. 2 * n |->
                IF k % 2 = 1 THEN SpotFirst(sessions[(k + 1) \div 2].move)
                             ELSE VolFirst(sessions[k \div 2].move)]
  BY <1>2, <1>4 DEF Bumps
<1>7. DOMAIN input = 1 .. 2 * n /\ input = [k \in 1 .. 2 * n |-> input[k]]
  BY <1>6
<1>8. Len(input) = 2 * n
  BY <1>5, <1>7, ListLength
<1>9. \A k \in 1 .. 2 * n : results[k] = Reprice(input[k])
  BY <1>1, <1>5, <1>7, <1>8, AnswersInPlace
<1>10. ASSUME NEW k \in 1 .. n
       PROVE  /\ results[2 * k - 1] = Reprice(SpotFirst(market[k]))
              /\ results[2 * k] = Reprice(VolFirst(market[k]))
  <2>1. /\ 2 * k - 1 \in 1 .. 2 * n /\ 2 * k \in 1 .. 2 * n
        /\ (2 * k - 1) % 2 = 1 /\ ((2 * k - 1) + 1) \div 2 = k
        /\ (2 * k) % 2 = 0 /\ (2 * k) \div 2 = k
    BY <1>2
  <2>2. input[2 * k - 1] = SpotFirst(sessions[k].move)
    BY <1>6, <2>1
  <2>3. input[2 * k] = VolFirst(sessions[k].move)
    BY <1>6, <2>1
  <2> QED BY <1>3, <1>9, <2>1, <2>2, <2>3
<1>11. ASSUME NEW k \in 1 .. n
       PROVE  [vanna_pnl |-> sessions[k].vanna_pnl,
               price0 |-> results[2 * k - 1].price_sod,
               s_first |-> results[2 * k - 1].price_eod,
               vol_first |-> results[2 * k].price_eod] = PricedOneByOne(market[k])
  <2> DEFINE m == market[k]
             a == SpotFirst(m)
             b == VolFirst(m)
  <2>1. /\ a.contract = m.contract /\ a.from = m.open
        /\ a.to.s = m.close.s /\ a.to.sigma = m.open.sigma /\ a.to.t = m.open.t
    BY DEF SpotFirst, Bumped, Request, State
  <2>2. /\ b.contract = m.contract
        /\ b.to.s = m.open.s /\ b.to.sigma = m.close.sigma /\ b.to.t = m.open.t
    BY DEF VolFirst, Bumped, Request, State
  <2> HIDE DEF a, b
  <2>3. /\ results[2 * k - 1].price_sod = Price(m.contract, m.open.s, m.open.sigma, m.open.t)
        /\ results[2 * k - 1].price_eod = Price(m.contract, m.close.s, m.open.sigma, m.open.t)
    BY <1>10, <2>1, RepricedPrices DEF a
  <2>4. results[2 * k].price_eod = Price(m.contract, m.open.s, m.close.sigma, m.open.t)
    BY <1>10, <2>2, RepricedPrices DEF b
  <2> QED BY <1>3, <2>3, <2>4 DEF PricedOneByOne
<1>12. partial' = Partial
  BY <1>1, <1>2, <1>3, <1>11 DEF Partial
<1>13. Partial' = Partial /\ Joined' = Joined
  BY <1>1 DEF Partial, Joined
<1>14. ~Asked' /\ IsList(market)'
  BY <1>1 DEF Asked, StageInv
<1> QED BY <1>1, <1>2, <1>12, <1>13, <1>14 DEF StageInv, RowsBelongToTheirMoves

\* The third batch completes the rows.
\* The answers of the last batch make a row each, of the session's own prices.
LEMMA TakeFinalAnswersAll ==
  ASSUME BatchInv, StageInv, TakeFinal
  PROVE  out' = [k \in DOMAIN market |-> Expected(market[k])]
<1> DEFINE n == Len(market)
<1>1. /\ stage = "final" /\ engine = "exited"
      /\ out' = [k \in DOMAIN Zipped(partial, results) |->
                   OrderRow(Zipped(partial, results)[k][1],
                            Zipped(partial, results)[k][2].price_eod)]
  BY DEF TakeFinal, Returned
<1>2. n \in Nat /\ DOMAIN market = 1 .. n /\ sessions = Joined /\ partial = Partial /\ input = Finals
  BY <1>1, ListDomain DEF StageInv, Asked
<1> HIDE DEF n
<1>3. /\ DOMAIN sessions = 1 .. n
      /\ \A k \in 1 .. n : sessions[k].move = market[k]
  BY <1>2 DEF Joined
<1>4. /\ DOMAIN partial = 1 .. n /\ partial = [k \in 1 .. n |-> partial[k]]
      /\ \A k \in 1 .. n : partial[k] = PricedOneByOne(market[k])
  BY <1>2 DEF Partial
<1>5. /\ DOMAIN input = 1 .. n /\ input = [k \in 1 .. n |-> input[k]]
      /\ \A k \in 1 .. n : input[k] = Final(market[k])
  BY <1>2, <1>3 DEF Finals
<1>6. Len(input) = n /\ Len(partial) = n
  BY <1>2, <1>4, <1>5, ListLength
<1>7. Len(results) = n /\ \A k \in 1 .. n : results[k] = Reprice(Final(market[k]))
  BY <1>1, <1>2, <1>5, <1>6, AnswersInPlace
<1>8. Zipped(partial, results) = [k \in 1 .. n |-> <<partial[k], results[k]>>]
  BY <1>2, <1>6, <1>7, JoinedInFull
<1>9. out' = [k \in 1 .. n |-> OrderRow(partial[k], results[k].price_eod)]
  BY <1>1, <1>8
<1>10. ASSUME NEW k \in 1 .. n PROVE out'[k] = Expected(market[k])
  <2> DEFINE m == market[k]
             c == Final(m)
  <2>1. /\ c.contract = m.contract
        /\ c.to.s = m.close.s /\ c.to.sigma = m.close.sigma /\ c.to.t = m.open.t
    BY DEF Final, Bumped, Request, State
  <2> HIDE DEF c
  <2>2. results[k].price_eod = Price(m.contract, m.close.s, m.close.sigma, m.open.t)
    BY <1>7, <2>1, RepricedPrices DEF c
  <2>3. out'[k] = OrderRow(PricedOneByOne(m), Price(m.contract, m.close.s, m.close.sigma, m.open.t))
    BY <1>4, <1>9, <2>2
  <2> QED BY <2>3 DEF OrderRow, PricedOneByOne, Expected
<1> QED BY <1>2, <1>9, <1>10

LEMMA TakeFinalKeeps ==
  ASSUME BatchInv, StageInv, TakeFinal
  PROVE  StageInv'
<1>1. stage' = "done" /\ market' = market
  BY DEF TakeFinal, marketVars
<1>2. out' = [k \in DOMAIN market |-> Expected(market[k])]
  BY TakeFinalAnswersAll
<1>3. RowsBelongToTheirMoves'
  <2>1. \A k \in DOMAIN out' : out'[k] = Expected(market'[k])
    BY <1>1, <1>2
  <2> QED BY <2>1 DEF RowsBelongToTheirMoves, Expected
<1>4. IsList(market)' /\ DOMAIN out' = DOMAIN market'
  BY <1>1, <1>2 DEF StageInv
<1> QED BY <1>1, <1>3, <1>4 DEF StageInv

\* Nothing of a stage that has not begun depends on the market.
LEMMA BuildMarketKeepsStage ==
  ASSUME StageInv, BuildMarket, UNCHANGED check
  PROVE  StageInv'
<1>1. stage = "build" /\ stage' = stage /\ out = << >> /\ out' = out
  BY DEF BuildMarket, check, StageInv
<1>2. IsList(market)'
  <2>1. market' = market \/ \E x : market' = Append(market, x)
    BY DEF BuildMarket, DrawInstrument, DrawSession
  <2>2. IsList(market)
    BY DEF StageInv
  <2>3. CASE market' = market
    BY <2>2, <2>3 DEF IsList
  <2>4. CASE \E x : market' = Append(market, x)
    <3>1. PICK x : market' = Append(market, x)
      BY <2>4
    <3>2. IsList(Append(market, x))
      BY <2>2, AppendIsList
    <3> QED BY <3>1, <3>2 DEF IsList
  <2> QED BY <2>1, <2>3, <2>4
<1> QED BY <1>1, <1>2 DEF StageInv, RowsBelongToTheirMoves

\* A step that leaves the market and the script's data alone keeps what they
\* say; only what was asked for has to be looked at.
LEMMA QuietStage ==
  ASSUME StageInv, UNCHANGED <<market, check>>,
         stage' \in {stage, "full"} \/ (stage' \in {"direct", "done"} /\ out = << >>),
         stage' = "full" => stage # "done" /\ input' = FullRequests,
         stage \in {"bumps", "final"} => stage' = stage,
         stage = "bumps" /\ Asked' => input' = Bumps,
         stage = "final" /\ Asked' => input' = Finals
  PROVE  StageInv'
<1>1. /\ FullRequests' = FullRequests /\ Joined' = Joined /\ Bumps' = Bumps
      /\ Partial' = Partial /\ Finals' = Finals
      /\ RowsBelongToTheirMoves' = RowsBelongToTheirMoves
      /\ IsList(market)' = IsList(market)
  BY DEF FullRequests, Joined, Bumps, Partial, Finals, check, RowsBelongToTheirMoves, IsList
<1>2. sessions' = sessions /\ partial' = partial /\ out' = out
  BY DEF check
<1> QED BY <1>1, <1>2 DEF StageInv

LEMMA NextKeepsStage ==
  ASSUME BatchInv, StageInv, [Next]_vars
  PROVE  StageInv'
<1>1. CASE Attribution /\ UNCHANGED check
  <2>1. CASE BuildMarket
    BY <1>1, <2>1, BuildMarketKeepsStage
  <2>2. CASE StartDirect
    <3>1. stage = "build" /\ stage' = "direct" /\ market' = market
      BY <2>2 DEF StartDirect, marketVars
    <3>2. out = << >>
      BY <3>1 DEF StageInv
    <3> QED BY <1>1, <3>1, <3>2, QuietStage
  <2>3. CASE StartFull
    <3>1. stage = "build" /\ stage' = "full" /\ market' = market /\ input' = FullRequests
      BY <2>3 DEF StartFull, StartBatch, marketVars, FullRequests
    <3> QED BY <1>1, <3>1, QuietStage
  <2>4. CASE TakeDirect
    <3>1. stage = "direct" /\ stage' = "done" /\ market' = market
      BY <2>4 DEF TakeDirect, marketVars
    <3>2. out = << >>
      BY <3>1 DEF StageInv
    <3> QED BY <1>1, <3>1, <3>2, QuietStage
  <2>5. CASE Summarise
    <3>1. stage = "full" /\ stage' = "done" /\ market' = market
      BY <2>5 DEF Summarise, marketVars
    <3>2. out = << >>
      BY <3>1 DEF StageInv
    <3> QED BY <1>1, <3>1, <3>2, QuietStage
  <2> QED BY <1>1, <2>1, <2>2, <2>3, <2>4, <2>5 DEF Attribution
<1>2. CASE JoinVanna
  BY <1>2, JoinVannaKeeps
<1>3. CASE StartBumps
  <2>1. /\ stage = "bumps" /\ stage' = stage /\ market' = market /\ UNCHANGED check
        /\ input' = Bumps
    BY <1>3 DEF StartBumps, StartBatch, marketVars, Bumps
  <2> QED BY <2>1, QuietStage
<1>4. CASE TakeBumps
  BY <1>4, TakeBumpsKeeps
<1>5. CASE StartFinal
  <2>1. /\ stage = "final" /\ stage' = stage /\ market' = market /\ UNCHANGED check
        /\ input' = Finals
    BY <1>5 DEF StartFinal, StartBatch, marketVars, Finals
  <2> QED BY <2>1, QuietStage
<1>6. CASE TakeFinal
  BY <1>6, TakeFinalKeeps
<1>7. CASE Engine
  <2>1. UNCHANGED <<market, check>> /\ stage' = stage /\ input' = input
    BY <1>7 DEF Engine, marketVars, Step, ReadLine, RefuseLine, Killed, PrintAll, NotBuilt
  <2>2. Asked' => Asked
    BY <1>7 DEF Engine, Asked, Step, ReadLine, RefuseLine, Killed, PrintAll, NotBuilt
  <2>3. /\ stage' = "full" => stage # "done" /\ input' = FullRequests
        /\ stage = "bumps" /\ Asked' => input' = Bumps
        /\ stage = "final" /\ Asked' => input' = Finals
    BY <2>1, <2>2 DEF StageInv
  <2> QED BY <2>1, <2>3, QuietStage
<1>8. CASE UNCHANGED vars
  <2>1. UNCHANGED <<market, check>> /\ stage' = stage /\ input' = input /\ engine' = engine
    BY <1>8 DEF vars, marketVars, bridge
  <2>2. /\ stage' = "full" => stage # "done" /\ input' = FullRequests
        /\ stage = "bumps" /\ Asked' => input' = Bumps
        /\ stage = "final" /\ Asked' => input' = Finals
    BY <2>1 DEF StageInv, Asked
  <2> QED BY <2>1, <2>2, QuietStage
<1> QED BY <1>1, <1>2, <1>3, <1>4, <1>5, <1>6, <1>7, <1>8 DEF Next

THEOREM StagesKeepTheirPlace == Spec => [](BatchInv /\ StageInv)
<1>1. Init => BatchInv /\ StageInv
  <2> SUFFICES ASSUME Init PROVE BatchInv /\ StageInv
    OBVIOUS
  <2>1. BatchInv
    BY DEF Init, BridgeInit, BatchInv
  <2>2. market = << >> /\ stage = "build" /\ out = << >>
    BY DEF Init, NoMarket, NoAttribution
  <2>3. IsList(market)
    <3>1. << >> \in Seq({})
      OBVIOUS
    <3> QED BY <2>2, <3>1 DEF IsList
  <2> QED BY <2>1, <2>2, <2>3 DEF StageInv, RowsBelongToTheirMoves
<1>2. (BatchInv /\ StageInv) /\ [Next]_vars => (BatchInv /\ StageInv)'
  BY NextKeeps, NextKeepsStage
<1> QED BY <1>1, <1>2, PTL DEF Spec

\* Three batches joined by position, none of whose answers is checked against
\* an id: for a market of any size, every row of compare_sequential_orders is
\* made of the four prices and the vanna_pnl of the session at its own place.
THEOREM RowsAreOfTheirMoves == Spec => []RowsBelongToTheirMoves
<1>1. StageInv => RowsBelongToTheirMoves
  BY DEF StageInv
<1> QED BY <1>1, StagesKeepTheirPlace, PTL

-----------------------------------------------------------------------------
(* Requests are of numbers, and what an expired option's move leaves over. *)

Numbers(q) ==
  {q.contract.strike, q.from.s, q.from.sigma, q.from.t, q.to.s, q.to.sigma, q.to.t} \subseteq Int

InputIsNumbers ==
  /\ DOMAIN input = 1 .. Len(input)
  /\ \A k \in DOMAIN input : Numbers(input[k])

\* The answer to a request in the expired branch.
Stays(q) ==
  LET strike == q.contract.strike
  IN  \/ q.from.s > strike /\ q.to.s >= strike
      \/ q.from.s < strike /\ q.to.s <= strike
      \/ q.from.s = strike /\ IF IsCall(q.contract) THEN q.to.s <= strike ELSE q.to.s >= strike

LEMMA IntrinsicValue ==
  ASSUME NEW c, c.strike \in Int, NEW s \in Int
  PROVE  /\ IsCall(c) => Intrinsic(c, s) = IF s > c.strike THEN s - c.strike ELSE 0
         /\ ~IsCall(c) => Intrinsic(c, s) = IF s < c.strike THEN c.strike - s ELSE 0
<1>1. \A x \in Int : Max({0, x}) \in {0, x} /\ Max({0, x}) >= 0 /\ Max({0, x}) >= x
  BY MaxOfTwo
<1>2. CASE IsCall(c)
  <2>1. Intrinsic(c, s) = Max({0, s - c.strike}) /\ s - c.strike \in Int
    BY <1>2 DEF Intrinsic
  <2> QED BY <1>1, <1>2, <2>1
<1>3. CASE ~IsCall(c)
  <2>1. Intrinsic(c, s) = Max({0, c.strike - s}) /\ c.strike - s \in Int
    BY <1>3 DEF Intrinsic
  <2> QED BY <1>1, <1>3, <2>1
<1> QED BY <1>2, <1>3

LEMMA ExpiredResidual ==
  ASSUME NEW q, Numbers(q), Degenerate(q.from.sigma, q.from.t), Degenerate(q.to.sigma, q.to.t)
  PROVE  (Reprice(q).residual_full = 0) <=> Stays(q)
<1> DEFINE c == q.contract
           s == q.from.s
           u == q.to.s
           dvol == q.to.sigma - q.from.sigma
           dt == q.to.t - q.from.t
           delta == ExpiryDelta(c, s)
<1>1. c.strike \in Int /\ s \in Int /\ u \in Int /\ dvol \in Int /\ dt \in Int
  BY DEF Numbers
<1>2. \A x \in Int : SecondOrder(0, x) = 0
  <2>1. \A x \in Int : (0 * x * x) = 0
    BY SMTT(30)
  <2>2. (0 \div 2) = 0
    OBVIOUS
  <2> QED BY <2>1, <2>2 DEF SecondOrder
<1>3. delta \in Int
  BY DEF ExpiryDelta
<1>4. /\ PriceAndGreeks(c, s, q.from.sigma, q.from.t) = Expired(c, s)
      /\ Price(c, u, q.to.sigma, q.to.t) = Intrinsic(c, u)
  BY DEF Price, PriceAndGreeks, Expired
<1>5. /\ Expired(c, s).price = Intrinsic(c, s) /\ Expired(c, s).delta = delta
      /\ Expired(c, s).gamma = 0 /\ Expired(c, s).vega = 0 /\ Expired(c, s).theta = 0
      /\ Expired(c, s).vanna = 0 /\ Expired(c, s).volga = 0
  BY DEF Expired
<1>6. Reprice(q).residual_full =
        Intrinsic(c, u) - Intrinsic(c, s)
        - ((delta * (u - s) + SecondOrder(0, u - s) + 0 * dvol + 0 * dt)
           + 0 * (u - s) * dvol + SecondOrder(0, dvol))
  BY <1>4, <1>5 DEF Reprice
<1>7. u - s \in Int /\ 0 * dvol = 0 /\ 0 * dt = 0 /\ 0 * (u - s) * dvol = 0
  <2>1. \A i \in Int : 0 * i = 0
    OBVIOUS
  <2>2. u - s \in Int
    BY <1>1
  <2> QED BY <1>1, <2>1, <2>2
<1>8. SecondOrder(0, u - s) = 0 /\ SecondOrder(0, dvol) = 0
  BY <1>1, <1>2, <1>7
<1>9. delta * (u - s) \in Int /\ Intrinsic(c, u) \in Int /\ Intrinsic(c, s) \in Int
  BY <1>1, <1>3, <1>7, IntrinsicValue
<1> HIDE DEF dvol, dt, delta
<1>10. Reprice(q).residual_full = Intrinsic(c, u) - Intrinsic(c, s) - delta * (u - s)
  BY <1>6, <1>7, <1>8, <1>9
<1>11. CASE IsCall(c)
  <2>1. /\ Intrinsic(c, u) = IF u > c.strike THEN u - c.strike ELSE 0
        /\ Intrinsic(c, s) = IF s > c.strike THEN s - c.strike ELSE 0
        /\ delta = IF s > c.strike THEN 1 ELSE 0
    BY <1>1, <1>11, IntrinsicValue DEF delta, ExpiryDelta
  <2>2. delta * (u - s) = IF s > c.strike THEN u - s ELSE 0
    BY <1>7, <2>1
  <2> QED BY <1>1, <1>10, <1>11, <2>1, <2>2 DEF Stays
<1>12. CASE ~IsCall(c)
  <2>1. /\ Intrinsic(c, u) = IF u < c.strike THEN c.strike - u ELSE 0
        /\ Intrinsic(c, s) = IF s < c.strike THEN c.strike - s ELSE 0
        /\ delta = IF s < c.strike THEN -1 ELSE 0
    BY <1>1, <1>12, IntrinsicValue DEF delta, ExpiryDelta
  <2>2. delta * (u - s) = IF s < c.strike THEN s - u ELSE 0
    BY <1>1, <1>7, <2>1
  <2> QED BY <1>1, <1>10, <1>12, <2>1, <2>2 DEF Stays
<1> QED BY <1>11, <1>12

LEMMA SessionNumbers ==
  ASSUME NEW m \in Session
  PROVE  /\ Numbers(FullRequest(m)) /\ Numbers(SpotFirst(m)) /\ Numbers(VolFirst(m))
         /\ Numbers(Final(m))
<1>1. {m.contract.strike, m.open.s, m.open.sigma, m.open.t,
       m.close.s, m.close.sigma, m.close.t} \subseteq Int
  BY DEF Session, Priced, Positive
<1>2. Numbers(FullRequest(m))
  BY <1>1 DEF Numbers, FullRequest, Request
<1>3. Numbers(SpotFirst(m))
  BY <1>1 DEF Numbers, SpotFirst, Bumped, Request, State
<1>4. Numbers(VolFirst(m))
  BY <1>1 DEF Numbers, VolFirst, Bumped, Request, State
<1>5. Numbers(Final(m))
  BY <1>1 DEF Numbers, Final, Bumped, Request, State
<1> QED BY <1>2, <1>3, <1>4, <1>5

LEMMA NextKeepsNumbers ==
  ASSUME MarketInv, StageInv, InputIsNumbers, [Next]_vars
  PROVE  InputIsNumbers'
<1>1. \A k \in DOMAIN market : market[k] \in Session
  BY DEF MarketInv
<1>2. CASE input' = input
  BY <1>2 DEF InputIsNumbers
<1>3. CASE StartDirect
  <2>1. PICK requests \in DirectCalls : input' = requests
    BY <1>3 DEF StartDirect, StartBatch
  <2> QED BY <2>1, DirectCallsAssumption DEF InputIsNumbers, Numbers
<1>4. CASE StartFull
  <2>1. input' = [k \in DOMAIN market |-> FullRequest(market[k])]
    BY <1>4 DEF StartFull, StartBatch
  <2>2. DOMAIN market = 1 .. Len(market) /\ Len(market) \in Nat
    BY DEF MarketInv
  <2>3. DOMAIN input' = 1 .. Len(market) /\ input' = [k \in 1 .. Len(market) |-> input'[k]]
    BY <2>1, <2>2
  <2>4. Len(input') = Len(market)
    BY <2>2, <2>3, ListLength
  <2> QED BY <1>1, <2>1, <2>2, <2>3, <2>4, SessionNumbers DEF InputIsNumbers
<1>5. ASSUME stage \in {"bumps", "final"}
      PROVE  /\ Len(sessions) = Len(market) /\ Len(market) \in Nat
             /\ DOMAIN sessions = 1 .. Len(market)
             /\ \A k \in 1 .. Len(market) : sessions[k].move \in Session
  <2>1. sessions = Joined /\ IsList(market)
    BY <1>5 DEF StageInv
  <2>2. Len(market) \in Nat /\ DOMAIN market = 1 .. Len(market)
    BY <2>1, ListDomain
  <2> DEFINE n == Len(market)
  <2>3. DOMAIN sessions = 1 .. n /\ sessions = [k \in 1 .. n |-> sessions[k]]
        /\ \A k \in 1 .. n : sessions[k].move = market[k]
    BY <2>1, <2>2 DEF Joined
  <2> HIDE DEF n
  <2>4. Len(sessions) = n
    BY <2>2, <2>3, ListLength DEF n
  <2> QED BY <1>1, <2>2, <2>3, <2>4 DEF n
<1>6. CASE StartBumps
  <2> DEFINE n == Len(market)
  <2>1. /\ n \in Nat /\ \A k \in 1 .. n : sessions[k].move \in Session
        /\ input' = [k \in 1 .. 2 * n |->
                      IF k % 2 = 1 THEN SpotFirst(sessions[(k + 1) \div 2].move)
                                   ELSE VolFirst(sessions[k \div 2].move)]
    BY <1>5, <1>6 DEF StartBumps, StartBatch
  <2> HIDE DEF n
  <2>2. ASSUME NEW k \in 1 .. 2 * n PROVE Numbers(input'[k])
    <3>1. CASE k % 2 = 1
      <4>1. (k + 1) \div 2 \in 1 .. n
        BY <2>1, <3>1
      <4>2. input'[k] = SpotFirst(sessions[(k + 1) \div 2].move)
        BY <2>1, <3>1
      <4> QED BY <2>1, <4>1, <4>2, SessionNumbers
    <3>2. CASE k % 2 # 1
      <4>1. k \div 2 \in 1 .. n
        BY <2>1, <3>2
      <4>2. input'[k] = VolFirst(sessions[k \div 2].move)
        BY <2>1, <3>2
      <4> QED BY <2>1, <4>1, <4>2, SessionNumbers
    <3> QED BY <3>1, <3>2
  <2>3. 2 * n \in Nat /\ DOMAIN input' = 1 .. 2 * n /\ input' = [k \in 1 .. 2 * n |-> input'[k]]
    BY <2>1
  <2>4. Len(input') = 2 * n
    BY <2>3, ListLength
  <2> QED BY <2>2, <2>3, <2>4 DEF InputIsNumbers
<1>7. CASE StartFinal
  <2>1. /\ input' = [k \in DOMAIN sessions |-> Final(sessions[k].move)]
        /\ \A k \in DOMAIN sessions : sessions[k].move \in Session
    BY <1>5, <1>7 DEF StartFinal, StartBatch
  <2>2. Len(market) \in Nat /\ DOMAIN sessions = 1 .. Len(market)
    BY <1>5, <1>7 DEF StartFinal
  <2>3. DOMAIN input' = 1 .. Len(market) /\ input' = [k \in 1 .. Len(market) |-> input'[k]]
    BY <2>1, <2>2
  <2>4. Len(input') = Len(market)
    BY <2>2, <2>3, ListLength
  <2> QED BY <2>1, <2>2, <2>3, <2>4, SessionNumbers DEF InputIsNumbers
<1>8. input' = input \/ StartDirect \/ StartFull \/ StartBumps \/ StartFinal
  BY DEF Next, vars, bridge, Attribution, BuildMarket, TakeDirect, Summarise, Returned,
         JoinVanna, TakeBumps, TakeFinal, Engine, Step, ReadLine, RefuseLine, Killed, PrintAll,
         NotBuilt
<1> QED BY <1>2, <1>3, <1>4, <1>6, <1>7, <1>8

\* The expired branch of price_and_greeks explains a move by delta alone unless
\* the move crosses the strike or leaves it into the money: for every answer of
\* every batch, of the simulator's sessions and of other clients.
THEOREM ExpiredMoves == PositiveMoves => (Spec => []ExpiredMovesAreDelta)
<1> SUFFICES ASSUME PositiveMoves PROVE Spec => []ExpiredMovesAreDelta
  OBVIOUS
<1>1. Init => MarketInv /\ InputIsNumbers
  BY SessionsAssumption DEF Init, BridgeInit, NoMarket, MarketInv, InputIsNumbers
<1>2. MarketInv /\ StageInv /\ InputIsNumbers /\ [Next]_vars => MarketInv' /\ InputIsNumbers'
  BY MarketNextKeeps, NextKeepsNumbers
<1>3. BatchInv /\ InputIsNumbers /\ StageInv => ExpiredMovesAreDelta
  <2> SUFFICES ASSUME BatchInv, InputIsNumbers, StageInv, engine = "exited", NEW k \in DOMAIN input,
                      Degenerate(input[k].from.sigma, input[k].from.t),
                      Degenerate(input[k].to.sigma, input[k].to.t)
               PROVE  (results[k].residual_full = 0) <=> Stays(input[k])
    BY DEF ExpiredMovesAreDelta, Stays
  <2>1. results[k] = Reprice(input[k])
    BY DEF BatchInv, Answered, InputIsNumbers
  <2>2. Numbers(input[k])
    BY DEF InputIsNumbers
  <2> QED BY <2>1, <2>2, ExpiredResidual
<1> QED BY <1>1, <1>2, <1>3, StagesKeepTheirPlace, PTL DEF Spec

-----------------------------------------------------------------------------
(* What an instrument's sessions lean on.                                  *)

\* The k-th session is of the instrument and the day its place says, is a
\* session of that instrument's contract, and opens where the session before it
\* closed, or at the listing.
InPlace(u, s, k) ==
  LET x == (k - 1) \div NSessions
      of == u[x + 1]
  IN  /\ s[k].instrument = x
      /\ s[k].session_id = (k - 1) % NSessions
      /\ s[k].is_gap = (((k - 1) % NSessions) % GapEvery = x % GapEvery)
      /\ s[k].contract = [option_type |-> of.option_type, strike |-> of.listing.strike]
      /\ s[k].open = IF (k - 1) % NSessions = 0 THEN of.listing.open ELSE s[k - 1].close

PathInv ==
  /\ \A k \in DOMAIN market : InPlace(universe, market, k)
  /\ market # << >> => UniverseBuilt
  /\ stage = "full" \/ rows # << >> => MarketBuilt
  /\ rows # << >> =>
       /\ stage = "done"
       /\ rows = [k \in DOMAIN market |-> SessionRow(market[k], Reprice(FullRequest(market[k])))]
       /\ summary = Summary(rows)

LEMMA DrawSessionKeepsPath ==
  ASSUME MarketInv, PathInv, DrawSession
  PROVE  /\ \A k \in DOMAIN market' : InPlace(universe', market', k)
         /\ UniverseBuilt'
<1> DEFINE n == Len(market)
           contract == [option_type |-> universe[Index + 1].option_type, strike |-> Listed.strike]
<1>1. /\ UniverseBuilt /\ universe' = universe
      /\ \E close : market' = Append(market,
             [instrument |-> Index, session_id |-> SessionId, is_gap |-> IsGap,
              contract |-> contract, open |-> Opening, close |-> close])
  BY DEF DrawSession
<1>2. PICK close : market' = Append(market,
             [instrument |-> Index, session_id |-> SessionId, is_gap |-> IsGap,
              contract |-> contract, open |-> Opening, close |-> close])
  BY <1>1
<1>3. n \in Nat /\ DOMAIN market = 1 .. n /\ market \in Seq(Session)
  BY DEF MarketInv
<1>4. IsList(market)
  BY <1>3 DEF IsList
<1> DEFINE new == [instrument |-> Index, session_id |-> SessionId, is_gap |-> IsGap,
                   contract |-> contract, open |-> Opening, close |-> close]
<1> HIDE DEF n
<1>5. /\ DOMAIN market' = 1 .. (n + 1) /\ market'[n + 1] = new
      /\ \A k \in 1 .. n : market'[k] = market[k]
  <2> HIDE DEF new
  <2>1. market' = Append(market, new)
    BY <1>2 DEF new
  <2>2. PICK S : market \in Seq(S)
    BY <1>3
  <2> QED BY <1>3, <2>1, <2>2 DEF n
<1>6. ASSUME NEW k \in 1 .. n PROVE InPlace(universe', market', k)
  <2>1. InPlace(universe, market, k)
    BY <1>3 DEF PathInv
  <2>2. market'[k] = market[k]
    BY <1>5
  <2>3. (k - 1) % NSessions # 0 => market'[k - 1] = market[k - 1]
    <3> SUFFICES ASSUME (k - 1) % NSessions # 0 PROVE market'[k - 1] = market[k - 1]
      OBVIOUS
    <3>1. NSessions \in Nat /\ NSessions > 0
      BY SessionsAssumption
    <3>2. k # 1
      BY <3>1
    <3>3. k - 1 \in 1 .. n
      BY <1>3, <3>2
    <3> QED BY <1>5, <3>3
  <2> QED BY <1>1, <2>1, <2>2, <2>3 DEF InPlace
<1>7. InPlace(universe', market', n + 1)
  <2>1. (n + 1) - 1 = n
    BY <1>3
  <2>2. Index = n \div NSessions /\ SessionId = n % NSessions
    BY DEF Index, SessionId, n
  <2>3. IsGap = ((n % NSessions) % GapEvery = (n \div NSessions) % GapEvery)
    BY <2>2 DEF IsGap
  <2>4. Opening = IF n % NSessions = 0 THEN universe[(n \div NSessions) + 1].listing.open
                                       ELSE market'[n].close
    <3>1. CASE n % NSessions = 0
      BY <2>2, <3>1 DEF Opening, Listed
    <3>2. CASE n % NSessions # 0
      <4>1. NSessions \in Nat /\ NSessions > 0
        BY SessionsAssumption
      <4>2. n # 0
        BY <4>1, <3>2
      <4>3. n \in 1 .. n
        BY <1>3, <4>2
      <4>4. Last(market) = market[n]
        BY DEF Last, n
      <4> QED BY <1>5, <2>2, <3>2, <4>3, <4>4 DEF Opening
    <3> QED BY <3>1, <3>2
  <2>5. contract = [option_type |-> universe[(n \div NSessions) + 1].option_type,
                    strike |-> universe[(n \div NSessions) + 1].listing.strike]
    BY <2>2 DEF Listed
  <2>6. /\ market'[n + 1].instrument = Index /\ market'[n + 1].session_id = SessionId
        /\ market'[n + 1].is_gap = IsGap /\ market'[n + 1].contract = contract
        /\ market'[n + 1].open = Opening
    <3> HIDE DEF contract
    <3> QED BY <1>5
  <2> HIDE DEF contract, new
  <2>7. universe' = universe
    BY <1>1
  <2>8. /\ market'[n + 1].instrument = n \div NSessions
        /\ market'[n + 1].session_id = n % NSessions
        /\ market'[n + 1].is_gap = ((n % NSessions) % GapEvery = (n \div NSessions) % GapEvery)
    BY <2>2, <2>3, <2>6
  <2>9. /\ market'[n + 1].contract = [option_type |-> universe[(n \div NSessions) + 1].option_type,
                    strike |-> universe[(n \div NSessions) + 1].listing.strike]
        /\ market'[n + 1].open = IF n % NSessions = 0
             THEN universe[(n \div NSessions) + 1].listing.open ELSE market'[n].close
    BY <2>4, <2>5, <2>6
  <2> QED BY <2>1, <2>7, <2>8, <2>9 DEF InPlace
<1>8. \A k \in 1 .. (n + 1) : k \in 1 .. n \/ k = n + 1
  BY <1>3
<1>9. UniverseBuilt'
  BY <1>1 DEF UniverseBuilt
<1> QED BY <1>5, <1>6, <1>7, <1>8, <1>9

\* The answers of the one batch of run_full_attribution make a row each.
LEMMA SummariseAnswersAll ==
  ASSUME BatchInv, StageInv, Summarise
  PROVE  rows' = [k \in DOMAIN market |-> SessionRow(market[k], Reprice(FullRequest(market[k])))]
<1> DEFINE n == Len(market)
<1>1. /\ stage = "full" /\ engine = "exited"
      /\ rows' = [k \in DOMAIN Zipped(market, results) |->
                    SessionRow(Zipped(market, results)[k][1], Zipped(market, results)[k][2])]
  BY DEF Summarise, Returned
<1>2. n \in Nat /\ DOMAIN market = 1 .. n /\ input = FullRequests
  BY <1>1, ListDomain DEF StageInv
<1> HIDE DEF n
<1>3. DOMAIN input = 1 .. n /\ input = [k \in 1 .. n |-> input[k]]
      /\ \A k \in 1 .. n : input[k] = FullRequest(market[k])
  BY <1>2 DEF FullRequests
<1>4. Len(input) = n
  BY <1>2, <1>3, ListLength
<1>5. Len(results) = n /\ \A k \in 1 .. n : results[k] = Reprice(FullRequest(market[k]))
  BY <1>1, <1>2, <1>3, <1>4, AnswersInPlace
<1>6. Zipped(market, results) = [k \in 1 .. n |-> <<market[k], results[k]>>]
  BY <1>2, <1>5, JoinedInFull DEF n
<1>7. rows' = [k \in 1 .. n |-> SessionRow(market[k], results[k])]
  BY <1>1, <1>6
<1> QED BY <1>2, <1>5, <1>7

LEMMA SummariseKeepsPath ==
  ASSUME BatchInv, StageInv, PathInv, Summarise
  PROVE  PathInv'
<1>1. /\ stage = "full" /\ stage' = "done" /\ market' = market /\ universe' = universe
      /\ summary' = Summary(rows')
  BY DEF Summarise, marketVars
<1>2. rows' = [k \in DOMAIN market |-> SessionRow(market[k], Reprice(FullRequest(market[k])))]
  BY SummariseAnswersAll
<1>3. MarketBuilt /\ MarketBuilt' = MarketBuilt /\ UniverseBuilt' = UniverseBuilt
  BY <1>1 DEF PathInv, MarketBuilt, UniverseBuilt
<1> QED BY <1>1, <1>2, <1>3 DEF PathInv

LEMMA QuietPath ==
  ASSUME PathInv, UNCHANGED <<marketVars, attribution>>, stage' = stage \/ rows = << >>,
         stage' = "full" => MarketBuilt
  PROVE  PathInv'
BY DEF PathInv, marketVars, attribution, MarketBuilt, UniverseBuilt

LEMMA NextKeepsPath ==
  ASSUME MarketInv, BatchInv, StageInv, PathInv, [Next]_vars
  PROVE  PathInv'
<1>1. CASE BuildMarket
  <2>1. stage = "build" /\ stage' = "build" /\ rows = << >> /\ rows' = rows
    BY <1>1 DEF BuildMarket, attribution, PathInv
  <2>2. CASE DrawInstrument
    <3>1. market' = market /\ Len(universe) < NInstruments
      BY <2>2 DEF DrawInstrument
    <3>2. Len(universe) \in Nat /\ NInstruments \in Nat
      BY SessionsAssumption DEF MarketInv
    <3>3. market = << >>
      BY <3>1, <3>2 DEF PathInv, UniverseBuilt
    <3> QED BY <2>1, <3>1, <3>3 DEF PathInv
  <2>3. CASE DrawSession
    BY <2>1, <2>3, DrawSessionKeepsPath DEF PathInv
  <2> QED BY <1>1, <2>2, <2>3 DEF BuildMarket
<1>2. CASE Summarise
  BY <1>2, SummariseKeepsPath
<1>3. CASE StartFull
  <2>1. stage = "build" /\ MarketBuilt /\ UNCHANGED <<marketVars, attribution>>
    BY <1>3 DEF StartFull
  <2>2. rows = << >>
    BY <2>1 DEF PathInv
  <2> QED BY <2>1, <2>2, QuietPath
<1>4. CASE StartDirect \/ TakeDirect \/ JoinVanna \/ TakeBumps \/ TakeFinal
  <2>1. /\ UNCHANGED <<marketVars, attribution>> /\ stage' # "full" /\ stage # "done"
    BY <1>4 DEF StartDirect, TakeDirect, JoinVanna, TakeBumps, TakeFinal
  <2>2. rows = << >>
    BY <2>1 DEF PathInv
  <2> QED BY <2>1, <2>2, QuietPath
<1>5. CASE StartBumps \/ StartFinal \/ Engine \/ UNCHANGED vars
  <2>1. UNCHANGED <<marketVars, attribution>> /\ stage' = stage
    BY <1>5 DEF StartBumps, StartFinal, Engine, vars
  <2>2. stage' = "full" => MarketBuilt
    BY <2>1 DEF PathInv
  <2> QED BY <2>1, <2>2, QuietPath
<1> QED BY <1>1, <1>2, <1>3, <1>4, <1>5 DEF Next, Attribution

THEOREM PathInvariant == PositiveMoves => (Spec => [](MarketInv /\ BatchInv /\ StageInv /\ PathInv))
<1> SUFFICES ASSUME PositiveMoves PROVE Spec => [](MarketInv /\ BatchInv /\ StageInv /\ PathInv)
  OBVIOUS
<1>1. Init => MarketInv /\ PathInv
  BY SessionsAssumption DEF Init, NoMarket, NoAttribution, MarketInv, PathInv
<1>2. MarketInv /\ BatchInv /\ StageInv /\ PathInv /\ [Next]_vars => MarketInv' /\ PathInv'
  BY MarketNextKeeps, NextKeepsPath
<1> QED BY <1>1, <1>2, StagesKeepTheirPlace, PTL DEF Spec

-----------------------------------------------------------------------------
(* The sum of an instrument's sessions.                                    *)

\* Prices are kept as integers.
IntegralPrices ==
  \A contract \in [option_type : {"C", "P"}, strike : Positive], s, sigma, t \in Positive :
    ClosedForm(contract, s, sigma, t).price \in Int

LEMMA PlaceInBook ==
  ASSUME NEW N \in Nat \ {0}, NEW x \in Int, NEW r \in 0 .. (N - 1)
  PROVE  (x * N + r) \div N = x /\ (x * N + r) % N = r
<1> DEFINE m == x * N + r
           q == m \div N
           p == m % N
<1>1. \A i, j \in Int : i * j \in Int
  OBVIOUS
<1>2. m \in Int
  BY <1>1
<1>3. q \in Int /\ p \in 0 .. (N - 1) /\ m = (q * N) + p
  <2> HIDE DEF m
  <2> QED BY <1>2
<1>4. \A i, j, k \in Int : (i - j) * k = i * k - j * k
  BY SMTT(30)
<1>5. \A i, k \in Int : k > 0 /\ i >= 1 => i * k >= k
  BY SMTT(30)
<1> HIDE DEF q, p
<1>6. (q - x) * N = r - p
  <2>1. (q - x) * N = q * N - x * N
    BY <1>3, <1>4
  <2>2. q * N \in Int /\ x * N \in Int
    BY <1>1, <1>3
  <2> QED BY <1>3, <2>1, <2>2
<1>7. (x - q) * N = p - r
  <2>1. (x - q) * N = x * N - q * N
    BY <1>3, <1>4
  <2>2. q * N \in Int /\ x * N \in Int
    BY <1>1, <1>3
  <2> QED BY <1>3, <2>1, <2>2
<1>8. ~(q - x >= 1)
  <2> SUFFICES ASSUME q - x >= 1 PROVE FALSE
    OBVIOUS
  <2>1. (q - x) * N >= N
    BY <1>3, <1>5
  <2> QED BY <1>3, <1>6, <2>1
<1>9. ~(x - q >= 1)
  <2> SUFFICES ASSUME x - q >= 1 PROVE FALSE
    OBVIOUS
  <2>1. (x - q) * N >= N
    BY <1>3, <1>5
  <2> QED BY <1>3, <1>7, <2>1
<1>10. q = x
  BY <1>3, <1>8, <1>9
<1>11. p = r
  <2>1. q * N = x * N /\ q * N \in Int
    BY <1>1, <1>3, <1>10
  <2> QED BY <1>3, <2>1
<1> QED BY <1>10, <1>11 DEF q, p

\* The sessions of instrument x are NSessions places in a row.
LEMMA BookOfInstrument ==
  ASSUME NEW x \in 0 .. (NInstruments - 1)
  PROVE  /\ \A k \in 1 .. NInstruments * NSessions :
              (k - 1) \div NSessions = x <=> k \in (x * NSessions + 1) .. (x * NSessions + NSessions)
         /\ \A j \in 1 .. NSessions :
              /\ x * NSessions + j \in 1 .. NInstruments * NSessions
              /\ ((x * NSessions + j) - 1) \div NSessions = x
              /\ ((x * NSessions + j) - 1) % NSessions = j - 1
         /\ x * NSessions \in Nat
         /\ (x + 1) * NSessions = x * NSessions + NSessions
<1> DEFINE N == NSessions
           lo == x * N
<1>1. N \in Nat \ {0} /\ NInstruments \in Nat /\ x \in Nat /\ NInstruments - (x + 1) \in Nat
  BY SessionsAssumption
<1> HIDE DEF N
<1>2. lo \in Nat /\ (x + 1) * N = lo + N
  <2>1. \A i, j \in Nat : i * j \in Nat /\ (i + 1) * j = i * j + j
    BY SMTT(30)
  <2> QED BY <1>1, <2>1
<1>3. lo + N <= NInstruments * N /\ NInstruments * N \in Nat
  <2>1. \A i, j, k \in Nat : i - (k + 1) >= 0 => k * j + j <= i * j /\ i * j \in Nat
    <3>1. \A i, j, k \in Nat : (i - (k + 1)) * j = i * j - (k * j + j) /\ i * j \in Nat /\ k * j \in Nat
      BY SMTT(30)
    <3>2. \A i, j \in Nat : i * j >= 0
      BY SMTT(30)
    <3> SUFFICES ASSUME NEW i \in Nat, NEW j \in Nat, NEW k \in Nat, i - (k + 1) >= 0
                 PROVE  k * j + j <= i * j /\ i * j \in Nat
      OBVIOUS
    <3>3. i - (k + 1) \in Nat
      OBVIOUS
    <3>4. (i - (k + 1)) * j >= 0
      BY <3>2, <3>3
    <3>5. (i - (k + 1)) * j = i * j - (k * j + j) /\ i * j \in Nat /\ k * j \in Nat
      BY <3>1
    <3> QED BY <3>4, <3>5
  <2>2. NInstruments - (x + 1) >= 0
    BY <1>1
  <2> QED BY <1>1, <2>1, <2>2
<1>4. ASSUME NEW j \in 1 .. N
      PROVE  ((lo + j) - 1) \div N = x /\ ((lo + j) - 1) % N = j - 1
  <2>1. j - 1 \in 0 .. (N - 1) /\ (lo + j) - 1 = lo + (j - 1) /\ x \in Int
    BY <1>1, <1>2
  <2>2. (lo + (j - 1)) \div N = x /\ (lo + (j - 1)) % N = j - 1
    BY <1>1, <2>1, PlaceInBook
  <2> QED BY <2>1, <2>2
<1>5. ASSUME NEW k \in 1 .. NInstruments * N, (k - 1) \div N = x
      PROVE  k \in (lo + 1) .. (lo + N)
  <2>1. k - 1 \in Int /\ (k - 1) % N \in 0 .. (N - 1) /\ k - 1 = (((k - 1) \div N) * N) + ((k - 1) % N)
    BY <1>1, <1>3
  <2>2. k - 1 = lo + ((k - 1) % N)
    BY <1>5, <2>1
  <2> HIDE DEF lo
  <2> QED BY <1>1, <1>2, <1>3, <2>1, <2>2
<1>6. ASSUME NEW k \in 1 .. NInstruments * N, k \in (lo + 1) .. (lo + N)
      PROVE  (k - 1) \div N = x
  <2> HIDE DEF lo
  <2>1. k - lo \in 1 .. N /\ lo + (k - lo) = k
    BY <1>1, <1>2, <1>6
  <2> QED BY <1>4, <2>1
<1>7. \A j \in 1 .. N : lo + j \in 1 .. NInstruments * N
  <2> HIDE DEF lo
  <2> QED BY <1>1, <1>2, <1>3
<1> QED BY <1>2, <1>4, <1>5, <1>6, <1>7 DEF N

LEMMA PriceIsInt ==
  ASSUME IntegralPrices, NEW c \in [option_type : {"C", "P"}, strike : Positive], NEW state \in Priced
  PROVE  Price(c, state.s, state.sigma, state.t) \in Int
<1>1. state.s \in Positive /\ state.sigma \in Positive /\ state.t \in Positive
  BY DEF Priced
<1>2. ~Degenerate(state.sigma, state.t)
  BY <1>1 DEF Positive, Degenerate
<1> QED BY <1>1, <1>2 DEF Price, PriceAndGreeks, IntegralPrices

\* Sessions lean on one another: whatever is drawn and however the closed form
\* prices, what an instrument's rows of run_full_attribution earn over all its
\* sessions is the price it ends at less the price it was listed at.
THEOREM SessionsTelescope == PositiveMoves /\ IntegralPrices => (Spec => []PnlTelescopes)
<1> SUFFICES ASSUME PositiveMoves, IntegralPrices PROVE Spec => []PnlTelescopes
  OBVIOUS
<1>1. MarketInv /\ PathInv => PnlTelescopes
  <2> DEFINE priced(m, state) == Price(m.contract, state.s, state.sigma, state.t)
  <2> SUFFICES ASSUME MarketInv, PathInv, rows # << >>, NEW x \in 0 .. NInstruments - 1
               PROVE  SumFunction(
                        [k \in {k \in DOMAIN rows : rows[k].instrument = x} |-> rows[k].actual_pnl])
                      = priced(market[(x + 1) * NSessions], market[(x + 1) * NSessions].close)
                        - priced(market[x * NSessions + 1], universe[x + 1].listing.open)
    BY DEF PnlTelescopes
  <2> DEFINE N == NSessions
             lo == x * N
             mine == {k \in DOMAIN rows : rows[k].instrument = x}
             c == market[lo + 1].contract
             listed == universe[x + 1].listing.open
             of(state) == Price(c, state.s, state.sigma, state.t)
             v == [k \in lo .. (lo + N) |-> IF k = lo THEN of(listed) ELSE of(market[k].close)]
             f == [k \in mine |-> rows[k].actual_pnl]
  <2>1. /\ DOMAIN market = 1 .. NInstruments * N
        /\ rows = [k \in DOMAIN market |-> SessionRow(market[k], Reprice(FullRequest(market[k])))]
        /\ \A k \in 1 .. NInstruments * N : market[k] \in Session /\ InPlace(universe, market, k)
    <3>1. DOMAIN market = 1 .. Len(market) /\ \A k \in 1 .. Len(market) : market[k] \in Session
      BY DEF MarketInv
    <3>2. Len(market) = NInstruments * N
      BY DEF PathInv, MarketBuilt
    <3> QED BY <3>1, <3>2 DEF PathInv
  <2>2. N \in Nat \ {0}
    BY SessionsAssumption
  <2>3. /\ \A k \in 1 .. NInstruments * N : (k - 1) \div N = x <=> k \in (lo + 1) .. (lo + N)
        /\ \A j \in 1 .. N : /\ lo + j \in 1 .. NInstruments * N
                             /\ ((lo + j) - 1) \div N = x
                             /\ ((lo + j) - 1) % N = j - 1
        /\ lo \in Nat
        /\ (x + 1) * N = lo + N
    BY BookOfInstrument
  <2> HIDE DEF N, lo
  <2>4. ASSUME NEW k \in (lo + 1) .. (lo + N)
        PROVE  /\ k \in 1 .. NInstruments * N /\ (k - 1) \div N = x /\ (k - 1) % N = k - (lo + 1)
    <3>1. k - lo \in 1 .. N /\ lo + (k - lo) = k /\ (k - lo) - 1 = k - (lo + 1)
      BY <2>2, <2>3
    <3> QED BY <2>3, <3>1
  <2>5. mine = (lo + 1) .. (lo + N)
    <3>1. \A k \in 1 .. NInstruments * N : rows[k].instrument = (k - 1) \div N
      BY <2>1 DEF SessionRow, InPlace, N
    <3>2. DOMAIN rows = 1 .. NInstruments * N
      BY <2>1
    <3> QED BY <2>3, <2>4, <3>1, <3>2
  <2>6. lo + 1 \in (lo + 1) .. (lo + N) /\ lo + N \in (lo + 1) .. (lo + N)
    BY <2>2, <2>3
  <2>7. ASSUME NEW k \in (lo + 1) .. (lo + N)
        PROVE  /\ market[k].contract = c
               /\ market[k].open = IF k = lo + 1 THEN listed ELSE market[k - 1].close
               /\ market[k] \in Session
    <3>1. /\ InPlace(universe, market, k) /\ InPlace(universe, market, lo + 1)
          /\ market[k] \in Session
      BY <2>1, <2>4, <2>6
    <3>2. /\ (k - 1) \div N = x /\ ((lo + 1) - 1) \div N = x /\ (k - 1) % N = k - (lo + 1)
      BY <2>4, <2>6
    <3>3. market[k].contract = c
      BY <3>1, <3>2 DEF InPlace, N
    <3>4. (k - 1) % N = 0 <=> k = lo + 1
      BY <2>3, <3>2
    <3>5. market[k].open = IF k = lo + 1 THEN listed ELSE market[k - 1].close
      BY <3>1, <3>2, <3>4 DEF InPlace, N
    <3> QED BY <3>1, <3>3, <3>5
  <2> HIDE DEF c, listed
  <2>8. c \in [option_type : {"C", "P"}, strike : Positive] /\ listed \in Priced
    <3>1. market[lo + 1] \in Session /\ market[lo + 1].contract = c /\ market[lo + 1].open = listed
      BY <2>6, <2>7
    <3> QED BY <3>1 DEF Session
  <2>9. \A k \in (lo + 1) .. (lo + N) : of(market[k].close) \in Int
    <3> SUFFICES ASSUME NEW k \in (lo + 1) .. (lo + N) PROVE of(market[k].close) \in Int
      OBVIOUS
    <3>1. market[k].close \in Priced
      BY <2>7 DEF Session
    <3> QED BY <2>8, <3>1, PriceIsInt
  <2>10. of(listed) \in Int
    BY <2>8, PriceIsInt
  <2>11. \A k \in lo .. (lo + N) : k = lo \/ k \in (lo + 1) .. (lo + N)
    BY <2>2, <2>3
  <2>12. \A k \in lo .. (lo + N) : v[k] \in Int
    <3> HIDE DEF of
    <3> QED BY <2>9, <2>10, <2>11
  <2>13. ASSUME NEW k \in (lo + 1) .. (lo + N)
         PROVE  f[k] = v[k] - v[k - 1]
    <3>1. f[k] = rows[k].actual_pnl
      BY <2>5
    <3>2. rows[k].actual_pnl = of(market[k].close) - of(market[k].open)
      <4>1. rows[k].actual_pnl = Reprice(FullRequest(market[k])).actual_pnl
        BY <2>1, <2>4 DEF SessionRow
      <4>2. /\ FullRequest(market[k]).contract = c /\ FullRequest(market[k]).from = market[k].open
            /\ FullRequest(market[k]).to = market[k].close
        BY <2>7 DEF FullRequest, Request
      <4> HIDE DEF FullRequest
      <4>3. \A q : Reprice(q).actual_pnl = Price(q.contract, q.to.s, q.to.sigma, q.to.t)
                                            - Price(q.contract, q.from.s, q.from.sigma, q.from.t)
        BY DEF Reprice, Price
      <4> QED BY <4>1, <4>2, <4>3
    <3>3. k \in lo .. (lo + N) /\ k - 1 \in lo .. (lo + N) /\ k # lo /\ (k - 1 = lo <=> k = lo + 1)
      BY <2>2, <2>3
    <3>4. v[k] = of(market[k].close)
      BY <3>3
    <3>5. v[k - 1] = of(market[k].open)
      <4>1. v[k - 1] = IF k = lo + 1 THEN of(listed) ELSE of(market[k - 1].close)
        BY <3>3
      <4> HIDE DEF v, of
      <4> QED BY <2>7, <4>1
    <3> QED BY <3>1, <3>2, <3>4, <3>5
  <2>14. SumFunctionOnSet(f, (lo + 1) .. (lo + N)) = v[lo + N] - v[lo]
    <3>1. lo \in Int /\ N \in Nat
      BY <2>2, <2>3
    <3> HIDE DEF f, v
    <3> QED BY <2>12, <2>13, <3>1, SumTelescopes
  <2>15. v[lo] = of(listed) /\ v[lo + N] = of(market[lo + N].close)
    BY <2>2, <2>3
  <2>16. market[lo + N].contract = c
    BY <2>6, <2>7
  <2>17. SumFunctionOnSet(f, mine) = of(market[lo + N].close) - of(listed)
    <3> HIDE DEF f, v, mine, of
    <3> QED BY <2>5, <2>14, <2>15
  <2>18. SumFunction(f) = SumFunctionOnSet(f, mine)
    <3>1. DOMAIN f = mine
      OBVIOUS
    <3> HIDE DEF f, mine
    <3> QED BY <3>1 DEF SumFunction
  <2> QED BY <2>3, <2>16, <2>17, <2>18 DEF N, lo, c, listed
<1> QED BY <1>1, PathInvariant, PTL

-----------------------------------------------------------------------------
(* What run_full_attribution says of its rows.                             *)

\* The Greeks, too, are kept as integers.
IntegralGreeks ==
  \A contract \in [option_type : {"C", "P"}, strike : Positive], s, sigma, t \in Positive :
    LET g == ClosedForm(contract, s, sigma, t)
    IN  {g.price, g.delta, g.gamma, g.vega, g.theta, g.vanna, g.volga} \subseteq Int

\* What a row has to say, and where it stands in the book.
RowsInBook ==
  /\ DOMAIN rows = DOMAIN market /\ IsFiniteSet(DOMAIN rows)
  /\ SessionIds(rows) = 0 .. NSessions - 1
  /\ \A k \in DOMAIN rows : /\ rows[k].session_id \in 0 .. NSessions - 1
                            /\ rows[k].session_id = market[k].session_id
                            /\ rows[k].is_gap = market[k].is_gap
  /\ \A k \in DOMAIN rows : /\ rows[k].actual_pnl \in Int /\ rows[k].residual \in Int
                            /\ rows[k].residual_full \in Int

LEMMA AnswerIsIntegral ==
  ASSUME IntegralGreeks, NEW m \in Session
  PROVE  LET r == Reprice(FullRequest(m))
         IN  r.actual_pnl \in Int /\ r.residual \in Int /\ r.residual_full \in Int
<1> DEFINE g == ClosedForm(m.contract, m.open.s, m.open.sigma, m.open.t)
           p == ClosedForm(m.contract, m.close.s, m.close.sigma, m.close.t).price
           ds == m.close.s - m.open.s
           dvol == m.close.sigma - m.open.sigma
           dt == m.close.t - m.open.t
           r == Reprice(FullRequest(m))
<1>1. /\ m.contract \in [option_type : {"C", "P"}, strike : Positive]
      /\ {m.open.s, m.open.sigma, m.open.t, m.close.s, m.close.sigma, m.close.t} \subseteq Positive
  BY DEF Session, Priced
<1>2. /\ g.price \in Int /\ g.delta \in Int /\ g.gamma \in Int /\ g.vega \in Int
      /\ g.theta \in Int /\ g.vanna \in Int /\ g.volga \in Int /\ p \in Int
  BY <1>1 DEF IntegralGreeks
<1>3. ds \in Int /\ dvol \in Int /\ dt \in Int
  BY <1>1 DEF Positive
<1>4. /\ PriceAndGreeks(m.contract, m.open.s, m.open.sigma, m.open.t) = g
      /\ Price(m.contract, m.close.s, m.close.sigma, m.close.t) = p
  BY <1>1 DEF PriceAndGreeks, Price, Degenerate, Positive
<1>5. /\ FullRequest(m).contract = m.contract /\ FullRequest(m).from = m.open
      /\ FullRequest(m).to = m.close
  BY DEF FullRequest, Request
<1> HIDE DEF g, p, ds, dvol, dt
<1> DEFINE taylor == g.delta * ds + SecondOrder(g.gamma, ds) + g.vega * dvol + g.theta * dt
           vanna == g.vanna * ds * dvol
           volga == SecondOrder(g.volga, dvol)
<1>6. /\ r.actual_pnl = p - g.price /\ r.residual = p - g.price - taylor
      /\ r.residual_full = p - g.price - (taylor + vanna + volga)
  BY <1>4, <1>5 DEF Reprice, ds, dvol, dt
<1>7. \A i, j \in Int : i * j \in Int
  OBVIOUS
<1>8. \A i, j \in Int : SecondOrder(i, j) \in Int
  <2> SUFFICES ASSUME NEW i \in Int, NEW j \in Int PROVE SecondOrder(i, j) \in Int
    OBVIOUS
  <2>1. i * j * j \in Int
    BY <1>7
  <2> QED BY <2>1 DEF SecondOrder
<1>9. taylor \in Int /\ vanna \in Int /\ volga \in Int
  <2>1. g.delta * ds \in Int /\ g.vega * dvol \in Int /\ g.theta * dt \in Int
    BY <1>2, <1>3, <1>7
  <2>2. SecondOrder(g.gamma, ds) \in Int /\ SecondOrder(g.volga, dvol) \in Int
    BY <1>2, <1>3, <1>8
  <2>3. g.vanna * ds * dvol \in Int
    BY <1>2, <1>3, <1>7
  <2> QED BY <2>1, <2>2, <2>3
<1> HIDE DEF taylor, vanna, volga, r
<1>10. r.actual_pnl \in Int /\ r.residual \in Int /\ r.residual_full \in Int
  BY <1>2, <1>6, <1>9
<1> QED BY <1>10 DEF r

LEMMA BookOfRows ==
  ASSUME IntegralGreeks, MarketInv, PathInv, rows # << >>
  PROVE  RowsInBook
<1> DEFINE n == NInstruments * NSessions
<1>1. /\ NInstruments \in Nat /\ NSessions \in Nat \ {0} /\ DOMAIN market = 1 .. n
      /\ rows = [k \in DOMAIN market |-> SessionRow(market[k], Reprice(FullRequest(market[k])))]
      /\ \A k \in 1 .. n : market[k] \in Session /\ InPlace(universe, market, k)
  <2>1. DOMAIN market = 1 .. Len(market) /\ \A k \in 1 .. Len(market) : market[k] \in Session
    BY DEF MarketInv
  <2>2. Len(market) = n
    BY DEF PathInv, MarketBuilt
  <2> QED BY <2>1, <2>2, SessionsAssumption DEF PathInv
<1>2. n \in Nat
  <2>1. \A i, j \in Nat : i * j \in Nat
    OBVIOUS
  <2> QED BY <1>1, <2>1
<1>3. \A k \in DOMAIN rows : /\ rows[k].session_id = (k - 1) % NSessions
                             /\ rows[k].session_id \in 0 .. NSessions - 1
  <2> SUFFICES ASSUME NEW k \in 1 .. n
               PROVE  /\ rows[k].session_id = (k - 1) % NSessions
                      /\ rows[k].session_id \in 0 .. NSessions - 1
    BY <1>1
  <2>1. rows[k].session_id = market[k].session_id /\ market[k].session_id = (k - 1) % NSessions
    BY <1>1 DEF SessionRow, InPlace
  <2> HIDE DEF n
  <2>2. k - 1 \in Int
    BY <1>2
  <2> QED BY <1>1, <2>1, <2>2
<1>4. SessionIds(rows) = 0 .. NSessions - 1
  <2>1. ASSUME NEW t \in 0 .. NSessions - 1 PROVE \E k \in DOMAIN rows : rows[k].session_id = t
    <3>1. NInstruments # 0
      <4>1. CASE NInstruments = 0
        <5>1. n = 0 /\ DOMAIN rows = {}
          BY <1>1, <4>1
        <5> QED BY <1>1, <5>1
      <4> QED BY <4>1
    <3>2. 0 \in 0 .. (NInstruments - 1) /\ t + 1 \in 1 .. NSessions /\ (t + 1) - 1 = t
      BY <1>1, <3>1
    <3>3. 0 * NSessions + (t + 1) \in 1 .. n /\ ((0 * NSessions + (t + 1)) - 1) % NSessions = t
      BY <3>2, BookOfInstrument
    <3> QED BY <1>1, <1>3, <3>3
  <2> QED BY <1>3, <2>1 DEF SessionIds
<1>5. \A k \in DOMAIN rows :
        /\ rows[k].session_id = market[k].session_id /\ rows[k].is_gap = market[k].is_gap
        /\ rows[k].actual_pnl \in Int /\ rows[k].residual \in Int /\ rows[k].residual_full \in Int
  BY <1>1, AnswerIsIntegral DEF SessionRow
<1>6. DOMAIN rows = DOMAIN market /\ IsFiniteSet(DOMAIN rows)
  <2>1. IsFiniteSet(1 .. n)
    BY <1>2, FS_Interval
  <2> QED BY <1>1, <2>1
<1> QED BY <1>3, <1>4, <1>5, <1>6 DEF RowsInBook

SizesOf(amount) == [k \in DOMAIN rows |-> Size(rows[k][amount])]
RowsOf(sid) == {k \in DOMAIN rows : rows[k].session_id = sid}

LEMMA SizeOfInt ==
  \A a \in Int : /\ Size(a) \in Int /\ Size(a) >= 0 /\ (Size(a) = 0 <=> a = 0)
                 /\ Size(a) = Max({a, -a})
<1> SUFFICES ASSUME NEW a \in Int
             PROVE  /\ Size(a) \in Int /\ Size(a) >= 0 /\ (Size(a) = 0 <=> a = 0)
                    /\ Size(a) = Max({a, -a})
  OBVIOUS
<1>1. Size(a) \in Int /\ Size(a) >= 0 /\ (Size(a) = 0 <=> a = 0)
  BY DEF Size
<1>2. -a \in Int
  OBVIOUS
<1>3. Max({a, -a}) \in {a, -a} /\ Max({a, -a}) >= a /\ Max({a, -a}) >= -a
  BY <1>2, MaxOfTwo
<1>4. Size(a) = Max({a, -a})
  BY <1>2, <1>3 DEF Size
<1> QED BY <1>1, <1>4

\* The figure of a session is the sum over its rows, the overall one over all rows.
LEMMA SumsOfRows ==
  ASSUME RowsInBook, NEW amount, \A k \in DOMAIN rows : rows[k][amount] \in Int
  PROVE  LET sums == PerSession(rows, amount)
             sizes == SizesOf(amount)
         IN  /\ DOMAIN sums = 0 .. NSessions - 1 /\ IsFiniteSet(DOMAIN sums)
             /\ \A k \in DOMAIN rows : sizes[k] \in Int /\ sizes[k] >= 0
             /\ \A sid \in 0 .. NSessions - 1 :
                  /\ IsFiniteSet(RowsOf(sid)) /\ RowsOf(sid) \subseteq DOMAIN rows
                  /\ sums[sid] = SumFunctionOnSet(sizes, RowsOf(sid))
             /\ Overall(sums) = SumFunctionOnSet(sums, 0 .. NSessions - 1)
             /\ Overall(sums) = SumFunctionOnSet(sizes, DOMAIN rows)
<1> DEFINE sums == PerSession(rows, amount)
           sizes == SizesOf(amount)
           S == DOMAIN rows
           key == [k \in S |-> rows[k].session_id]
<1>1. \A k \in S : sizes[k] \in Int /\ sizes[k] >= 0 /\ sizes[k] = Size(rows[k][amount])
  BY SizeOfInt DEF SizesOf
<1>2. /\ DOMAIN sums = SessionIds(rows) /\ DOMAIN sums = {key[k] : k \in S}
      /\ SessionIds(rows) = 0 .. NSessions - 1
  BY DEF PerSession, SessionIds, RowsInBook
<1>3. \A sid : {k \in S : key[k] = sid} = RowsOf(sid)
  BY DEF RowsOf
<1>4. ASSUME NEW sid \in DOMAIN sums
      PROVE  sums[sid] = SumFunction([k \in {q \in S : key[q] = sid} |-> sizes[k]])
  <2>1. sums[sid] = SumFunction([k \in {q \in DOMAIN rows : rows[q].session_id = sid} |->
                                   Size(rows[k][amount])])
    BY <1>2 DEF PerSession
  <2>2. [k \in {q \in DOMAIN rows : rows[q].session_id = sid} |-> Size(rows[k][amount])]
        = [k \in {q \in S : key[q] = sid} |-> sizes[k]]
    BY <1>1, <1>3 DEF RowsOf
  <2> QED BY <2>1, <2>2
<1>5. IsFiniteSet(S)
  BY DEF RowsInBook
<1> HIDE DEF sums, sizes, key, S
<1>6. /\ IsFiniteSet(DOMAIN sums) /\ SumFunction(sums) = SumFunctionOnSet(sizes, S)
      /\ \A sid \in DOMAIN sums : sums[sid] = SumFunctionOnSet(sizes, {k \in S : key[k] = sid})
  <2>1. SumsOfGroups(sums, sizes, S, key)
    BY <1>2, <1>4 DEF SumsOfGroups
  <2>2. ByGroup(sums, sizes, S, key, DOMAIN sums)
        /\ IsFiniteSet(DOMAIN sums) /\ SumFunction(sums) = SumFunctionOnSet(sizes, S)
    BY ONLY <1>1, <1>5, <2>1, GroupsAddUp
  <2> QED BY <2>2 DEF ByGroup
<1>7. \A sid : IsFiniteSet(RowsOf(sid)) /\ RowsOf(sid) \subseteq S
  BY <1>5, FS_Subset DEF RowsOf, S
<1>8. SumFunction(sums) = SumFunctionOnSet(sums, 0 .. NSessions - 1)
  BY <1>2 DEF SumFunction
<1> QED BY <1>1, <1>2, <1>3, <1>6, <1>7, <1>8 DEF Overall, S, sums, sizes

\* A session that is not listed as over 1 % is at most 1 %, or reported as zero
\* for want of any P&L.
LEMMA AtMostOnePercent ==
  ASSUME NEW residual \in Int, NEW gross \in Int, gross >= 0, ~OverOnePercent(Ratio(residual, gross)),
         gross = 0 => residual = 0
  PROVE  100 * residual <= gross
  BY DEF OverOnePercent, Ratio

LEMMA NothingListed ==
  ASSUME NEW f, NEW S, IsFiniteSet(S), DOMAIN f = 1 .. Cardinality(S), f = << >>
  PROVE  S = {}
<1>1. Cardinality(S) \in Nat
  BY FS_CardinalityType
<1>2. 1 .. Cardinality(S) = {}
  OBVIOUS
<1>3. Cardinality(S) = 0
  BY <1>1, <1>2
<1> QED BY <1>3, FS_EmptySet

LEMMA HidesNothing ==
  ASSUME IntegralGreeks, MarketInv, PathInv, rows # << >>,
         summary.sessions_over_1pct_full = << >>,
         \A sid \in 0 .. NSessions - 1 :
           ~((\A k \in RowsOf(sid) : rows[k].actual_pnl = 0)
             /\ \E k \in RowsOf(sid) : rows[k].residual_full # 0)
  PROVE  100 * Overall(PerSession(rows, "residual_full")) <= Overall(PerSession(rows, "actual_pnl"))
<1> DEFINE Ids == 0 .. NSessions - 1
           gross == PerSession(rows, "actual_pnl")
           left == PerSession(rows, "residual_full")
           ratio == Ratios(left, gross)
           over == {sid \in DOMAIN ratio : OverOnePercent(ratio[sid])}
           sizes == SizesOf("actual_pnl")
           leftSizes == SizesOf("residual_full")
<1>1. RowsInBook
  BY BookOfRows
<1>2. /\ DOMAIN gross = Ids /\ IsFiniteSet(Ids)
      /\ \A k \in DOMAIN rows : sizes[k] \in Int /\ sizes[k] >= 0
      /\ \A sid \in Ids : /\ IsFiniteSet(RowsOf(sid)) /\ RowsOf(sid) \subseteq DOMAIN rows
                          /\ gross[sid] = SumFunctionOnSet(sizes, RowsOf(sid))
      /\ Overall(gross) = SumFunctionOnSet(gross, Ids)
  <2>1. \A k \in DOMAIN rows : rows[k]["actual_pnl"] \in Int
    BY <1>1 DEF RowsInBook
  <2> QED BY <1>1, <2>1, SumsOfRows
<1>3. /\ \A k \in DOMAIN rows : leftSizes[k] \in Int /\ leftSizes[k] >= 0
      /\ \A sid \in Ids : left[sid] = SumFunctionOnSet(leftSizes, RowsOf(sid))
      /\ Overall(left) = SumFunctionOnSet(left, Ids)
  <2>1. \A k \in DOMAIN rows : rows[k]["residual_full"] \in Int
    BY <1>1 DEF RowsInBook
  <2> QED BY <1>1, <2>1, SumsOfRows
<1>4. DOMAIN ratio = Ids /\ \A sid \in Ids : ratio[sid] = Ratio(left[sid], gross[sid])
  BY <1>2 DEF Ratios
<1>5. over = {}
  <2>1. summary = Summary(rows)
    BY DEF PathInv
  <2>2. DOMAIN summary.sessions_over_1pct_full = 1 .. Cardinality(over)
    BY <2>1 DEF Summary
  <2>3. IsFiniteSet(over)
    BY <1>2, <1>4, FS_Subset
  <2> HIDE DEF over
  <2> QED BY <2>2, <2>3, NothingListed
<1>6. \A k \in DOMAIN rows : /\ sizes[k] = 0 => rows[k].actual_pnl = 0
                             /\ rows[k].residual_full = 0 => leftSizes[k] = 0
  BY <1>1, SizeOfInt DEF SizesOf, RowsInBook
<1>7. \A sid \in Ids : ~OverOnePercent(Ratio(left[sid], gross[sid]))
  BY <1>4, <1>5
<1> HIDE DEF Ids, gross, left, ratio, over, sizes, leftSizes
<1>8. ASSUME NEW sid \in Ids
      PROVE  /\ gross[sid] \in Int /\ gross[sid] >= 0 /\ left[sid] \in Int /\ left[sid] >= 0
             /\ 100 * left[sid] <= gross[sid]
  <2> DEFINE mine == RowsOf(sid)
  <2>1. /\ IsFiniteSet(mine)
        /\ \A k \in mine : /\ k \in DOMAIN rows
                           /\ sizes[k] \in Int /\ sizes[k] >= 0
                           /\ leftSizes[k] \in Int /\ leftSizes[k] >= 0
        /\ gross[sid] = SumFunctionOnSet(sizes, mine)
        /\ left[sid] = SumFunctionOnSet(leftSizes, mine)
    BY <1>2, <1>3
  <2>2. ~((\A k \in mine : rows[k].actual_pnl = 0) /\ \E k \in mine : rows[k].residual_full # 0)
    BY DEF Ids
  <2> HIDE DEF mine
  <2>3. /\ gross[sid] \in Int /\ left[sid] \in Int
        /\ gross[sid] >= 0 /\ left[sid] >= 0 /\ \A k \in mine : gross[sid] >= sizes[k]
    BY <2>1, SumType, SumCovers
  <2>4. ASSUME gross[sid] = 0 PROVE left[sid] = 0
    <3>1. \A k \in mine : sizes[k] = 0
      BY <2>1, <2>3, <2>4
    <3>2. \A k \in mine : rows[k].actual_pnl = 0
      BY <1>6, <2>1, <3>1
    <3>3. \A k \in mine : leftSizes[k] = 0
      BY <1>6, <2>1, <2>2, <3>2
    <3> QED BY <2>1, <3>3, SumOfZeros
  <2>5. 100 * left[sid] <= gross[sid]
    BY <1>7, <2>3, <2>4, AtMostOnePercent
  <2> QED BY <2>3, <2>5
<1> DEFINE scaled == [sid \in Ids |-> 100 * left[sid]]
<1>9. \A sid \in Ids : /\ scaled[sid] \in Int /\ gross[sid] \in Int /\ left[sid] \in Int
                       /\ scaled[sid] = 100 * left[sid]
                       /\ gross[sid] >= scaled[sid] /\ gross[sid] >= -scaled[sid]
  BY <1>8
<1> HIDE DEF scaled
<1>10. SumFunctionOnSet(gross, Ids) >= SumFunctionOnSet(scaled, Ids)
  BY <1>2, <1>9, SumBounded
<1>11. SumFunctionOnSet(scaled, Ids) = 100 * SumFunctionOnSet(left, Ids)
  BY <1>2, <1>9, SumScaled
<1>12. SumFunctionOnSet(gross, Ids) \in Int /\ SumFunctionOnSet(left, Ids) \in Int
  BY <1>2, <1>9, SumType
<1>13. 100 * Overall(left) <= Overall(gross)
  BY <1>2, <1>3, <1>10, <1>11, <1>12
<1> QED BY <1>13 DEF left, gross

\* The sum of the sizes as the property spells it.
LEMMA SizesOfAll ==
  ASSUME RowsInBook, NEW amount, \A k \in DOMAIN rows : rows[k][amount] \in Int
  PROVE  SumFunction([k \in DOMAIN rows |-> Max({rows[k][amount], -rows[k][amount]})])
         = Overall(PerSession(rows, amount))
<1> DEFINE S == DOMAIN rows
           sizes == SizesOf(amount)
           spelt == [k \in S |-> Max({rows[k][amount], -rows[k][amount]})]
<1>1. \A k \in S : spelt[k] \in Int /\ spelt[k] = sizes[k]
  BY SizeOfInt DEF SizesOf
<1>2. IsFiniteSet(S) /\ DOMAIN spelt = S
  BY DEF RowsInBook
<1>3. Overall(PerSession(rows, amount)) = SumFunctionOnSet(sizes, S)
  BY SumsOfRows
<1> HIDE DEF S, sizes, spelt
<1>4. SumFunctionOnSet(spelt, S) = SumFunctionOnSet(sizes, S)
  BY <1>1, <1>2, SumSame
<1>5. SumFunction(spelt) = Overall(PerSession(rows, amount))
  BY <1>2, <1>3, <1>4 DEF SumFunction
<1> QED BY <1>5 DEF spelt, S

\* When no session is listed as over 1 %, the book as a whole is not: nothing is
\* hidden by cancellation, except in a session that has no gross P&L.
THEOREM SummaryIsHonest ==
  PositiveMoves /\ IntegralGreeks => (Spec => []SummaryHidesNothing)
<1> SUFFICES ASSUME PositiveMoves, IntegralGreeks PROVE Spec => []SummaryHidesNothing
  OBVIOUS
<1>1. MarketInv /\ PathInv => SummaryHidesNothing
  <2> SUFFICES ASSUME MarketInv, PathInv PROVE SummaryHidesNothing
    OBVIOUS
  <2> DEFINE unexplained == SumFunction([k \in DOMAIN rows |->
                              Max({rows[k].residual_full, -rows[k].residual_full})])
             gross == SumFunction([k \in DOMAIN rows |->
                              Max({rows[k].actual_pnl, -rows[k].actual_pnl})])
             hidden(sid) == LET mine == {k \in DOMAIN rows : rows[k].session_id = sid}
                            IN  (\A k \in mine : rows[k].actual_pnl = 0)
                                /\ (\E k \in mine : rows[k].residual_full # 0)
  <2>1. ASSUME rows # << >>, summary.sessions_over_1pct_full = << >>,
               ~ \E sid \in 0 .. NSessions - 1 : hidden(sid)
        PROVE  100 * unexplained <= gross
    <3>1. RowsInBook
      BY <2>1, BookOfRows
    <3>2. \A k \in DOMAIN rows : rows[k]["actual_pnl"] \in Int /\ rows[k]["residual_full"] \in Int
      BY <3>1 DEF RowsInBook
    <3>3. unexplained = Overall(PerSession(rows, "residual_full"))
          /\ gross = Overall(PerSession(rows, "actual_pnl"))
      BY <3>1, <3>2, SizesOfAll
    <3>4. \A sid \in 0 .. NSessions - 1 :
            ~((\A k \in RowsOf(sid) : rows[k].actual_pnl = 0)
              /\ \E k \in RowsOf(sid) : rows[k].residual_full # 0)
      BY <2>1 DEF RowsOf
    <3> HIDE DEF unexplained, gross
    <3> QED BY <2>1, <3>3, <3>4, HidesNothing
  <2> HIDE DEF unexplained, gross, hidden
  <2>2. (stage = "done" /\ rows # << >>) =>
          \/ summary.sessions_over_1pct_full # << >>
          \/ \E sid \in 0 .. NSessions - 1 : hidden(sid)
          \/ 100 * unexplained <= gross
    BY <2>1
  <2> USE DEF unexplained, gross, hidden
  <2> QED BY <2>2 DEF SummaryHidesNothing
<1> QED BY <1>1, PathInvariant, PTL

-----------------------------------------------------------------------------
(* The sessions that gap and those that do not.                            *)

IsRatio(r) == r.num \in Int /\ r.den \in Int /\ r.den > 0

LEMMA AtMostIsTransitive ==
  ASSUME NEW a, NEW b, NEW c, IsRatio(a), IsRatio(b), IsRatio(c), AtMost(a, b), AtMost(b, c)
  PROVE  AtMost(a, c)
<1> DEFINE i == a.num
           j == a.den
           k == b.num
           l == b.den
           m == c.num
           n == c.den
<1>1. /\ i \in Int /\ j \in Int /\ k \in Int /\ l \in Int /\ m \in Int /\ n \in Int
      /\ j > 0 /\ l > 0 /\ n > 0 /\ i * l <= k * j /\ k * n <= m * l
  BY DEF IsRatio, AtMost
<1> HIDE DEF i, j, k, l, m, n
<1>2. \A x, y, z \in Int : x <= y /\ z > 0 => x * z <= y * z
  BY SMTT(30)
<1>3. \A x, y \in Int : x * y \in Int
  OBVIOUS
<1>4. (i * l) * n <= (k * j) * n /\ (k * n) * j <= (m * l) * j
  BY <1>1, <1>2, <1>3
<1>5. /\ (i * l) * n = (i * n) * l /\ (k * j) * n = (k * n) * j /\ (m * l) * j = (m * j) * l
      /\ (i * n) * l \in Int /\ (k * n) * j \in Int /\ (m * j) * l \in Int
      /\ i * n \in Int /\ m * j \in Int
  <2>1. \A x, y, z \in Int : (x * y) * z = (x * z) * y /\ (x * y) * z \in Int
    BY SMTT(30)
  <2> QED BY <1>1, <1>3, <2>1
<1>6. (i * n) * l <= (m * j) * l
  BY <1>4, <1>5
<1>7. \A x, y, z \in Int : z > 0 /\ x * z <= y * z => x <= y
  <2>1. \A x, y, z \in Int : z > 0 /\ x > y => x * z > y * z
    BY SMTT(30)
  <2> QED BY <2>1, <1>3
<1>8. i * n <= m * j
  BY <1>1, <1>5, <1>6, <1>7
<1> QED BY <1>8 DEF AtMost, i, j, k, l, m, n

LEMMA AtMostIsTotal ==
  ASSUME NEW a, NEW b, IsRatio(a), IsRatio(b)
  PROVE  AtMost(a, b) \/ AtMost(b, a)
<1>1. a.num * b.den \in Int /\ b.num * a.den \in Int
  BY DEF IsRatio
<1> QED BY <1>1 DEF AtMost

IsLargest(ratio, sid, S) == sid \in S /\ \A other \in S : AtMost(ratio[other], ratio[sid])

LEMMA LargestExists ==
  ASSUME NEW S, IsFiniteSet(S), S # {}, NEW ratio, \A sid \in S : IsRatio(ratio[sid])
  PROVE  \E sid \in S : IsLargest(ratio, sid, S)
<1> DEFINE P == {T \in SUBSET S : T = {} \/ \E sid \in T : IsLargest(ratio, sid, T)}
<1>1. ASSUME NEW T \in SUBSET S, T \in P, NEW x \in S \ T PROVE T \cup {x} \in P
  <2> DEFINE U == T \cup {x}
  <2>1. AtMost(ratio[x], ratio[x])
    BY AtMostIsTotal
  <2>2. CASE T = {}
    BY <2>1, <2>2 DEF IsLargest
  <2>3. CASE T # {}
    <3>1. PICK sid \in T : \A other \in T : AtMost(ratio[other], ratio[sid])
      BY <1>1, <2>3 DEF IsLargest
    <3>2. CASE AtMost(ratio[x], ratio[sid])
      <4>1. IsLargest(ratio, sid, U) /\ sid \in U
        BY <3>1, <3>2 DEF IsLargest
      <4> QED BY <4>1
    <3>3. CASE AtMost(ratio[sid], ratio[x])
      <4>1. \A other \in T : AtMost(ratio[other], ratio[x])
        <5> SUFFICES ASSUME NEW other \in T PROVE AtMost(ratio[other], ratio[x])
          OBVIOUS
        <5>1. AtMost(ratio[other], ratio[sid])
          BY <3>1
        <5>2. IsRatio(ratio[other]) /\ IsRatio(ratio[sid]) /\ IsRatio(ratio[x])
          OBVIOUS
        <5> QED BY <3>3, <5>1, <5>2, AtMostIsTransitive
      <4>2. IsLargest(ratio, x, U) /\ x \in U
        BY <2>1, <4>1 DEF IsLargest
      <4> QED BY <4>2
    <3> QED BY <3>2, <3>3, AtMostIsTotal
  <2> QED BY <2>2, <2>3
<1>2. {} \in P
  OBVIOUS
<1>3. S \in P
  <2> HIDE DEF P
  <2> QED BY <1>1, <1>2, FiniteSetsGrow
<1> QED BY <1>3

\* The greatest of the ratios of some sessions, 0 when there are none.
LEMMA LargestIsLargest ==
  ASSUME NEW S, IsFiniteSet(S), NEW ratio, \A sid \in S : IsRatio(ratio[sid])
  PROVE  /\ \A sid \in S : AtMost(ratio[sid], Largest(ratio, S))
         /\ S # {} => \E sid \in S : AtMost(Largest(ratio, S), ratio[sid])
<1>1. CASE S = {}
  BY <1>1
<1>2. CASE S # {}
  <2> DEFINE best == CHOOSE sid \in S : \A other \in S : AtMost(ratio[other], ratio[sid])
  <2>1. \E sid \in S : \A other \in S : AtMost(ratio[other], ratio[sid])
    BY <1>2, LargestExists DEF IsLargest
  <2>2. best \in S /\ \A other \in S : AtMost(ratio[other], ratio[best])
    BY <2>1
  <2>3. Largest(ratio, S) = ratio[best]
    BY <1>2 DEF Largest
  <2> HIDE DEF best
  <2>4. AtMost(ratio[best], ratio[best])
    BY <2>2
  <2> QED BY <2>2, <2>3, <2>4
<1> QED BY <1>1, <1>2

\* The ratios of the baseline residual are fractions with a positive denominator.
LEMMA RatiosOfRows ==
  ASSUME RowsInBook
  PROVE  LET ratio == Ratios(PerSession(rows, "residual"), PerSession(rows, "actual_pnl"))
         IN  \A sid \in 0 .. NSessions - 1 : IsRatio(ratio[sid])
<1> DEFINE Ids == 0 .. NSessions - 1
           gross == PerSession(rows, "actual_pnl")
           left == PerSession(rows, "residual")
           sizes == SizesOf("actual_pnl")
           leftSizes == SizesOf("residual")
<1>1. /\ DOMAIN gross = Ids
      /\ \A k \in DOMAIN rows : sizes[k] \in Int /\ sizes[k] >= 0
      /\ \A sid \in Ids : /\ IsFiniteSet(RowsOf(sid)) /\ RowsOf(sid) \subseteq DOMAIN rows
                          /\ gross[sid] = SumFunctionOnSet(sizes, RowsOf(sid))
  <2>1. \A k \in DOMAIN rows : rows[k]["actual_pnl"] \in Int
    BY DEF RowsInBook
  <2> QED BY <2>1, SumsOfRows
<1>2. /\ \A k \in DOMAIN rows : leftSizes[k] \in Int /\ leftSizes[k] >= 0
      /\ \A sid \in Ids : left[sid] = SumFunctionOnSet(leftSizes, RowsOf(sid))
  <2>1. \A k \in DOMAIN rows : rows[k]["residual"] \in Int
    BY DEF RowsInBook
  <2> QED BY <2>1, SumsOfRows
<1> SUFFICES ASSUME NEW sid \in Ids PROVE IsRatio(Ratios(left, gross)[sid])
  OBVIOUS
<1>3. Ratios(left, gross)[sid] = Ratio(left[sid], gross[sid])
  BY <1>1 DEF Ratios
<1> HIDE DEF gross, left, sizes, leftSizes, Ids
<1>4. gross[sid] \in Int /\ gross[sid] >= 0 /\ left[sid] \in Int
  <2> DEFINE mine == RowsOf(sid)
  <2>1. /\ IsFiniteSet(mine)
        /\ \A k \in mine : /\ sizes[k] \in Int /\ sizes[k] >= 0
                           /\ leftSizes[k] \in Int /\ leftSizes[k] >= 0
        /\ gross[sid] = SumFunctionOnSet(sizes, mine)
        /\ left[sid] = SumFunctionOnSet(leftSizes, mine)
    BY <1>1, <1>2
  <2> HIDE DEF mine
  <2> QED BY <2>1, SumType, SumCovers
<1> QED BY <1>3, <1>4 DEF IsRatio, Ratio

\* The figures of gap sessions are of the days some instrument was shocked on,
\* the others of the days on which none was.
THEOREM ShocksStayInTheirGroup ==
  PositiveMoves /\ IntegralGreeks => (Spec => []ShocksStayInGapSessions)
<1> SUFFICES ASSUME PositiveMoves, IntegralGreeks PROVE Spec => []ShocksStayInGapSessions
  OBVIOUS
<1>1. MarketInv /\ PathInv => ShocksStayInGapSessions
  <2> SUFFICES ASSUME MarketInv, PathInv, rows # << >> PROVE ShocksStayInGapSessions
    BY DEF ShocksStayInGapSessions
  <2> DEFINE Ids == 0 .. NSessions - 1
             shocked == {market[k].session_id : k \in {n \in DOMAIN market : market[n].is_gap}}
             calm == Ids \ shocked
             ratio == Ratios(PerSession(rows, "residual"), PerSession(rows, "actual_pnl"))
  <2>1. RowsInBook
    BY BookOfRows
  <2>2. /\ summary.per_session_ratio = ratio
        /\ summary.gap_session_ratio_max = Largest(ratio, GapIds(rows))
        /\ summary.non_gap_session_ratio_max = Largest(ratio, NonGapIds(rows))
    BY DEF PathInv, Summary
  <2>3. GapIds(rows) = shocked
    BY <2>1, Zenon DEF GapIds, RowsInBook
  <2>4. NonGapIds(rows) = calm
    BY <2>1, <2>3 DEF NonGapIds, RowsInBook
  <2>5. shocked \subseteq Ids
    BY <2>1 DEF RowsInBook
  <2>6. IsFiniteSet(Ids)
    BY SessionsAssumption, FS_Interval
  <2>7. \A sid \in Ids : IsRatio(ratio[sid])
    BY <2>1, RatiosOfRows
  <2> HIDE DEF Ids, ratio, shocked
  <2>8. IsFiniteSet(shocked) /\ IsFiniteSet(calm) /\ calm \subseteq Ids
    BY <2>5, <2>6, FS_Subset
  <2> HIDE DEF calm
  <2>9. /\ \A sid \in shocked : AtMost(ratio[sid], Largest(ratio, shocked))
        /\ shocked # {} => \E sid \in shocked : AtMost(Largest(ratio, shocked), ratio[sid])
    BY <2>5, <2>7, <2>8, LargestIsLargest
  <2>10. /\ \A sid \in calm : AtMost(ratio[sid], Largest(ratio, calm))
         /\ calm # {} => \E sid \in calm : AtMost(Largest(ratio, calm), ratio[sid])
    BY <2>7, <2>8, LargestIsLargest
  <2> DEFINE isLargest(max, sids) ==
               /\ \A sid \in sids : AtMost(summary.per_session_ratio[sid], max)
               /\ sids # {} => \E sid \in sids : AtMost(max, summary.per_session_ratio[sid])
  <2>11. /\ isLargest(summary.gap_session_ratio_max, shocked)
         /\ isLargest(summary.non_gap_session_ratio_max, calm)
    BY <2>2, <2>3, <2>4, <2>9, <2>10
  <2> USE DEF calm, shocked, Ids
  <2> QED BY <2>11 DEF ShocksStayInGapSessions
<1> QED BY <1>1, PathInvariant, PTL

-----------------------------------------------------------------------------
(* What an expansion leaves out of a smooth price.                         *)

\* Prices and Greeks are kept as integers, second derivatives, which the engine
\* halves, as even ones.
WholeForms ==
  \A c : c.strike \in Positive =>
    /\ \A t \in Positive, i, j \in 0 .. 3 : Coefficient(c, t, i, j) \in Int
    /\ \A s, v, t \in Positive :
         LET f == ClosedForm(c, s, v, t)
         IN  /\ {f.price, f.delta, f.vega, f.vanna, f.theta, Theta(c, s, v, t)} \subseteq Int
             /\ \E g, k \in Int : f.gamma = 2 * g /\ f.volga = 2 * k

\* Up to any given volatility the closed form has bounded third derivatives.
SmoothPrices ==
  /\ WholeForms
  /\ \A c : c.strike \in Positive =>
       /\ \A v \in Positive : Roughness(c, v) \in Nat
       /\ SmoothOn(c, Positive, Positive, Positive)

LEMMA AbsBounds ==
  ASSUME NEW e \in Int, NEW b \in Int
  PROVE  /\ Abs(e) \in Nat
         /\ Abs(e) <= b <=> -b <= e /\ e <= b
BY DEF Abs

LEMMA AbsProduct ==
  ASSUME NEW e \in Int, NEW f \in Int, NEW b \in Int, Abs(e) <= b
  PROVE  Abs(e * f) <= b * Abs(f)
<1>1. -b <= e /\ e <= b
  BY AbsBounds
<1>2. e * f \in Int /\ b * Abs(f) \in Int
  BY DEF Abs
<1>3. CASE f >= 0
  <2>1. (-b) * f <= e * f /\ e * f <= b * f
    BY <1>1, <1>3, SMTT(30)
  <2>2. Abs(f) = f /\ (-b) * f = -(b * f)
    BY <1>3 DEF Abs
  <2> QED BY <1>2, <2>1, <2>2, AbsBounds
<1>4. CASE f < 0
  <2> DEFINE n == -f
  <2>1. n \in Int /\ n > 0 /\ e * f = -(e * n) /\ Abs(f) = n
    BY <1>4 DEF Abs
  <2>2. (-b) * n <= e * n /\ e * n <= b * n /\ (-b) * n = -(b * n) /\ e * n \in Int
    <3> HIDE DEF n
    <3> QED BY <1>1, <2>1, SMTT(30)
  <2> HIDE DEF n
  <2>3. -(b * n) <= e * f /\ e * f <= b * n
    BY <1>2, <2>1, <2>2
  <2> QED BY <1>2, <2>1, <2>3, AbsBounds
<1> QED BY <1>3, <1>4

LEMMA AbsSum ==
  ASSUME NEW e \in Int, NEW f \in Int, NEW a \in Int, NEW b \in Int, Abs(e) <= a, Abs(f) <= b
  PROVE  Abs(e + f) <= a + b
BY DEF Abs

\* A second derivative that is twice an integer is halved exactly.
IsTwice(n) == n \div 2 \in Int /\ n = 2 * (n \div 2)

LEMMA TwiceHalved ==
  ASSUME NEW g \in Int, NEW n, n = 2 * g PROVE IsTwice(n) /\ n \div 2 = g
BY DEF IsTwice

LEMMA HalfOfTwice ==
  ASSUME NEW n, NEW g \in Int, n = 2 * g, NEW x \in Int
  PROVE  SecondOrder(n, x) = g * x * x
<1>1. g * x * x \in Int /\ 2 * g * x * x = 2 * (g * x * x)
  BY SMTT(30)
<1>2. \A i \in Int : (2 * i) \div 2 = i
  OBVIOUS
<1> QED BY <1>1, <1>2 DEF SecondOrder

\* Everything a polynomial has beyond the second order.
Third(c, t, x, y) ==
  Coefficient(c, t, 3, 0) * x * x * x + ThirdOrderCross(c, t, x, y)
  + Coefficient(c, t, 0, 3) * y * y * y

\* The whole of a polynomial's move in spot and volatility.
LEMMA CubicExpansion ==
  ASSUME WholeForms, NEW c, c.strike \in Positive,
         NEW s \in Positive, NEW u \in Positive, NEW v \in Positive, NEW w \in Positive,
         NEW t \in Positive
  PROVE  LET now == CubicForm(c, s, v, t)
             later == CubicForm(c, u, w, t)
             x == u - s
             y == w - v
         IN  /\ {now.price, now.delta, now.vega, now.vanna, later.price} \subseteq Int
             /\ ThirdOrderCross(c, t, x, y) \in Int /\ Third(c, t, x, y) \in Int
             /\ IsTwice(now.gamma) /\ IsTwice(now.volga)
             /\ later.price = now.price + now.delta * x + now.vega * y
                              + (now.gamma \div 2) * x * x + now.vanna * x * y
                              + (now.volga \div 2) * y * y + Third(c, t, x, y)
<1> DEFINE now == CubicForm(c, s, v, t)
           later == CubicForm(c, u, w, t)
           x == u - s
           y == w - v
           a00 == Coefficient(c, t, 0, 0)
           a10 == Coefficient(c, t, 1, 0)
           a01 == Coefficient(c, t, 0, 1)
           a20 == Coefficient(c, t, 2, 0)
           a11 == Coefficient(c, t, 1, 1)
           a02 == Coefficient(c, t, 0, 2)
           a30 == Coefficient(c, t, 3, 0)
           a21 == Coefficient(c, t, 2, 1)
           a12 == Coefficient(c, t, 1, 2)
           a03 == Coefficient(c, t, 0, 3)
           g == a20 + 3 * a30 * s + a21 * v
           k == a02 + a12 * s + 3 * a03 * v
           third == a30 * x * x * x + (a21 * x * x * y + a12 * x * y * y) + a03 * y * y * y
<1>1. /\ a00 \in Int /\ a10 \in Int /\ a01 \in Int /\ a20 \in Int /\ a11 \in Int
      /\ a02 \in Int /\ a30 \in Int /\ a21 \in Int /\ a12 \in Int /\ a03 \in Int
  BY DEF WholeForms
<1>2. s \in Int /\ u \in Int /\ v \in Int /\ w \in Int
  BY DEF Positive
<1>3. Third(c, t, x, y) = third
      /\ ThirdOrderCross(c, t, x, y) = a21 * x * x * y + a12 * x * y * y
  BY DEF Third, ThirdOrderCross
<1>4. /\ now.price = a00 + a10 * s + a01 * v + a20 * s * s + a11 * s * v + a02 * v * v
                     + a30 * s * s * s + a21 * s * s * v + a12 * s * v * v + a03 * v * v * v
      /\ now.delta = a10 + 2 * a20 * s + a11 * v + 3 * a30 * s * s + 2 * a21 * s * v + a12 * v * v
      /\ now.vega = a01 + a11 * s + 2 * a02 * v + a21 * s * s + 2 * a12 * s * v + 3 * a03 * v * v
      /\ now.gamma = 2 * g /\ now.volga = 2 * k
      /\ now.vanna = a11 + 2 * a21 * s + 2 * a12 * v
      /\ later.price = a00 + a10 * u + a01 * w + a20 * u * u + a11 * u * w + a02 * w * w
                       + a30 * u * u * u + a21 * u * u * w + a12 * u * w * w + a03 * w * w * w
  BY DEF CubicForm
<1> HIDE DEF now, later, a00, a10, a01, a20, a11, a02, a30, a21, a12, a03
<1>5. x \in Int /\ y \in Int /\ u = s + x /\ w = v + y
  BY <1>2
<1> HIDE DEF x, y
<1>6. \A i, j \in Int : i * j \in Int
  OBVIOUS
<1>7. g \in Int /\ k \in Int
  <2>1. 3 * a30 * s \in Int /\ a21 * v \in Int /\ a12 * s \in Int /\ 3 * a03 * v \in Int
    BY <1>1, <1>2, <1>6
  <2> QED BY <1>1, <2>1
<1>8. now.delta \in Int /\ now.vega \in Int /\ now.vanna \in Int
  <2>1. /\ 2 * a20 * s \in Int /\ a11 * v \in Int /\ 3 * a30 * s * s \in Int
        /\ 2 * a21 * s * v \in Int /\ a12 * v * v \in Int
    BY <1>1, <1>2, <1>6
  <2>2. /\ a11 * s \in Int /\ 2 * a02 * v \in Int /\ a21 * s * s \in Int
        /\ 2 * a12 * s * v \in Int /\ 3 * a03 * v * v \in Int
    BY <1>1, <1>2, <1>6
  <2>3. 2 * a21 * s \in Int /\ 2 * a12 * v \in Int
    BY <1>1, <1>2, <1>6
  <2> QED BY <1>1, <1>4, <2>1, <2>2, <2>3
<1>9. now.price \in Int
  <2>1. /\ a10 * s \in Int /\ a01 * v \in Int /\ a20 * s * s \in Int /\ a11 * s * v \in Int
        /\ a02 * v * v \in Int /\ a30 * s * s * s \in Int /\ a21 * s * s * v \in Int
        /\ a12 * s * v * v \in Int /\ a03 * v * v * v \in Int
    BY <1>1, <1>2, <1>6
  <2> QED BY <1>1, <1>4, <2>1
<1>10. third \in Int /\ a21 * x * x * y + a12 * x * y * y \in Int
  <2>1. /\ a30 * x * x * x \in Int /\ a21 * x * x * y \in Int /\ a12 * x * y * y \in Int
        /\ a03 * y * y * y \in Int
    BY <1>1, <1>5, <1>6
  <2> QED BY <2>1
<1>11. later.price = now.price + now.delta * x + now.vega * y + g * x * x
                     + now.vanna * x * y + k * y * y + third
  <2>1. a00 + a10 * u + a01 * w + a20 * u * u + a11 * u * w + a02 * w * w
        + a30 * u * u * u + a21 * u * u * w + a12 * u * w * w + a03 * w * w * w
        = (a00 + a10 * s + a01 * v + a20 * s * s + a11 * s * v + a02 * v * v
           + a30 * s * s * s + a21 * s * s * v + a12 * s * v * v + a03 * v * v * v)
          + (a10 + 2 * a20 * s + a11 * v + 3 * a30 * s * s + 2 * a21 * s * v + a12 * v * v) * x
          + (a01 + a11 * s + 2 * a02 * v + a21 * s * s + 2 * a12 * s * v + 3 * a03 * v * v) * y
          + (a20 + 3 * a30 * s + a21 * v) * x * x
          + (a11 + 2 * a21 * s + 2 * a12 * v) * x * y
          + (a02 + a12 * s + 3 * a03 * v) * y * y
          + (a30 * x * x * x + (a21 * x * x * y + a12 * x * y * y) + a03 * y * y * y)
    BY <1>1, <1>2, <1>5, SMTT(60)
  <2> QED BY <1>4, <2>1
<1>12. later.price \in Int
  <2> HIDE DEF g, k, third
  <2>1. /\ now.delta * x \in Int /\ now.vega * y \in Int /\ g * x * x \in Int
        /\ now.vanna * x * y \in Int /\ k * y * y \in Int
    BY <1>5, <1>6, <1>7, <1>8
  <2> QED BY <1>9, <1>10, <1>11, <2>1
<1> HIDE DEF g, k, third
<1>13. /\ IsTwice(now.gamma) /\ IsTwice(now.volga)
       /\ later.price = now.price + now.delta * x + now.vega * y
                        + (now.gamma \div 2) * x * x + now.vanna * x * y
                        + (now.volga \div 2) * y * y + Third(c, t, x, y)
  <2>1. /\ now.gamma \div 2 = g /\ now.volga \div 2 = k
        /\ IsTwice(now.gamma) /\ IsTwice(now.volga)
    BY <1>4, <1>7, TwiceHalved
  <2> QED BY <1>3, <1>11, <2>1
<1>14. /\ {now.price, now.delta, now.vega, now.vanna, later.price} \subseteq Int
       /\ ThirdOrderCross(c, t, x, y) \in Int /\ Third(c, t, x, y) \in Int
  BY <1>3, <1>8, <1>9, <1>10, <1>12
<1> QED BY <1>13, <1>14 DEF now, later, x, y

\* One estimate after another: first spot, then volatility, then time.
LEMMA RemainderOfMove ==
  ASSUME NEW b \in Nat, NEW x \in Int, NEW y \in Int, NEW dt \in Int,
         NEW p00 \in Int, NEW p10 \in Int, NEW p01 \in Int, NEW p11 \in Int, NEW pz \in Int,
         NEW d0 \in Int, NEW d1 \in Int, NEW ve \in Int, NEW va \in Int,
         NEW h \in Int, NEW l \in Int, NEW th0 \in Int, NEW th1 \in Int,
         Abs(p10 - p00 - d0 * x - h * x * x) <= b * Abs(x * x * x),
         Abs(p01 - p00 - ve * y - l * y * y) <= b * Abs(y * y * y),
         Abs((p11 - p10) - (p01 - p00) - (d1 - d0) * x) <= b * x * x * Abs(y),
         Abs(d1 - d0 - va * y) <= b * y * y,
         Abs(pz - p11 - th1 * dt) <= b * dt * dt,
         Abs(th1 - th0) <= b * (Abs(x) + Abs(y))
  PROVE  /\ Abs((p11 - p10) - (p01 - p00) - va * x * y) <= b * MixedSize(x, y)
         /\ Abs(pz - p00 - (d0 * x + h * x * x + ve * y + th0 * dt + va * x * y + l * y * y))
              <= b * MoveSize(x, y, dt)
<1> DEFINE ax == Abs(x)
           ay == Abs(y)
           at == Abs(dt)
           e1 == p10 - p00 - d0 * x - h * x * x
           e2 == p01 - p00 - ve * y - l * y * y
           e3 == (p11 - p10) - (p01 - p00) - (d1 - d0) * x
           e4 == d1 - d0 - va * y
           e5 == pz - p11 - th1 * dt
           e6 == th1 - th0
           mixed == (p11 - p10) - (p01 - p00) - va * x * y
           b1 == b * Abs(x * x * x)
           b2 == b * Abs(y * y * y)
           b3 == b * x * x * ay
           b4 == b * y * y
           b5 == b * dt * dt
           b6 == b * (ax + ay)
<1>1. \A i, j \in Int : i * j \in Int
  OBVIOUS
<1>2. ax \in Int /\ ay \in Int /\ at \in Int /\ Abs(x * x * x) \in Int /\ Abs(y * y * y) \in Int
  BY <1>1, AbsBounds
<1>3. /\ d0 * x \in Int /\ h * x * x \in Int /\ ve * y \in Int /\ l * y * y \in Int
      /\ d1 * x \in Int /\ va * y \in Int /\ va * x * y \in Int /\ th1 * dt \in Int
      /\ th0 * dt \in Int
  BY <1>1
<1>4. /\ b1 \in Int /\ b2 \in Int /\ b3 \in Int /\ b4 \in Int /\ b5 \in Int /\ b6 \in Int
      /\ b4 * ax \in Int /\ b6 * at \in Int
  <2>1. ax + ay \in Int
    BY <1>2
  <2> HIDE DEF ax, ay, at
  <2> QED BY <1>1, <1>2, <2>1
<1>5. e1 \in Int /\ e2 \in Int /\ e3 \in Int /\ e4 \in Int /\ e5 \in Int /\ e6 \in Int
  BY <1>3
<1>6. mixed = e3 + e4 * x
  <2>1. (d1 - d0 - va * y) * x = (d1 - d0) * x - va * x * y
    BY SMTT(30)
  <2> QED BY <1>3, <2>1
<1>7. pz - p00 - (d0 * x + h * x * x + ve * y + th0 * dt + va * x * y + l * y * y)
      = e1 + e2 + mixed + e5 + e6 * dt
  <2>1. e6 * dt = th1 * dt - th0 * dt
    BY SMTT(30)
  <2> QED BY <1>3, <2>1
<1>8. b * MixedSize(x, y) = b3 + b4 * ax
  <2>1. b * (x * x * ay + ax * y * y) = b * x * x * ay + (b * y * y) * ax
    <3> HIDE DEF ax, ay
    <3> QED BY <1>2, SMTT(30)
  <2> QED BY <2>1 DEF MixedSize
<1>9. b * MoveSize(x, y, dt) = b1 + b2 + (b3 + b4 * ax) + b5 + b6 * at
  <2> DEFINE cx == Abs(x * x * x)
             cy == Abs(y * y * y)
             m == MixedSize(x, y)
  <2>1. m \in Int
    <3>1. x * x * ay \in Int /\ ax * y * y \in Int
      <4> HIDE DEF ax, ay
      <4> QED BY <1>1, <1>2
    <3> QED BY <3>1 DEF MixedSize
  <2>2. MoveSize(x, y, dt) = cx + cy + m + dt * dt + (ax + ay) * at
    BY DEF MoveSize
  <2> HIDE DEF cx, cy, m, ax, ay, at
  <2>3. cx \in Int /\ cy \in Int
    BY <1>2 DEF cx, cy
  <2>4. b * (cx + cy + m + dt * dt + (ax + ay) * at)
        = b * cx + b * cy + b * m + b * dt * dt + (b * (ax + ay)) * at
    BY <1>2, <2>1, <2>3, SMTT(30)
  <2>5. b1 = b * cx /\ b2 = b * cy /\ b * m = b3 + b4 * ax
    BY <1>8 DEF cx, cy, m
  <2> QED BY <2>2, <2>4, <2>5
<1>10. /\ Abs(e1) <= b1 /\ Abs(e2) <= b2 /\ Abs(e3) <= b3 /\ Abs(e4) <= b4 /\ Abs(e5) <= b5
       /\ Abs(e6) <= b6
  OBVIOUS
<1>11. e4 * x \in Int /\ e6 * dt \in Int /\ mixed \in Int
  <2>1. e4 * x \in Int /\ e6 * dt \in Int
    <3> HIDE DEF e4, e6
    <3> QED BY <1>1, <1>5
  <2> QED BY <1>3, <2>1
<1> HIDE DEF ax, ay, at, e1, e2, e3, e4, e5, e6, b1, b2, b3, b4, b5, b6, mixed
<1>12. Abs(e4 * x) <= b4 * ax
  BY <1>4, <1>5, <1>10, AbsProduct DEF ax
<1>13. Abs(e6 * dt) <= b6 * at
  BY <1>4, <1>5, <1>10, AbsProduct DEF at
<1> DEFINE e4x == e4 * x
           e6t == e6 * dt
           b4x == b4 * ax
           b6t == b6 * at
<1>14. e4x \in Int /\ e6t \in Int /\ b4x \in Int /\ b6t \in Int /\ Abs(e4x) <= b4x /\ Abs(e6t) <= b6t
  BY <1>4, <1>11, <1>12, <1>13
<1> HIDE DEF e4x, e6t, b4x, b6t
<1>15. Abs(e3 + e4x) <= b3 + b4x
  BY <1>4, <1>5, <1>10, <1>14, AbsSum
<1>16. Abs(e1 + e2 + (e3 + e4x) + e5 + e6t) <= b1 + b2 + (b3 + b4x) + b5 + b6t
  BY <1>4, <1>5, <1>10, <1>14 DEF Abs
<1>17. mixed = e3 + e4x
  BY <1>6 DEF e4x
<1> QED BY <1>7, <1>8, <1>9, <1>15, <1>16, <1>17 DEF mixed, e4x, e6t, b4x, b6t

LEMMA RestIsWhole ==
  ASSUME WholeForms, NEW c, c.strike \in Positive, NEW s \in Positive, NEW v \in Positive,
         NEW t \in Positive
  PROVE  LET f == ClosedForm(c, s, v, t)
             now == CubicForm(c, s, v, t)
             r == Rest(c, s, v, t)
         IN  /\ {now.price, now.delta, now.vega, now.vanna, now.theta} \subseteq Int
             /\ {r.price, r.delta, r.vega, r.vanna, r.theta} \subseteq Int
             /\ f.price = now.price + r.price /\ f.delta = now.delta + r.delta
             /\ f.vega = now.vega + r.vega /\ f.vanna = now.vanna + r.vanna
             /\ f.theta = now.theta + r.theta
             /\ IsTwice(r.gamma) /\ IsTwice(r.volga)
             /\ f.gamma = 2 * ((now.gamma \div 2) + (r.gamma \div 2))
             /\ f.volga = 2 * ((now.volga \div 2) + (r.volga \div 2))
<1> DEFINE f == ClosedForm(c, s, v, t)
           now == CubicForm(c, s, v, t)
           r == Rest(c, s, v, t)
<1>1. {f.price, f.delta, f.vega, f.vanna, f.theta, Theta(c, s, v, t)} \subseteq Int
  BY DEF WholeForms
<1>2. PICK g, k \in Int : f.gamma = 2 * g /\ f.volga = 2 * k
  BY DEF WholeForms
<1>3. /\ {now.price, now.delta, now.vega, now.vanna} \subseteq Int
      /\ IsTwice(now.gamma) /\ IsTwice(now.volga)
  BY CubicExpansion
<1>4. now.theta = Theta(c, s, v, t)
  BY DEF CubicForm
<1>5. /\ r.price = f.price - now.price /\ r.delta = f.delta - now.delta
      /\ r.vega = f.vega - now.vega /\ r.gamma = f.gamma - now.gamma
      /\ r.vanna = f.vanna - now.vanna /\ r.volga = f.volga - now.volga
      /\ r.theta = f.theta - now.theta
  BY DEF Rest
<1> HIDE DEF f, now, r
<1> DEFINE g0 == now.gamma \div 2
           k0 == now.volga \div 2
<1>6. g0 \in Int /\ k0 \in Int /\ now.gamma = 2 * g0 /\ now.volga = 2 * k0
  BY <1>3 DEF IsTwice
<1> HIDE DEF g0, k0
<1>7. /\ r.gamma = 2 * (g - g0) /\ r.volga = 2 * (k - k0) /\ g - g0 \in Int /\ k - k0 \in Int
  BY <1>2, <1>5, <1>6
<1>8. /\ IsTwice(r.gamma) /\ r.gamma \div 2 = g - g0
      /\ IsTwice(r.volga) /\ r.volga \div 2 = k - k0
  BY <1>7, TwiceHalved
<1>9. f.gamma = 2 * (g0 + (r.gamma \div 2)) /\ f.volga = 2 * (k0 + (r.volga \div 2))
  BY <1>2, <1>6, <1>8
<1>10. /\ {now.price, now.delta, now.vega, now.vanna, now.theta} \subseteq Int
       /\ {r.price, r.delta, r.vega, r.vanna, r.theta} \subseteq Int
       /\ f.price = now.price + r.price /\ f.delta = now.delta + r.delta
       /\ f.vega = now.vega + r.vega /\ f.vanna = now.vanna + r.vanna
       /\ f.theta = now.theta + r.theta
  BY <1>1, <1>3, <1>4, <1>5
<1> QED BY <1>8, <1>9, <1>10 DEF f, now, r, g0, k0

\* What any move leaves over of the part that is no polynomial.
LEMMA RestOfMove ==
  ASSUME SmoothPrices, NEW c, c.strike \in Positive,
         NEW s \in Positive, NEW u \in Positive, NEW v \in Positive, NEW w \in Positive,
         NEW t \in Positive, NEW z \in Positive
  PROVE  LET x == u - s
             y == w - v
             dt == z - t
             bound == Roughness(c, Max({v, w}))
             r(p, q) == Rest(c, p, q, t)
             now == r(s, v)
         IN  /\ Abs((r(u, w).price - r(u, v).price) - (r(s, w).price - now.price)
                    - now.vanna * x * y) <= bound * MixedSize(x, y)
             /\ Abs(Rest(c, u, w, z).price - now.price
                    - (now.delta * x + (now.gamma \div 2) * x * x + now.vega * y
                       + now.theta * dt + now.vanna * x * y + (now.volga \div 2) * y * y))
                  <= bound * MoveSize(x, y, dt)
<1> DEFINE x == u - s
           y == w - v
           dt == z - t
           bound == Roughness(c, Max({v, w}))
           now == Rest(c, s, v, t)
           uv == Rest(c, u, v, t)
           sw == Rest(c, s, w, t)
           uw == Rest(c, u, w, t)
           uwz == Rest(c, u, w, z)
<1>1. x \in Int /\ y \in Int /\ dt \in Int
  BY DEF Positive
<1>2. bound \in Nat
  <2>1. v \in Int /\ w \in Int
    BY DEF Positive
  <2>2. Max({v, w}) \in {v, w}
    BY <2>1, MaxOfTwo
  <2> QED BY <2>2 DEF SmoothPrices
<1>3. WholeForms /\ SmoothBetween(c, s, u, v, w, t, z)
  BY DEF SmoothPrices, SmoothOn
<1>4. /\ {now.price, now.delta, now.vega, now.vanna, now.theta} \subseteq Int
      /\ uv.price \in Int /\ sw.price \in Int /\ sw.delta \in Int /\ uw.price \in Int
      /\ uw.theta \in Int /\ uwz.price \in Int
  <2>1. {now.price, now.delta, now.vega, now.vanna, now.theta} \subseteq Int
    BY <1>3, RestIsWhole
  <2>2. uv.price \in Int
    BY <1>3, RestIsWhole
  <2>3. sw.price \in Int /\ sw.delta \in Int
    BY <1>3, RestIsWhole
  <2>4. uw.price \in Int /\ uw.theta \in Int
    BY <1>3, RestIsWhole
  <2>5. uwz.price \in Int
    BY <1>3, RestIsWhole
  <2> QED BY <2>1, <2>2, <2>3, <2>4, <2>5
<1> DEFINE h == now.gamma \div 2
           l == now.volga \div 2
<1>5. h \in Int /\ l \in Int
  BY <1>3, RestIsWhole DEF IsTwice
<1>6. /\ Abs(uv.price - now.price - now.delta * x - h * x * x) <= bound * Abs(x * x * x)
      /\ Abs(sw.price - now.price - now.vega * y - l * y * y) <= bound * Abs(y * y * y)
      /\ Abs((uw.price - uv.price) - (sw.price - now.price) - (sw.delta - now.delta) * x)
           <= bound * x * x * Abs(y)
      /\ Abs(sw.delta - now.delta - now.vanna * y) <= bound * y * y
      /\ Abs(uwz.price - uw.price - uw.theta * dt) <= bound * dt * dt
      /\ Abs(uw.theta - now.theta) <= bound * (Abs(x) + Abs(y))
  BY <1>3 DEF SmoothBetween
<1> HIDE DEF x, y, dt, bound, now, uv, sw, uw, uwz, h, l
<1>7. /\ Abs((uw.price - uv.price) - (sw.price - now.price) - now.vanna * x * y)
           <= bound * MixedSize(x, y)
      /\ Abs(uwz.price - now.price
             - (now.delta * x + h * x * x + now.vega * y + now.theta * dt
                + now.vanna * x * y + l * y * y)) <= bound * MoveSize(x, y, dt)
  BY <1>1, <1>2, <1>4, <1>5, <1>6, RemainderOfMove
<1> QED BY <1>7 DEF x, y, dt, bound, now, uv, sw, uw, uwz, h, l

\* The residuals of one line of the engine.
LEMMA TaylorResidual ==
  ASSUME SmoothPrices, NEW q, Numbers(q), HasPrice(q.contract, q.from), HasPrice(q.contract, q.to)
  PROVE  LET slack == Roughness(q.contract, Max({q.from.sigma, q.to.sigma}))
                      * MoveSize(q.to.s - q.from.s, q.to.sigma - q.from.sigma, q.to.t - q.from.t)
             r == Reprice(q)
         IN  /\ Abs(r.residual_full - Omitted(q)) <= slack
             /\ Abs(r.residual - (Omitted(q) + r.vanna_pnl + r.volga_pnl)) <= slack
<1> DEFINE c == q.contract
           s == q.from.s
           v == q.from.sigma
           t == q.from.t
           u == q.to.s
           w == q.to.sigma
           z == q.to.t
           x == u - s
           y == w - v
           dt == z - t
           f == ClosedForm(c, s, v, t)
           fz == ClosedForm(c, u, w, z)
           now == CubicForm(c, s, v, t)
           later == CubicForm(c, u, w, t).price
           last == CubicForm(c, u, w, z).price
           rest == Rest(c, s, v, t)
           restz == Rest(c, u, w, z).price
           third == Third(c, t, x, y)
           slack == Roughness(c, Max({v, w})) * MoveSize(x, y, dt)
           r == Reprice(q)
<1>1. /\ c.strike \in Positive /\ s \in Positive /\ v \in Positive /\ u \in Positive
      /\ w \in Positive /\ t \in Positive /\ z \in Positive
  BY DEF Numbers, HasPrice, Degenerate, Positive
<1>2. PriceAndGreeks(c, s, v, t) = f /\ Price(c, u, w, z) = fz.price
  <2>1. ~Degenerate(v, t) /\ ~Degenerate(w, z)
    BY DEF HasPrice
  <2> HIDE DEF c, s, v, u, w, t, z
  <2> QED BY <2>1 DEF PriceAndGreeks, Price
<1>3. /\ r.residual = fz.price - f.price
                      - (f.delta * x + SecondOrder(f.gamma, x) + f.vega * y + f.theta * dt)
      /\ r.vanna_pnl = f.vanna * x * y /\ r.volga_pnl = SecondOrder(f.volga, y)
      /\ r.residual_full = fz.price - f.price
                           - ((f.delta * x + SecondOrder(f.gamma, x) + f.vega * y + f.theta * dt)
                              + f.vanna * x * y + SecondOrder(f.volga, y))
  BY <1>2 DEF Reprice
<1>4. Omitted(q) = third + last - later - now.theta * dt
  <2>1. now.theta = Theta(c, s, v, t)
    BY DEF CubicForm
  <2>2. Omitted(q) = Coefficient(c, t, 3, 0) * x * x * x + ThirdOrderCross(c, t, x, y)
                     + Coefficient(c, t, 0, 3) * y * y * y + last - later
                     - Theta(c, s, v, t) * dt
    BY DEF Omitted
  <2> QED BY <2>1, <2>2 DEF Third
<1> HIDE DEF c, s, v, u, w, t, z, r
<1>5. WholeForms /\ x \in Int /\ y \in Int /\ dt \in Int
  BY <1>1 DEF SmoothPrices, Positive
<1> DEFINE g == now.gamma \div 2
           k == now.volga \div 2
           h == rest.gamma \div 2
           l == rest.volga \div 2
<1>6. /\ g \in Int /\ k \in Int
      /\ later = now.price + now.delta * x + now.vega * y + g * x * x
                 + now.vanna * x * y + k * y * y + third
  BY <1>1, <1>5, CubicExpansion DEF IsTwice
<1>7. later \in Int /\ third \in Int
  BY <1>1, <1>5, CubicExpansion
<1>8. /\ h \in Int /\ l \in Int
      /\ f.gamma = 2 * (g + h) /\ f.volga = 2 * (k + l)
  BY <1>1, <1>5, RestIsWhole DEF IsTwice
<1>9. /\ {now.price, now.delta, now.vega, now.vanna, now.theta} \subseteq Int
      /\ {rest.price, rest.delta, rest.vega, rest.vanna, rest.theta} \subseteq Int
      /\ f.price = now.price + rest.price /\ f.delta = now.delta + rest.delta
      /\ f.vega = now.vega + rest.vega /\ f.vanna = now.vanna + rest.vanna
      /\ f.theta = now.theta + rest.theta
  BY <1>1, <1>5, RestIsWhole
<1>10. last \in Int /\ restz \in Int /\ fz.price = last + restz
  BY <1>1, <1>5, RestIsWhole
<1> DEFINE remainder == restz - rest.price
                        - (rest.delta * x + h * x * x + rest.vega * y + rest.theta * dt
                           + rest.vanna * x * y + l * y * y)
<1>11. Abs(remainder) <= slack
  BY <1>1, RestOfMove
<1> HIDE DEF f, fz, now, later, last, rest, restz, third, slack, x, y, dt, g, k, h, l
<1>12. SecondOrder(f.gamma, x) = (g + h) * x * x /\ SecondOrder(f.volga, y) = (k + l) * y * y
  <2>1. g + h \in Int /\ k + l \in Int
    BY <1>6, <1>8
  <2> QED BY <1>5, <1>8, <2>1, HalfOfTwice
<1>13. \A i, j \in Int : i * j \in Int
  OBVIOUS
<1>14. /\ now.delta * x \in Int /\ now.vega * y \in Int /\ now.theta * dt \in Int
       /\ now.vanna * x * y \in Int /\ g * x * x \in Int /\ k * y * y \in Int
       /\ rest.delta * x \in Int /\ rest.vega * y \in Int /\ rest.theta * dt \in Int
       /\ rest.vanna * x * y \in Int /\ h * x * x \in Int /\ l * y * y \in Int
  BY <1>5, <1>6, <1>8, <1>9, <1>13
<1>15. \A i, j, n \in Int : (i + j) * n = i * n + j * n
  OBVIOUS
<1>16. /\ f.delta * x = now.delta * x + rest.delta * x
       /\ f.vega * y = now.vega * y + rest.vega * y
       /\ f.theta * dt = now.theta * dt + rest.theta * dt
       /\ f.vanna * x * y = now.vanna * x * y + rest.vanna * x * y
       /\ (g + h) * x * x = g * x * x + h * x * x
       /\ (k + l) * y * y = k * y * y + l * y * y
  <2>1. now.vanna * x \in Int /\ rest.vanna * x \in Int /\ g * x \in Int /\ h * x \in Int
        /\ k * y \in Int /\ l * y \in Int
    BY <1>5, <1>6, <1>8, <1>9, <1>13
  <2>2. f.delta * x = now.delta * x + rest.delta * x
    BY <1>5, <1>9, <1>15
  <2>3. f.vega * y = now.vega * y + rest.vega * y
    BY <1>5, <1>9, <1>15
  <2>4. f.theta * dt = now.theta * dt + rest.theta * dt
    BY <1>5, <1>9, <1>15
  <2>5. f.vanna * x * y = now.vanna * x * y + rest.vanna * x * y
    <3>1. f.vanna * x = now.vanna * x + rest.vanna * x
      BY <1>5, <1>9, <1>15
    <3> QED BY <1>5, <1>15, <2>1, <3>1
  <2>6. (g + h) * x * x = g * x * x + h * x * x
    BY <1>5, <1>6, <1>8, <1>15, <2>1
  <2>7. (k + l) * y * y = k * y * y + l * y * y
    BY <1>5, <1>6, <1>8, <1>15, <2>1
  <2> QED BY <2>2, <2>3, <2>4, <2>5, <2>6, <2>7
<1> DEFINE first == f.delta * x + SecondOrder(f.gamma, x) + f.vega * y + f.theta * dt
           cross == f.vanna * x * y
           curl == SecondOrder(f.volga, y)
<1>17. /\ first = now.delta * x + rest.delta * x + (g * x * x + h * x * x)
                  + (now.vega * y + rest.vega * y) + (now.theta * dt + rest.theta * dt)
       /\ cross = now.vanna * x * y + rest.vanna * x * y
       /\ curl = k * y * y + l * y * y
  BY <1>12, <1>16
<1>18. first \in Int /\ cross \in Int /\ curl \in Int
  BY <1>14, <1>17
<1>19. /\ r.residual = fz.price - f.price - first
       /\ r.residual_full = fz.price - f.price - (first + cross + curl)
       /\ r.vanna_pnl = cross /\ r.volga_pnl = curl
  BY <1>3
<1> HIDE DEF first, cross, curl
<1>20. r.residual_full - Omitted(q) = remainder
  BY <1>4, <1>6, <1>7, <1>9, <1>10, <1>14, <1>17, <1>18, <1>19
<1>21. r.residual - (Omitted(q) + r.vanna_pnl + r.volga_pnl) = r.residual_full - Omitted(q)
  <2>1. Omitted(q) \in Int
    BY <1>4, <1>7, <1>10, <1>14
  <2> QED BY <1>9, <1>10, <1>18, <1>19, <2>1
<1> QED BY <1>11, <1>20, <1>21 DEF slack, x, y, dt, c, s, v, t, u, w, z, r

\* Requests are of numbers, in every batch of every client.
LEMMA NumbersAreAsked == PositiveMoves => (Spec => []InputIsNumbers)
<1> SUFFICES ASSUME PositiveMoves PROVE Spec => []InputIsNumbers
  OBVIOUS
<1>1. Init => MarketInv /\ InputIsNumbers
  BY SessionsAssumption DEF Init, BridgeInit, NoMarket, MarketInv, InputIsNumbers
<1>2. MarketInv /\ StageInv /\ InputIsNumbers /\ [Next]_vars => MarketInv' /\ InputIsNumbers'
  BY MarketNextKeeps, NextKeepsNumbers
<1> QED BY <1>1, <1>2, StagesKeepTheirPlace, PTL DEF Spec

\* With all six terms the engine's residual is what a second-order expansion
\* leaves out and nothing else, and without the two cross terms it is that and
\* exactly those two, up to terms of the order the price's smoothness allows:
\* for every line of every batch and every smooth price.
THEOREM ResidualIsTheRemainder ==
  PositiveMoves /\ SmoothPrices => (Spec => []ResidualIsWhatTaylorOmits)
<1> SUFFICES ASSUME PositiveMoves, SmoothPrices PROVE Spec => []ResidualIsWhatTaylorOmits
  OBVIOUS
<1>1. BatchInv /\ InputIsNumbers => ResidualIsWhatTaylorOmits
  <2> SUFFICES ASSUME BatchInv, InputIsNumbers, engine = "exited", NEW k \in DOMAIN input,
                      HasPrice(input[k].contract, input[k].from),
                      HasPrice(input[k].contract, input[k].to)
               PROVE  LET q == input[k]
                          answer == results[k]
                          slack == Roughness(q.contract, Max({q.from.sigma, q.to.sigma}))
                                   * MoveSize(q.to.s - q.from.s, q.to.sigma - q.from.sigma,
                                              q.to.t - q.from.t)
                      IN  /\ Abs(answer.residual_full - Omitted(q)) <= slack
                          /\ Abs(answer.residual
                                 - (Omitted(q) + answer.vanna_pnl + answer.volga_pnl)) <= slack
    BY DEF ResidualIsWhatTaylorOmits
  <2>1. results[k] = Reprice(input[k])
    BY DEF BatchInv, Answered, InputIsNumbers
  <2>2. Numbers(input[k])
    BY DEF InputIsNumbers
  <2> QED BY <2>1, <2>2, TaylorResidual
<1> QED BY <1>1, NumbersAreAsked, StagesKeepTheirPlace, PTL

-----------------------------------------------------------------------------
(* What the order of repricing decides.                                    *)

\* The mixed second difference of a polynomial.
LEMMA CubicInteraction ==
  ASSUME WholeForms, NEW c, c.strike \in Positive,
         NEW s \in Positive, NEW u \in Positive, NEW v \in Positive, NEW w \in Positive,
         NEW t \in Positive
  PROVE  LET x == u - s
             y == w - v
             p(i, j) == CubicForm(c, i, j, t).price
         IN  (p(u, w) - p(u, v)) - (p(s, w) - p(s, v))
             = CubicForm(c, s, v, t).vanna * x * y + ThirdOrderCross(c, t, x, y)
<1> DEFINE x == u - s
           y == w - v
           a00 == Coefficient(c, t, 0, 0)
           a10 == Coefficient(c, t, 1, 0)
           a01 == Coefficient(c, t, 0, 1)
           a20 == Coefficient(c, t, 2, 0)
           a11 == Coefficient(c, t, 1, 1)
           a02 == Coefficient(c, t, 0, 2)
           a30 == Coefficient(c, t, 3, 0)
           a21 == Coefficient(c, t, 2, 1)
           a12 == Coefficient(c, t, 1, 2)
           a03 == Coefficient(c, t, 0, 3)
           form(i, j) == a00 + a10 * i + a01 * j + a20 * i * i + a11 * i * j + a02 * j * j
                         + a30 * i * i * i + a21 * i * i * j + a12 * i * j * j + a03 * j * j * j
<1>1. /\ a00 \in Int /\ a10 \in Int /\ a01 \in Int /\ a20 \in Int /\ a11 \in Int
      /\ a02 \in Int /\ a30 \in Int /\ a21 \in Int /\ a12 \in Int /\ a03 \in Int
  BY DEF WholeForms
<1>2. s \in Int /\ u \in Int /\ v \in Int /\ w \in Int
  BY DEF Positive
<1>3. /\ CubicForm(c, s, v, t).vanna = a11 + 2 * a21 * s + 2 * a12 * v
      /\ \A i, j : CubicForm(c, i, j, t).price = form(i, j)
  BY DEF CubicForm
<1>4. ThirdOrderCross(c, t, x, y) = a21 * x * x * y + a12 * x * y * y
  BY DEF ThirdOrderCross
<1> HIDE DEF a00, a10, a01, a20, a11, a02, a30, a21, a12, a03
<1>5. x \in Int /\ y \in Int /\ u = s + x /\ w = v + y
  BY <1>2
<1> HIDE DEF x, y
<1>6. (form(u, w) - form(u, v)) - (form(s, w) - form(s, v))
      = (a11 + 2 * a21 * s + 2 * a12 * v) * x * y + (a21 * x * x * y + a12 * x * y * y)
  BY <1>1, <1>2, <1>5, SMTT(60)
<1> HIDE DEF form
<1> QED BY <1>3, <1>4, <1>6 DEF x, y

LEMMA DiscrepancyOfMove ==
  ASSUME SmoothPrices, NEW m \in Session
  PROVE  LET x == m.close.s - m.open.s
             y == m.close.sigma - m.open.sigma
         IN  Abs(Expected(m).discrepancy
                 - (Expected(m).vanna_pnl + ThirdOrderCross(m.contract, m.open.t, x, y)))
               <= Roughness(m.contract, Max({m.open.sigma, m.close.sigma})) * MixedSize(x, y)
<1> DEFINE c == m.contract
           t == m.open.t
           s == m.open.s
           u == m.close.s
           v == m.open.sigma
           w == m.close.sigma
           x == u - s
           y == w - v
           p(i, j) == CubicForm(c, i, j, t)
           r(i, j) == Rest(c, i, j, t)
           slack == Roughness(c, Max({v, w})) * MixedSize(x, y)
<1>1. /\ c.strike \in Positive /\ s \in Positive /\ u \in Positive /\ v \in Positive
      /\ w \in Positive /\ t \in Positive
  BY DEF Session, Priced
<1>2. Expected(m).vanna_pnl = PriceAndGreeks(c, s, v, t).vanna * x * y
  <2>1. FullRequest(m).contract = c /\ FullRequest(m).from = m.open /\ FullRequest(m).to = m.close
    BY DEF FullRequest, Request
  <2> QED BY <2>1 DEF Expected, Reprice
<1>3. Expected(m).discrepancy
      = (Price(c, u, w, t) - Price(c, u, v, t)) - (Price(c, s, w, t) - Price(c, s, v, t))
  BY DEF Expected
<1> HIDE DEF c, t, s, u, v, w
<1>4. WholeForms /\ x \in Int /\ y \in Int
  BY <1>1 DEF SmoothPrices, Positive
<1>5. ASSUME NEW i \in Positive, NEW j \in Positive
      PROVE  /\ p(i, j).price \in Int /\ r(i, j).price \in Int
             /\ p(i, j).vanna \in Int /\ r(i, j).vanna \in Int
             /\ Price(c, i, j, t) = p(i, j).price + r(i, j).price
             /\ PriceAndGreeks(c, i, j, t).vanna = p(i, j).vanna + r(i, j).vanna
  <2>1. PriceAndGreeks(c, i, j, t) = ClosedForm(c, i, j, t)
    BY <1>1 DEF PriceAndGreeks, Degenerate, Positive
  <2> QED BY <1>1, <1>4, <2>1, RestIsWhole DEF Price
<1>6. (p(u, w).price - p(u, v).price) - (p(s, w).price - p(s, v).price)
      = p(s, v).vanna * x * y + ThirdOrderCross(c, t, x, y)
  BY <1>1, <1>4, CubicInteraction
<1>7. Abs((r(u, w).price - r(u, v).price) - (r(s, w).price - r(s, v).price)
          - r(s, v).vanna * x * y) <= slack
  BY <1>1, RestOfMove
<1>8. ThirdOrderCross(c, t, x, y) \in Int
  BY <1>1, <1>4, CubicExpansion
<1> HIDE DEF p, r, slack, x, y
<1>9. (p(s, v).vanna + r(s, v).vanna) * x * y
      = p(s, v).vanna * x * y + r(s, v).vanna * x * y
  <2>1. \A i, j, n \in Int : (i + j) * n = i * n + j * n /\ i * n \in Int
    OBVIOUS
  <2> QED BY <1>1, <1>4, <1>5, <2>1
<1>10. p(s, v).vanna * x * y \in Int /\ r(s, v).vanna * x * y \in Int
  <2>1. \A i, n \in Int : i * n \in Int
    OBVIOUS
  <2> QED BY <1>1, <1>4, <1>5, <2>1
<1>11. Expected(m).discrepancy - (Expected(m).vanna_pnl + ThirdOrderCross(c, t, x, y))
       = (r(u, w).price - r(u, v).price) - (r(s, w).price - r(s, v).price)
         - r(s, v).vanna * x * y
  <2>1. /\ Price(c, u, w, t) = p(u, w).price + r(u, w).price
        /\ p(u, w).price \in Int /\ r(u, w).price \in Int
    BY <1>1, <1>5
  <2>2. /\ Price(c, u, v, t) = p(u, v).price + r(u, v).price
        /\ p(u, v).price \in Int /\ r(u, v).price \in Int
    BY <1>1, <1>5
  <2>3. /\ Price(c, s, w, t) = p(s, w).price + r(s, w).price
        /\ p(s, w).price \in Int /\ r(s, w).price \in Int
    BY <1>1, <1>5
  <2>4. /\ Price(c, s, v, t) = p(s, v).price + r(s, v).price
        /\ p(s, v).price \in Int /\ r(s, v).price \in Int
        /\ Expected(m).vanna_pnl = p(s, v).vanna * x * y + r(s, v).vanna * x * y
    BY <1>1, <1>2, <1>5, <1>9
  <2> QED BY <1>3, <1>6, <1>8, <1>10, <2>1, <2>2, <2>3, <2>4
<1>12. Abs(Expected(m).discrepancy - (Expected(m).vanna_pnl + ThirdOrderCross(c, t, x, y))) <= slack
  BY <1>7, <1>11
<1> QED BY <1>12 DEF slack, x, y, c, t, s, u, v, w

\* What a sequential repricing hands to whichever factor comes second is the
\* interaction of the two, up to terms of third order in which both moves occur:
\* in every row of a market of any size and for every smooth price.
THEOREM DiscrepancyIsInteraction ==
  PositiveMoves /\ SmoothPrices => (Spec => []DiscrepancyIsVanna)
<1> SUFFICES ASSUME PositiveMoves, SmoothPrices PROVE Spec => []DiscrepancyIsVanna
  OBVIOUS
<1>1. MarketInv /\ StageInv => DiscrepancyIsVanna
  <2> SUFFICES ASSUME MarketInv, StageInv, NEW k \in DOMAIN out
               PROVE  LET m == market[k]
                          ds == m.close.s - m.open.s
                          dv == m.close.sigma - m.open.sigma
                      IN  Abs(out[k].discrepancy
                              - (out[k].vanna_pnl + ThirdOrderCross(m.contract, m.open.t, ds, dv)))
                            <= Roughness(m.contract, Max({m.open.sigma, m.close.sigma}))
                               * MixedSize(ds, dv)
    BY DEF DiscrepancyIsVanna
  <2>1. out[k] = Expected(market[k])
    BY DEF StageInv, RowsBelongToTheirMoves
  <2>2. k \in DOMAIN market
    <3>1. CASE out = << >>
      BY <3>1
    <3>2. CASE DOMAIN out = DOMAIN market
      BY <3>2
    <3> QED BY <3>1, <3>2 DEF StageInv
  <2>3. market[k] \in Session
    BY <2>2 DEF MarketInv
  <2> QED BY <2>1, <2>3, DiscrepancyOfMove
<1> QED BY <1>1, PathInvariant, PTL

-----------------------------------------------------------------------------
(* Nothing is dropped on the way.                                          *)

\* A direct call is made before there is a market, and there are no rows before
\* a program is done.
DoneInv ==
  /\ universe = << >> \/ stage = "direct" => market = << >>
  /\ stage # "done" => rows = << >>
  /\ NothingDropped

LEMMA SameLength ==
  ASSUME StageInv, NEW f, f = [k \in DOMAIN market |-> f[k]]
  PROVE  Len(f) = Len(market)
<1>1. Len(market) \in Nat /\ DOMAIN market = 1 .. Len(market)
  BY ListDomain DEF StageInv
<1>2. f = [k \in 1 .. Len(market) |-> f[k]] /\ DOMAIN f = 1 .. Len(market)
  BY <1>1
<1> QED BY <1>1, <1>2, ListLength

LEMMA NextKeepsDone ==
  ASSUME BatchInv, StageInv, DoneInv, [Next]_vars
  PROVE  DoneInv'
<1>1. CASE BuildMarket /\ UNCHANGED check
  <2>1. stage = "build" /\ stage' = stage /\ rows' = rows
    BY <1>1 DEF BuildMarket, attribution
  <2>2. CASE DrawInstrument
    <3>1. PICK x : universe' = Append(universe, x)
      BY <2>2 DEF DrawInstrument
    <3>2. market' = market
      BY <2>2 DEF DrawInstrument
    <3>3. universe # << >> => universe' # << >>
      BY <3>1
    <3> QED BY <2>1, <3>2, <3>3 DEF DoneInv, NothingDropped
  <2>3. CASE DrawSession
    <3>1. universe' = universe /\ UniverseBuilt /\ ~MarketBuilt
      BY <2>3 DEF DrawSession
    <3>2. ASSUME universe = << >> PROVE FALSE
      <4>1. Len(market) = 0 /\ NInstruments = 0 /\ NSessions \in Nat
        BY <3>1, <3>2, SessionsAssumption DEF DoneInv, UniverseBuilt
      <4>2. 0 * NSessions = 0
        BY <4>1
      <4> QED BY <3>1, <4>1, <4>2 DEF MarketBuilt
    <3> QED BY <2>1, <3>1, <3>2 DEF DoneInv, NothingDropped
  <2> QED BY <1>1, <2>2, <2>3 DEF BuildMarket
<1>2. CASE StartDirect
  BY <1>2 DEF StartDirect, DoneInv, NothingDropped, marketVars, attribution
<1>3. CASE TakeDirect
  BY <1>3 DEF TakeDirect, DoneInv, NothingDropped, marketVars, attribution
<1>4. CASE StartFull
  BY <1>4 DEF StartFull, DoneInv, NothingDropped, marketVars, attribution
<1>5. CASE Summarise
  <2>1. stage' = "done" /\ market' = market /\ universe' = universe
    BY <1>5 DEF Summarise, marketVars
  <2>2. Len(rows') = Len(market)
    BY <1>5, SummariseAnswersAll, SameLength
  <2> QED BY <1>5, <2>1, <2>2 DEF DoneInv, NothingDropped
<1>6. CASE JoinVanna \/ StartBumps \/ TakeBumps \/ StartFinal
  BY <1>6 DEF JoinVanna, StartBumps, TakeBumps, StartFinal, DoneInv, NothingDropped, marketVars,
              attribution
<1>7. CASE TakeFinal
  <2>1. stage' = "done" /\ market' = market /\ universe' = universe
    BY <1>7 DEF TakeFinal, marketVars
  <2>2. Len(out') = Len(market)
    BY <1>7, TakeFinalAnswersAll, SameLength
  <2> QED BY <1>7, <2>1, <2>2 DEF DoneInv, NothingDropped, TakeFinal
<1>8. CASE Engine \/ UNCHANGED vars
  BY <1>8 DEF Engine, vars, DoneInv, NothingDropped, marketVars, attribution, check
<1> QED BY <1>1, <1>2, <1>3, <1>4, <1>5, <1>6, <1>7, <1>8 DEF Next, Attribution

\* What EveryMoveOrException says of the programs that do come to their end, for
\* a market of any size: a batch that came back has lost no session.
THEOREM NothingIsDropped == Spec => []NothingDropped
<1>1. Init => DoneInv
  BY DEF Init, NoMarket, NoAttribution, DoneInv, NothingDropped
<1>2. BatchInv /\ StageInv /\ DoneInv /\ [Next]_vars => DoneInv'
  BY NextKeepsDone
<1>3. DoneInv => NothingDropped
  BY DEF DoneInv
<1> QED BY <1>1, <1>2, <1>3, StagesKeepTheirPlace, PTL DEF Spec
=============================================================================
