---------------------------- MODULE EngineBatch ----------------------------
(***************************************************************************)
(* The subprocess bridge (pipeline/cpp_bridge.py, run_attribution_batch)   *)
(* and the engine it starts (cpp/src/attribution_main.cpp, main): lines    *)
(* are read and repriced one by one and printed together at the end, and   *)
(* any exit status but 0 is an exception for the caller.                   *)
(***************************************************************************)
EXTENDS BlackScholes, Sequences

VARIABLES
  engine,    \* "none", "running", "exited" or "failed": the call's subprocess
  input,     \* the request lines it was given
  read,      \* lines it has read
  outLines,  \* lines it will print
  results    \* what run_attribution_batch parsed and returned

bridge == <<engine, input, read, outLines, results>>

\* A request tuple: a contract from one market state [s, sigma, t] to another.
Request(id, contract, from, to) ==
  [id |-> id, contract |-> contract, from |-> from, to |-> to, text |-> "ten numbers"]

\* A line has ten fields unless one of them holds a comma; std::stod throws on
\* a field that does not begin with a number.
WellFormed(q) == q.text = "ten numbers"

\* Faulty: a second derivative without its one half.
UnhalvedTerm(greek, move) == greek * move * move

\* 0.5 * greek * move^2; ClosedForm's second derivatives are even.
SecondOrder(greek, move) == (greek * move * move) \div 2

\* All terms come from the Greeks of the opening state and the same moves.
Reprice(q) ==
  LET g0 == PriceAndGreeks(q.contract, q.from.s, q.from.sigma, q.from.t)
      price1 == Price(q.contract, q.to.s, q.to.sigma, q.to.t)
      ds == q.to.s - q.from.s
      dvol == q.to.sigma - q.from.sigma
      dt == q.to.t - q.from.t
      taylor_sum == g0.delta * ds + SecondOrder(g0.gamma, ds) + g0.vega * dvol + g0.theta * dt
      vanna_pnl == g0.vanna * ds * dvol
      volga_pnl == SecondOrder(g0.volga, dvol)
  IN  [id |-> q.id, price_sod |-> g0.price, price_eod |-> price1,
       actual_pnl |-> price1 - g0.price,
       residual |-> price1 - g0.price - taylor_sum,
       vanna_pnl |-> vanna_pnl, volga_pnl |-> volga_pnl,
       residual_full |-> price1 - g0.price - (taylor_sum + vanna_pnl + volga_pnl)]

BridgeInit == engine = "none" /\ input = << >> /\ read = 0 /\ outLines = << >> /\ results = << >>

\* The binary exists and is started with the requests on its standard input.
StartBatch(requests) ==
  /\ engine = "none"
  /\ engine' = "running"
  /\ input' = requests /\ read' = 0 /\ outLines' = << >> /\ results' = << >>

\* EngineNotBuiltError.
NotBuilt ==
  /\ engine = "none"
  /\ engine' = "failed"
  /\ UNCHANGED <<input, read, outLines, results>>

ReadLine ==
  /\ engine = "running" /\ read < Len(input)
  /\ WellFormed(input[read + 1])
  /\ outLines' = Append(outLines, Reprice(input[read + 1]))
  /\ read' = read + 1
  /\ UNCHANGED <<engine, input, results>>

\* Faulty: skips the line.
SkipLine ==
  /\ engine = "running" /\ read < Len(input)
  /\ ~WellFormed(input[read + 1])
  /\ read' = read + 1
  /\ UNCHANGED <<engine, input, outLines, results>>

\* `return 2`, or an exception main does not catch; the lines are not printed.
RefuseLine ==
  /\ engine = "running" /\ read < Len(input)
  /\ ~WellFormed(input[read + 1])
  /\ engine' = "failed"
  /\ outLines' = << >>
  /\ UNCHANGED <<input, read, results>>

\* A signal ends the engine: a status that is not 0, hence the same exception.
Killed ==
  /\ engine = "running"
  /\ engine' = "failed"
  /\ outLines' = << >>
  /\ UNCHANGED <<input, read, results>>

PrintAll ==
  /\ engine = "running" /\ read = Len(input)
  /\ results' = outLines
  /\ engine' = "exited"
  /\ UNCHANGED <<input, read, outLines>>

\* The caller has its results; its next call starts another process.
Returned == engine = "exited" /\ engine' = "none" /\ UNCHANGED <<input, read, outLines, results>>

Step == ReadLine \/ RefuseLine \/ Killed \/ PrintAll

-----------------------------------------------------------------------------

\* What run_attribution_batch promises: every request answered, in the order
\* given, or an exception and nothing, however the engine reads, prints or dies.
\* The callers pair answers with requests by position and never look at the id.
Batch == INSTANCE AbstractBatch WITH
  Answer <- Reprice, Acceptable <- WellFormed,
  call <- engine, asked <- input, answers <- results

BatchSpec == Batch!Spec
=============================================================================
