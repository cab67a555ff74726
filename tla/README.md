# A TLA+ model of the intraday position and P&L attribution service

The repository keeps two small books, one of options and one of commodity
forwards. Each has a seeded generator, a SQLite ledger with idempotent ingest, a
replay check, and a P&L attribution; the options attribution is done by a C++
engine reached through a subprocess. This directory models the parts whose
correctness is a matter of order, duplication, interruption and bookkeeping,
model-checks them on small instances with TLC, and proves with TLAPS, for instances
of every size, all the safety properties the passing runs check: both ledgers, the cost
basis, both attributions, the engine bridge, the market, the sequential order check and
the replays of both books from generator to report.

## 1. Inventory

| component | source | state | operations | modules |
|---|---|---|---|---|
| options ledger | `pipeline/ingest.py`, `sql/schema.sql`, `pipeline/db.py` | `fills` and `positions` tables, one connection with an open transaction, the locals of the running call | `ingest_stream`, `rebuild_positions`, `final_positions` | `MessageStore`, `FillLedger`, `CanonicalFills`, `FillReference`, `CostBasis`, `AbstractLedger`; `FillLedgerProofs` |
| commodity ledger | `pipeline/commodity_ingest.py` | `commodity_deals`, `commodity_positions` | the same three | `MessageStore`, `DealLedger`, `CanonicalDeals`, `DealReference`, `AbstractLedger`; `DealLedgerProofs` |
| cost basis | `_fold` in `pipeline/ingest.py` | one position | fold one fill | `CostBasis`, `CostBasisTrail`; `CostBasisTrailProofs` |
| fill generator | `build_canonical_fill_stream` | sequence counters, the stream | draw a fill | `FillStream`; `FillReplayProofs` |
| deal generator | `build_deal_blotter` | sequence counters, open deals, the blotter | new, amend, cancel | `DealBlotter`; `DealReplayProofs` |
| replay harness | `pipeline/replay.py`, `pipeline/commodity_replay.py`, two scripts | the working lists | duplicate, shuffle by windows; ingest twice and compare | `Replay`, `FillReplay`, `DealReplay`; `FillReplayProofs`, `DealReplayProofs` |
| idempotency demonstrations | `scripts/run_idempotent_check.py`, `scripts/run_commodity_idempotent_check.py` | three given streams | ingest each on a fresh ledger | `FillReplay`, `DealReplay`; `FillReplayProofs`, `DealReplayProofs` |
| forward curves | `pipeline/commodity_simulator.py` | curve sessions per commodity | draw a session, interpolate a mark | `ForwardCurve`; `ForwardProofs` |
| forward attribution | `pipeline/commodity_attribution.py` | `idx`, `deal_volume`, `v0`, rows | attribute one session of one instrument; sum up | `SessionAttribution`, `ForwardAttribution`, `ResidualRatios`; `ForwardProofs` |
| options market simulator | `build_universe`, `build_sessions` in `pipeline/simulator.py` | the instruments; the path of spot, volatility and maturity | list an instrument, draw a session | `OptionSessions`; `SequentialOrderProofs` |
| engine bridge | `pipeline/cpp_bridge.py`, `cpp/src/attribution_main.cpp` | the subprocess, its input and its unprinted output | one batch | `EngineBatch`, `AbstractBatch`, `TaylorTerms`; `SequentialOrderProofs` |
| Black-Scholes pricer | `cpp/src/black_scholes.cpp` | - | `price_and_greeks`, `price` | `BlackScholes` |
| options attribution run | `pipeline/attribution.py` and two scripts that print | requests, metadata, rows | one batch, join, sum up | `OptionsAttribution`, `ResidualRatios`; `SequentialOrderProofs` |
| sequential order check | `pipeline/sequential_order_check.py` and its script | three batches joined by position | - | `SequentialOrderCheck`, `TaylorTerms`; `SequentialOrderProofs` |
| attribution tables | `sql/schema.sql` | two tables nobody writes or reads | - | not modelled |

How they interact: a generator returns a list, `perturb_stream` returns another
list, `ingest_stream` writes a list into a table under one transaction,
`rebuild_positions` derives a second table from the first under another one, and
the scripts compare what `final_positions` reads. The forward attribution reads
the same blotter without going through the ledger; the options attribution and
the sequential order check send the same market to the engine in one batch, the
latter two batches more. Everything is sequential code
in one process; what is concurrent is the engine's subprocess, and what can
intervene is the end of a process (and SQLite's rollback) between two statements.

What is hard in it, and where it bites, is listed as "hazards" in
`PROJECT.json`: redelivery and reordering of messages, a fold that does not
commute, a message that amends another one and shares its id, a table that is
emptied before it is refilled, indices and volumes threaded by hand through
nested loops, results joined by position, a batch that fails in the middle, a
degenerate branch of the pricer, Taylor terms whose errors a residual absorbs, and
sums in which errors could cancel.

## 2. The modules

**MessageStore** is the part that is the same code for both books: a message
table keyed by `(id, sequence)`, a positions table, what is committed
(`savedMessages`, `savedPositions`) and what the connection sees inside its
transaction (`messages`, `positions`). Its actions are the turns of
`ingest_stream`'s loop: `AcceptMessage` (the INSERT succeeds, `received_at` is
the index in this call's list), `RejectMessage` (`IntegrityError`, for a taken key *or*
an empty NOT NULL column), `CommitStream`, and `Restart`, the process ending in
the middle of a call. `Restart` reconnects to a database file, which
`db.connect` accepts; the scripts themselves use `:memory:`
(`ConnectInMemory`).

**FillLedger** adds `rebuild_positions`, one action per statement of its loops:
`BeginRebuild` (DELETE, SELECT DISTINCT), `SelectInstrument`, `FoldRow` (ORDER BY
sequence), `InsertPosition`, `CommitRebuild`. A position is what `_fold`
computes (**CostBasis**), with the average price as an exact fraction.
**FillReference** says what the table must be without any order of arrival: walk
the sequence numbers upwards and fold whatever fill carries each one.
**CanonicalFills** defines the two facts about producers which the database does not
enforce and the rebuild relies on (`Canonical`): one content per key, and no two fills of an
instrument with one sequence number. They are hypotheses of the ledger's theorems;
TLC evaluates them on the ledger's own instance (`CanonicalAssumption`), and
`StreamIsCanonical` is why the generator provides them for every stream.

**DealLedger** is the commodity counterpart, with its two loops: last write per deal
wins, a snapshot per session, then the snapshots carried forward.
**DealReference** adds up, at each session, the last word on every deal.
**CanonicalDeals** defines what this rebuild relies on (`Canonical`): one content per
key, no two messages of an instrument with one sequence number, and sessions that
never go back as the numbers go up. As for the options, it is the hypothesis of the
theorems, TLC evaluates it on the ledger's instance, and `BlotterIsCanonical` is why
the generator provides it. The module also states the invariant of the proof.

**AbstractLedger** is what both promise: a set of accepted messages that grows
by whole batches, and published positions that are always a complete function of
an earlier set. Both ledgers implement it with
`ledger <- Payloads(savedMessages), published <- savedPositions`.

**FillReplay** and **DealReplay** compose a generator (**FillStream**,
**DealBlotter**), **Replay** (`perturb_stream`: any set of indices of the
rounded size, any order inside each window) and a ledger into the two replay
check scripts. The streams to be compared are a variable (`inputs`), so that the
two idempotency scripts are the same composition with another beginning
(`Demonstrate`): a message once, several times in a row, and interleaved with
another one. Every message that the generator can draw is the ledger's set of messages, and
`Seq` of it the streams. **CostBasisTrail** folds any sequence of fills and remembers it.

**ForwardCurve** draws the curves in exact integers: draws are multiplied by
the number of grid points so that their mean is an integer, and marks by `Scale`
so that an interpolated value is one. **SessionAttribution** is
`attribute_session`; **ForwardAttribution** builds curves and blotter (with trade
prices off the session's opening mark) and walks the instruments and sessions. The
code's `sorted(..., key=sequence)` is the enumeration in which every message stands
after exactly those with smaller numbers (`DealsInOrder`), which is the same list, and
one a proof can use.

`Summarise` is the aggregation at its end, with the operators of
**ResidualRatios**, which are also those of the options attribution. All sums over
rows, deals and grid points are the community modules' `SumFunction`.

**OptionSessions** lists calls and puts in turn and builds their paths: a session
opens where the last one closed, its spot moves by a parameter (`Moved`: the
exponential of the code) of the opening state, the draw and the shock of a gap
day, its volatility by a clamped step, its maturity down to a floor.
**BlackScholes** is `price_and_greeks`: the branch for expired or degenerate
inputs is the code's, the closed form a parameter that yields a price and its
sensitivities. **EngineBatch** is one `run_attribution_batch`: lines are read and
repriced one by one (`Reprice`: the P&L, the residual of the four basic terms, the
two cross terms, the residual of all six) and printed together at the end, so that
a malformed line, a killed engine or a missing binary yields an exception and no
answers. **AbstractBatch** is what it promises its callers, without a process or a line:
a batch is answered whole, every request at its own position, or there is an exception
and no answer. `EngineBatch` implements it with
`call <- engine, asked <- input, answers <- results`.
**OptionsAttribution** composes the three into `run_full_attribution`,
with a second kind of client that calls the bridge with requests of its own, as
the tests do (expired options, malformed lines). **SequentialOrderCheck** is the
script that leaves off where `run_full_attribution` sums up and sends two more
batches to the same engine; it holds the specification that is run.
**TaylorTerms** states the two properties about the figures of a line, which compare
them with an expansion by hand. The closed form may be any price that is smooth in one
variable at a time (`SmoothBetween`): every change is what the Greeks at its beginning
say and a term of the next order, with a bound (`Roughness`) that depends on the contract and
on the volatility reached. Part of the price can be given as a polynomial of third order
(`CubicForm`, with coefficients that depend on contract and maturity in any way, all of
them zero if one likes); the statements follow that part exactly and bound the `Rest`.

**RecursionAndSums** holds no model but the mathematics the proofs share (section 5),
and each module named `...Proofs` the theorems about the module it extends.

Modules named `MC...` hold the values of the constants for TLC. An operator whose
comment begins with "Faulty" is a plausible bug in the definition after it; it is
used only to confirm that a property notices the bug (`mutants` in
`PROJECT.json`).

## 3. What is checked

| run | shows | bounds |
|---|---|---|
| `FillLedger.cfg` | `OneRowPerKey`, `DeliveredIsStored`, `CountsDescribeTable`, `RebuildIsReference`, `FinalIsNetPosition`, `RedeliveryIsNoOp`; the ledger implements `AbstractLedger` (`LedgerSpec`); `IInv`, which contains the type invariant, holds; every call returns | 2 instruments, 4 complete fills and one without a price, every list of up to 3 complete fills, any number of calls and crashes |
| `DealLedger.cfg` | `TypeOK`, `DeliveredIsStored` (exactly once), `RebuildIsReference`, `FinalIsNetOpenVolume`; the ledger implements `AbstractLedger`; every call returns | 2 instruments, 3 deals with an amend and a cancel, a quiet session, every list of up to 2 messages, any number of calls |
| `FillReplay.cfg` | `BitIdentical`, `StatsMatch`, `StreamIsCanonical`, `MultisetPreserved`, `OvertakingIsBounded` | 2 instruments, 2 sessions of up to 2 fills each, window 2, 12 % duplicates: 4 to 8 fills and at most one copy; 1 or 3 repeats of a fill |
| `DealReplay.cfg` | `BitIdentical`, `ResultIsOpenBook`, `StatsMatch`, `BlotterIsCanonical` | 1 instrument, 2 sessions of up to 2 messages, window 3, 25 % duplicates; 1 or 3 repeats of a deal |
| `CostBasisTrail.cfg` | `BasisWithinPricesPaid`, `SplitFillsAgree` | 4 fills of size 1 or 2, 3 prices |
| `ForwardAttribution.cfg` | `FullyExplained`, `VolumesAreNetPositions`, `PnlAddsUp`, `LevelIsParallelMove`, no early end | 1 commodity, 2 instruments, 2 sessions of up to 2 messages, 3 grid points, 4 moves per session |
| `SequentialOrder.cfg` | the market: `MarketStaysPriced`; the bridge: it implements `AbstractBatch` (`BatchSpec`), `EveryMoveOrException`; the engine's figures: `ResidualIsWhatTaylorOmits`, `ExpiredMovesAreDelta`; the options attribution: `PnlTelescopes`, `SummaryHidesNothing`, `ShocksStayInGapSessions`; the order check: `RowsBelongToTheirMoves`, `DiscrepancyIsVanna` | a call and a put (2 listings), 3 sessions each with 3 possible draws; pairs of direct requests out of 20, one of them malformed; the engine may be missing or killed at any time |

The last run is one specification with three programs in it, because all of them
start from the same market or the same engine. The two properties about the
figures of a line need a price one can expand by hand. The instance chooses
coefficients (`MCCoefficient`, `MCTheta`) with which calls and puts have all six
sensitivities and third-order terms of both kinds; its calls are exactly that polynomial
(`Roughness` 0), its puts have something on top that no Greek sees (`Roughness` 1, and TLC
evaluates `SmoothnessAssumption`, that the estimates hold for both). Taylor's theorem then says
which terms are left out. `ResidualIsWhatTaylorOmits` compares the engine's
residuals with those (`Omitted`: the polynomial's third order, and what the passing of time
does beyond the opening theta), for calls exactly, for puts within their bound; a missing half,
a wrong sign or a Greek of the wrong state would show, while the component sums the tests check (terms and residual
add up to the P&L) hold by the definition of the residual. `DiscrepancyIsVanna` says that the
two orders of repricing differ by the vanna term and by third-order terms in
which both moves occur.
`PnlTelescopes` ties the market's carry-over, the join by position and
the engine together: the P&Ls of an instrument add up to its last price less its
first. `SummaryHidesNothing` is about the headline figures: with no session
over 1 %, at most 1 % of the book's gross P&L is unexplained, except for what the
code itself hides, a session without gross P&L: its ratio is zero whatever its residual
is (`attribution.py:124`). The property names that exemption and so describes the behaviour; it
would not object to it. `ExpiredMovesAreDelta` describes
the degenerate branch completely, the strike included.
`RebuildIsReference` says in which order a table is folded, `FinalIsNetPosition` what it
then contains, in terms of no order at all: the sum of an instrument's quantities, and an
average between the lowest and the highest price of the fills in the direction held.

Why the bounds are enough to be telling: the fills of `FillLedger` buy, flip to
short and add to the short, so any other order of folding gives another average;
three deliveries allow a duplicate inside a call, a reversal, and both across
calls. The deals have an amend that could be taken for a duplicate, a cancel, a
session with no message for an instrument that has later ones and an instrument
that stops early. The replays exceed one window, so that a message can be
duplicated across a window boundary; both have two sessions, so that a numbering that starts
again with a session would show (`StreamIsCanonical`, `BlotterIsCanonical`). `MultisetPreserved`
does not repeat the rounding of the duplicate share but says what it must come to: no other number
of copies is nearer to the percentage asked for. The two forward instruments roll over a grid
point and out of the clamped range. In the options market the maturity reaches its
floor and the volatility both clamps, session 2 is calm and the other two gap for
one instrument only, moves of spot and volatility go with and against each other
or leave the spot where it is, and both kinds of summary (with and without a session
over 1 %) occur. One repeat and three stand for 1, 10 and 1000: after the
second copy the ledger is in the state it stays in. Small as they are, each instance is enough
for every faulty variant listed to be noticed.

`CountsDescribeTable` compares with `savedMessages`, which is the table at the
beginning of the call because a call begins with nothing uncommitted.
`RedeliveryIsNoOp` and `LedgerSpec` are about committed data, that is, about what
another connection or the next process can see.

**Fairness.** `CallsReturn` assumes weak fairness of the
steps of a call that has begun. The code is sequential and nothing in a call
waits: a process that is not killed executes the next statement. No fairness is
assumed of beginning a call or of a crash. A crash ends the call, so it cannot
keep `CallsReturn` from holding. `EveryMoveOrException` assumes weak fairness of
the whole program: script and engine, of which the script only waits for the
other, always take their next step, or the engine is killed.

The replay compositions state safety only: that a call returns is
checked on the ledgers themselves, under more interleavings.

`CHECK_DEADLOCK FALSE` is given only where the modelled program ends (the replay
checks, the trail of bounded length, the sequential order check).
`ForwardAttribution` checks deadlock instead of a liveness property: it has an
explicit step for having returned, so that a state in which the walk stops short
would be an error.

## 4. Where the documentation and the code disagree

Five runs check a sentence of the repository and find it violated by the modelled code.

* `FalseMeansPresent`: `ingest_fill` returns False for *any* integrity error.
  A fill whose price is None, or NaN, which SQLite stores as NULL, is dropped and
  counted as a duplicate, although no such key is stored (`ingest.py:39-40`
  against `48`).
* `ReceivedAtIsMonotonic`: `received_at` restarts at 0 with every call
  (`schema.sql:17` against `ingest.py:57`).
* `RowPerSession`: `positions` holds one row per instrument, not one per session
  (`schema.sql:22-23` against `ingest.py:98-102`).
* `FilledForward`: commodity positions are carried forward only to the
  instrument's own last session (`commodity_ingest.py:81-85` against `107-109`).
* `CrossTermsNeverWorsen`: a docstring says that adding vanna and volga "cannot
  increase the exact reconstruction error for the same move"
  (`tests/test_cross_greek_attribution.py:31-33`). It can, where those terms
  offset what the expansion still omits (`attribution_main.cpp:109`). The
  instance's polynomial shows the mechanism; the code's own closed form does the
  same: a call of strike 95 and maturity 1 at rate 0.03 that moves from spot 100 and
  volatility 0.20 to 112 and 0.19 in 1/252 has residual -0.0756 and residual_full
  -0.1415. The test under that docstring compares one ratio over the default book,
  for which it holds.

None of them affects the numbers the scripts print, which use complete
messages, `final_positions` and sums over the whole book.

## 5. What is proved

The theorems are about the specifications as the runs use them, with the constants
left open. Where a theorem names a property, the run of section 3 checks that
property on its instance.

| module | theorems | property |
|---|---|---|
| `FillLedgerProofs` | `Invariance`, `TypeCorrect`, `KeysStayUnique`, `NothingIsLost`, `RebuildIsCorrect`, `FinalIsNet`, `CountsAreOfTheTable` | `IInv`, `TypeOK` (the first part of `IInv`), `OneRowPerKey`, `DeliveredIsStored`, `RebuildIsReference`, `FinalIsNetPosition`, `CountsDescribeTable` |
| | `RedeliveryChangesNothing`, `ImplementsLedger` | `RedeliveryIsNoOp` (an action property), `LedgerSpec` (the refinement) |
| `DealLedgerProofs` | `Invariance`, `TypeCorrect`, `NothingIsLost`, `RebuildIsCorrect`, `FinalIsNet`, `ImplementsLedger` | `IInv` of `CanonicalDeals`, `TypeOK`, `DeliveredIsStored`, `RebuildIsReference`, `FinalIsNetOpenVolume`, `LedgerSpec` |
| `FillReplayProofs` | `GeneratorNumbersItsFills`, `ReplayKeepsMessages`, `ReplayIsLocal`, `SameFillsSamePositions`, `CountsMatchTheDraw` | `StreamIsCanonical`, `MultisetPreserved`, `OvertakingIsBounded`, `BitIdentical`, `StatsMatch` |
| `DealReplayProofs` | `GeneratorNumbersItsDeals`, `SameDealsSameBook`, `CountsMatchTheDraw`, `ReplayReportsOpenBook` | `BlotterIsCanonical`, `BitIdentical`, `StatsMatch`, `ResultIsOpenBook` |
| `CostBasisTrailProofs` | `FoldType`, `SplitFill`, `TrailInvariant`, `AverageIsOfWhatIsHeld`, `PartsAgree` | `BasisWithinPricesPaid`, `SplitFillsAgree` |
| `ForwardProofs` | `LevelsAreParallel`, `VolumesAreThreaded`, `EarnedIsWorth`, `ComponentsExplainAll` | `LevelIsParallelMove`, `VolumesAreNetPositions`, `PnlAddsUp`, `FullyExplained` |
| `SequentialOrderProofs` | `ImplementsBatch`, `SimulatorStaysPriced`, `RowsAreOfTheirMoves`, `ExpiredMoves` | `BatchSpec` (the refinement), `MarketStaysPriced`, `RowsBelongToTheirMoves`, `ExpiredMovesAreDelta` |
| | `SessionsTelescope`, `SummaryIsHonest`, `ShocksStayInTheirGroup`, `DiscrepancyIsInteraction` | `PnlTelescopes`, `SummaryHidesNothing`, `ShocksStayInGapSessions`, `DiscrepancyIsVanna` |
| | `ResidualIsTheRemainder`, `NothingIsDropped` | `ResidualIsWhatTaylorOmits`, `NothingDropped` (the safety half of `EveryMoveOrException`) |

### The mathematics underneath

No rule of induction can be cited, because each takes an operator as its parameter.
`RecursionAndSums` derives what is needed from the existence of least elements of sets
of naturals (`LeastNat`): that a set which contains 0 and every successor of a
member is Nat (`NatsAreCounted`), the same for finite sets that grow by one element
(`FiniteSetsGrow`), and that a recursion on Nat defines the function it describes
(`RecursionDefines`). The second part is about `SumFunctionOnSet`: its value does not
depend on the order in which the library's iterator picks the elements
(`AnyOrder`, `SumsAgree`), it adds up over disjoint sets, groups and combinations,
telescopes, and compares. Every proof below that speaks of sums rests on it. The third
part is about lists some of whose messages are copied (`Expanded`, `Span`, `Reached`) and
which are then shuffled by windows (`Shuffled`, `WindowShuffles`): every message comes out
once or twice (`Delivered`, `AllDelivered`, `OneOrTwoCopies`), within bounds
(`DeliveredInBounds`). Both replays rest on it.

### The ledgers

"The table is the reference when the rebuild commits" is not inductive: it says
nothing about the rebuild under way. `IInv` of `FillLedger` adds (a) that
between calls nothing is uncommitted and that during a rebuild the stored fills
stay as they were committed; (b) `TablePart`: the rows written so far are
exactly the final rows of the instruments already done; (c) `FoldPart`: the rows
not folded yet are those above some sequence number `k`, and the accumulator is
the reference's running position at *every* such `k`. The quantification over all
such `k` is what carries the induction over the gaps in the numbering:
folding the least remaining row moves the accumulator from `Running[k]` to
`Running[k']`, and numbers no fill carries leave it as it is (`RunningSkips`).
For the refinement, `CommitStream` maps to `Deliver`, `CommitRebuild` to
`Publish`, and every other step, `Crash` included, to a stutter.

`FinalIsNet` leaves the order of folding behind. By induction over the sequence numbers
(`RunningAccounts`), the reference's running position accounts for the set of fills up to
each number (`Accounts`): its quantity is their sum (`Net`), and while it is not flat its
average lies between prices `Paid` in its direction. What one fold does to
both is `FillAccounts`; the branches of `_fold` behind it are lemmas of
`CostBasisTrailProofs`, taken over by INSTANCE (`FoldFacts`) because the ledger folds with
the same operator (`SameFold`).

The commodity ledger's reference is not a walk but a sum, so its `FoldPart` says what
the two maps under construction mean: `dealVolume` is the last word of the messages
folded so far on every deal, and each snapshot the net volume of those up to its
session. That a later fold leaves an earlier snapshot right is where
`SequencesOrder` (sessions never go back) is needed. `FillPart` says that the
loop that fills forward carries the net volume before the session it has come to;
`FinalIsNet` adds that no session after the last one changes it.

Assumptions: `StreamsAssumption` (streams are sequences of messages),
`MessagesAssumption` (complete messages carry numbers) and `MaxSequenceAssumption`, which
TLC evaluates in the runs of `MCFillLedger` and `MCDealLedger`. Hypothesis, about the
producers: `Canonical(Fills)` and `Canonical(Deals)`, evaluated there too
(`CanonicalAssumption`). The proofs use canonicity only of the messages that have
arrived (`CallsKeep`), which is what makes them usable in the compositions below, where
the set of all messages a generator could draw is far from canonical and each stream is.

### The replay of the fills

`BitIdentical` for the composition needs an invariant of each part and one of the script.

* `SourceInv`: the numbers given out stay within the allowance of the sessions so far
  (`WithinBudget`), so that every fill drawn is a member of `AllFills`; ids follow from
  instrument and number, numbers grow in stream order, sessions never go back.
* `ReplayInv`: after `k` messages the working list is `Reached(k)` long and the `j`-th message
  stands on the places `Span(j)`, one or two of them (`Expanded`); what has been shuffled is a
  permutation of the places before it in which no place is overtaken by one that is `Window` or
  more behind (`Shuffled`). `ShuffledGrows` shows that a window in any order keeps this, also
  the last, shorter one. Both copies of a message lie in its span and spans are ordered, so the two
  properties follow by counting places.
* `ScriptInv`: every stream to be compared is canonical (`InputsInv`: a part of a numbered list, or
  two given fills of different keys); each connection gets its stream, then its rebuild
  (`Progress`: the counts and positions held on to are those of `inputs[k]`); a table in
  the making holds what has been consumed of its stream (`Loaded`); and `IInv` of the ledger, which
  `CallsKeep` carries through every call. At the commit of a rebuild `RebuiltWhenDone` says that the
  positions are `Rebuilt` of the *set* of fills, so that equal sets report equal positions.

Assumptions: `UniverseAssumption` (instruments without repetition, integer trades),
`ReplayAssumption` (a percentage, a positive window), `CompleteAssumption` (no empty column),
evaluated in the run of `MCFillReplay`. The ledger's own assumptions are proved of the
composition's constants (`LedgerStreams`, `LedgerMessages`, `LedgerMaxSequence`).

### The replay of the deals

The perturbation and the script are as for the fills; the generator is not, since a
message may amend or cancel an earlier one, and there is one property more, that
the report is the generator's own open book. `SourceInv` says of the blotter

* `Turns`: numbers stay within the allowance of the sessions so far, and an instrument
  draws in every session, so that at the end each has a message;
* `Drawn`: the blotter is `WellNumbered`, and every amend or cancel concerns a deal that
  was opened before it and not cancelled since (`ConcernsOpen`);
* `Book`: the last word on every deal of an instrument is the volume at which the
  generator holds it open, and 0 if it no longer does (`Words`, `OpenBook`). A cancel thus
  stays a word, as in the ledger, where the generator forgets the deal.

The script's invariant is that of the fills, with the positions
`Rebuilt` of the set of messages by `RebuiltTable`; `Sent` adds that the blotter
sent is the finished one. `ReplayReportsOpenBook` then goes from the last row of an
instrument (`FinalRow`) to the net of all its messages, from there to the sum of the last
words (`LastWordsAddUp`), and drops the zeros of the cancelled deals (`NetIsOpen`,
`SumOverZeros`), which leaves the open volumes.

Assumptions: `UniverseAssumption` (instruments without repetition, integer volumes),
`ReplayAssumption` and `CompleteAssumption` (no name of the model is the empty column),
evaluated in the run of `MCDealReplay`. Those of the ledger are proved
(`LedgerStreams`, `LedgerMessages`).

### The cost basis

`SplitFill` is the algebra: a fill in two parts of one sign and price leaves the
position the whole leaves, in all branches of `_fold`, as fractions cross-multiplied.
`TrailInv` is why averages stay between the prices paid *for what is still held*: the
position is the net of the trail, and since the last fill that opened it (from flat or
by flipping the sign) only fills of its own sign entered its average.
Assumption: `TrailAssumption` (integer quantities, prices in Nat), evaluated in the run of
`MCCostBasisTrail`.

### The forward book

`ForwardInv` has three parts. `CurveInv`: the curves are typed, each opens where the
one before closed, and the shape move of a session adds nothing to the sum over the
grid because its mean is taken out. `BlotterInv`: the blotter numbers its messages
upwards without sessions going back, and every deal keeps its instrument. `WalkInv`:
after `day` sessions of an instrument, `idx` messages of its ordered list are taken,
which are exactly those of the sessions before (`First(DealsInOrder, idx) = Upto`);
the threaded volumes are their last words; and every row already written is about its
own session. From it, by `Booked` (one message after the other) and sums over deals,
follow the four properties, `FullyExplained` by the identity that
the volume effects and the level, shape and roll effects are a partition of the P&L.
Assumptions: `CurveAssumption`, `DrawsAssumption`, `BookAssumption` (integers, instruments without
repetition, a scale all grid gaps divide, so that interpolation is exact), evaluated in the run of
`MCForwardAttribution`.

### The options programs

`BatchInv`: while the engine runs, the lines read so far are well formed and the lines
kept for printing answer exactly them. It suffices for `ImplementsBatch`, without any
assumption on requests or prices: `PrintAll` maps to `Return`; `RefuseLine`, `Killed` and
`NotBuilt` to `Raise`; a client's start of a batch to `Ask` and its use of the results to
`Take`; `ReadLine` and everything else to a stutter. `MarketInv` types the
market and bounds its length. `StageInv` says, stage by stage, which requests the engine was given and
what the client holds; it makes `RowsAreOfTheirMoves` follow. `PathInv` places each
session in the book (instrument `(k - 1) \div NSessions`, session `(k - 1) % NSessions`, open where
the last one closed) and ties rows and summary to the market. `RowsInBook` is what the
properties of the summary use. `DoneInv` is what `NothingIsDropped` needs besides: a
direct call is made without a market, and rows exist only when a program is done.

`ImplementsBatch`, `RowsAreOfTheirMoves` and `NothingIsDropped` need nothing more. The other
seven theorems have hypotheses on the pricer or the path, which are parameters of
the model because the code's are real-valued:

* `PositiveMoves`: a move leaves a positive spot positive. The code multiplies by an
  exponential.
* `IntegralPrices`, `IntegralGreeks`: the closed form yields numbers of the model's kind,
  integers, as the model's P&L arithmetic needs.
* `SmoothPrices` (only `ResidualIsTheRemainder` and `DiscrepancyIsInteraction`): prices and
  Greeks are integers, second derivatives even ones (`WholeForms`), and the one-variable
  estimates of `SmoothBetween` hold between any two states of positive spot, volatility and
  maturity. Black-Scholes satisfies it, read in units of a grid as fine as one likes, with all
  coefficients zero and everything in the bound: at a positive rate, on spots, volatilities and
  maturities of at least one unit and up to any given volatility its third derivatives in
  spot and volatility and its second ones in time are bounded, and the rounding of price and
  Greeks to the grid is part of the bound too, since a move that is not zero is at least one unit. The
  theorems then say that the residual is of third order in the moves (second in time), the order
  discrepancy the vanna term but for third order. The coefficients are there
  to say more of a price that has a polynomial part, such as the instance's: that part is followed
  exactly, and with `Roughness` 0 both statements are equations.

The proof takes the move one variable at a time, spot, volatility, then time
(`RemainderOfMove`): six estimates, two of them multiplied by another move (`AbsProduct`), add up to
the two bounds. `CubicExpansion` and `CubicInteraction` do the polynomial part, and
`RestIsWhole` splits the engine's figures between the two.

The instance's `MCMoved`, `MCClosedForm` and `MCRoughness` are such a path and such a price.
Assumptions:
`SessionsAssumption`, `MarketAssumption` (positive floors, the cap not below the floor),
`DrawsAssumption`, `ListingsAssumption` (positive listings: strike, spot, volatility and maturity) and `DirectCallsAssumption`
(requests are lists of integers), evaluated in the run of `MCSequentialOrderCheck`.

## 6. What is model-checked only

* Liveness, `CallsReturn` of both ledgers and `EveryMoveOrException`: neither ENABLED nor
  fairness is in the prover's reach. Of the latter, that a program which ends has
  lost no row is proved (`NothingIsDropped`); that it ends is not. The
  deadlock check of `ForwardAttribution` likewise.
* That the code's disagreements of section 4 are reachable.

## 7. What is not modelled

* The Black-Scholes closed form, the exponential spot move, the generators'
  distributions, and the seeds: real-valued arithmetic. A draw is a choice, the
  closed form and the move are parameters. What the branch for zero volatility
  returns at positive maturity (the intrinsic value, not discounted) is modelled,
  whether it is the limit of the closed form is not a question for integers.
* The single Taylor terms and Greeks on an answer line, which the clients only
  carry along, and the means beside the maxima of the gap summary.
* Rounding of floats. Averages are fractions, volumes and curve prices integers;
  "bit-identical" becomes "equal", by the argument the repository itself uses:
  both runs perform the same operations in the same order.
* Timestamps, directions, ids as strings (pairs in the model), printing, the
  Makefile, the choice of `wsl.exe` on Windows.
* Several connections writing at once: the repository has one producer and one
  consumer in one process (README, "Why SQLite").
* `pnl_attribution` and `commodity_pnl_attribution`: created, never used.

## 8. Plan

Built so far, in this order: the message store with the options ledger and its
abstract specification; the commodity ledger; the replay compositions; the cost
basis; the forward curve and attribution; the engine bridge with its multi-batch
client; the options market, the pricer's degenerate branch, the options attribution
with both summaries, the idempotency scripts; the proofs of section 5. What remains to
be modelled is listed in section 7.

Every invariant and action property of the passing runs is a theorem, and so are the three
refinements (both ledgers, and the engine bridge). Worth doing next is to shorten the longest
proofs (`SequentialOrderProofs`, `DealReplayProofs`) by lemmas they share.
