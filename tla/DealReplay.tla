----------------------------- MODULE DealReplay -----------------------------
(***************************************************************************)
(* scripts/run_commodity_replay_check.py and                               *)
(* scripts/run_commodity_idempotent_check.py: the streams of a generated   *)
(* and perturbed blotter, or given deals repeated and interleaved, each    *)
(* ingested and rebuilt on a fresh in-memory ledger and compared.          *)
(* Composes DealBlotter, Replay and DealLedger.                            *)
(***************************************************************************)
EXTENDS Integers, SequencesExt, SqlNull

CONSTANTS
  Universe, NSessions, MaxActions, Volumes, Changes,
  Repeats,    \* how often the other script delivers one message in a row
  DupPercent, Window,
  SomePrice   \* any trade price: no price reaches the comparison

ASSUME ReplayAssumption == DupPercent \in 0 .. 100 /\ Window \in Nat \ {0}
\* The other script numbers two deals of the first instrument.
ASSUME UniverseAssumption ==
  /\ Universe \in Seq(Range(Universe)) /\ Universe # << >> /\ IsInjective(Universe)
  /\ NSessions \in Nat \ {0} /\ MaxActions \in Nat \ {0, 1}
  /\ Volumes \subseteq Int /\ Changes \subseteq Int /\ Repeats \subseteq Nat

VARIABLES
  session, turn, left, numbered, openDeals, deals,
  canonical, dupIndices, withDups, copied, perturbed, phase,
  savedMessages, savedPositions, messages, positions,
  pc, stream, i, accepted, duplicates,
  todo, inst, rows, dealVolume, snapshot, s, running,
  stage,    \* "generate", "perturb", "compare"
  inputs,   \* the streams to compare, each ingested on a connection of its own
  conns,    \* connections opened: the k-th is for the k-th stream
  stats,    \* what ingest_stream returned on each
  results   \* what final_positions returned on each

Columns == {"id", "sequence", "action", "instrument", "volume", "session"}

MaxSequence == NSessions * MaxActions

AllDeals == [id : Range(Universe) \X (1 .. MaxSequence), sequence : 1 .. MaxSequence,
             action : {"new", "amend", "cancel"}, instrument : Range(Universe),
             volume : Int, trade_price : {SomePrice, NoValue}, session : 0 .. NSessions - 1]

Source == INSTANCE DealBlotter
Perturbation == INSTANCE Replay
Conn == INSTANCE DealLedger WITH
          Messages <- AllDeals, Streams <- Seq(AllDeals), Required <- Columns

\* The generator leaves no column empty but the price, which no table requires.
ASSUME CompleteAssumption ==
  /\ NoValue \notin Range(Universe) /\ NoValue \notin Range(Universe) \X (1 .. MaxSequence)
  /\ NoValue \notin Int /\ NoValue \notin {"new", "amend", "cancel"}

blotter == <<session, turn, left, numbered, openDeals, deals>>
replay == <<canonical, dupIndices, withDups, copied, perturbed, phase>>
cursor == <<todo, inst, rows, dealVolume, snapshot, s, running>>
ledger == <<savedMessages, savedPositions, messages, positions,
            pc, stream, i, accepted, duplicates, cursor>>
script == <<stage, inputs, conns, stats, results>>
vars == <<blotter, replay, ledger, script>>

Init == /\ Source!Init /\ Perturbation!Init /\ Conn!Init
        /\ stage = "generate" /\ inputs = << >> /\ conns = 0 /\ stats = << >> /\ results = << >>

Generate ==
  /\ stage = "generate"
  /\ \/ Source!DrawCount
     \/ Source!NewDeal(SomePrice)
     \/ Source!AmendDeal(NoValue)
     \/ Source!CancelDeal(NoValue)
  /\ UNCHANGED <<replay, ledger, script>>

StartPerturbing ==
  /\ stage = "generate" /\ Source!Finished
  /\ Perturbation!Start(deals)
  /\ stage' = "perturb"
  /\ UNCHANGED <<blotter, ledger, inputs, conns, stats, results>>

Perturb ==
  /\ stage = "perturb"
  /\ Perturbation!Next
  /\ IF phase' = "perturbed"
     THEN stage' = "compare" /\ inputs' = <<canonical, perturbed'>>
     ELSE UNCHANGED <<stage, inputs>>
  /\ UNCHANGED <<blotter, ledger, conns, stats, results>>

Given(n, v) ==
  [id |-> <<Universe[1], n>>, sequence |-> n, action |-> "new", instrument |-> Universe[1],
   volume |-> v, trade_price |-> SomePrice, session |-> 0]

\* The other script: a deal delivered once and several times over, then
\* interleaved with another one.
Demonstrate ==
  /\ stage = "generate" /\ Source!Init
  /\ \E v, w \in Volumes, n \in Repeats :
       LET deal == Given(1, v)
           other == Given(2, w)
       IN  inputs' = <<<<deal>>, [k \in 1 .. n |-> deal], <<deal, other, deal, deal, other>>>>
  /\ stage' = "compare"
  /\ UNCHANGED <<blotter, replay, ledger, conns, stats, results>>

Connect ==
  /\ stage = "compare" /\ conns < Len(inputs) /\ Len(results) = conns
  /\ conns' = conns + 1
  /\ Conn!ConnectInMemory
  /\ UNCHANGED <<blotter, replay, cursor, stage, inputs, stats, results>>

StartIngest ==
  /\ Len(stats) < conns
  /\ Conn!BeginIngest(inputs[conns])
  /\ UNCHANGED <<blotter, replay, script>>

Ingest ==
  /\ Conn!IngestStep
  /\ stats' = IF pc' = "idle"
              THEN Append(stats, [accepted |-> accepted, duplicates |-> duplicates])
              ELSE stats
  /\ UNCHANGED <<blotter, replay, stage, inputs, conns, results>>

Rebuild ==
  /\ Len(results) < Len(stats)
  /\ Conn!Rebuild
  /\ results' = IF pc' = "idle"
                THEN Append(results, Conn!FinalPositions(positions)) ELSE results
  /\ UNCHANGED <<blotter, replay, stage, inputs, conns, stats>>

Compared == stage = "compare" /\ Len(results) = Len(inputs)

Next == \/ Generate \/ StartPerturbing \/ Perturb \/ Demonstrate
        \/ Connect \/ StartIngest \/ Ingest \/ Rebuild

Spec == Init /\ [][Next]_vars

-----------------------------------------------------------------------------

BlotterIsCanonical == Source!BlotterIsCanonical

\* The claim of the README's Extension: the book comes out equal from the
\* canonical blotter and from its duplicated, shuffled replay, amends and
\* cancels that overtake the deal they concern included.
BitIdentical ==
  Compared =>
    \A j, k \in DOMAIN inputs :
      Range(inputs[j]) = Range(inputs[k]) => results[j] = results[k]

\* The producer and the ledger agree on the book: after a replay the volume of
\* every instrument in each result is the sum of the deals the generator still
\* held open.
ResultIsOpenBook ==
  canonical # << >> =>
    \A k \in DOMAIN results :
      {<<p.instrument, p.quantity>> : p \in results[k]} =
      {<<x, SumFunction(openDeals[x])>> : x \in Range(Universe)}

\* Every message is accepted once on every connection, although all messages of
\* a deal share its deal_id; in the replay the duplicates are the drawn ones.
StatsMatch ==
  Compared =>
    /\ \A k \in DOMAIN inputs :
         LET distinct == Cardinality(Range(inputs[k]))
         IN  stats[k] = [accepted |-> distinct, duplicates |-> Len(inputs[k]) - distinct]
    /\ inputs[1] = canonical => stats[2].duplicates = Cardinality(dupIndices)
=============================================================================
