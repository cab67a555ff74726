----------------------------- MODULE FillReplay -----------------------------
(***************************************************************************)
(* Two scripts that ingest and rebuild streams on fresh in-memory ledgers  *)
(* and compare: scripts/run_replay_check.py generates a canonical stream   *)
(* and perturbs it, scripts/run_idempotent_check.py repeats and            *)
(* interleaves given fills.  The modules of the parts are composed; the    *)
(* scripts' own state is how far they are (stage), the streams to compare  *)
(* and the results they hold on to.                                        *)
(***************************************************************************)
EXTENDS Integers, SequencesExt, SqlNull

CONSTANTS
  Universe, NSessions, MaxFills, Trades,
  Repeats,    \* how often the other script delivers one message in a row
  DupPercent, Window

ASSUME ReplayAssumption == DupPercent \in 0 .. 100 /\ Window \in Nat \ {0}
\* The other script numbers two fills of the first instrument.
ASSUME UniverseAssumption ==
  /\ Universe \in Seq(Range(Universe)) /\ Universe # << >> /\ IsInjective(Universe)
  /\ NSessions \in Nat \ {0} /\ MaxFills \in Nat \ {0, 1}
  /\ Trades \in [Range(Universe) -> SUBSET (Int \X Int)]
  /\ Repeats \subseteq Nat

VARIABLES
  session, turn, left, numbered, fills,
  canonical, dupIndices, withDups, copied, perturbed, phase,
  savedMessages, savedPositions, messages, positions,
  pc, stream, i, accepted, duplicates, todo, inst, rows, acc,
  stage,    \* "generate", "perturb", "compare"
  inputs,   \* the streams to compare, each ingested on a connection of its own
  conns,    \* connections opened: the k-th is for the k-th stream
  stats,    \* what ingest_stream returned on each
  results   \* what final_positions returned on each

Columns == {"id", "sequence", "instrument", "quantity", "price", "session"}

MaxSequence == NSessions * MaxFills

AllTrades == UNION Range(Trades)

AllFills == [id : Range(Universe) \X (1 .. MaxSequence), sequence : 1 .. MaxSequence,
             instrument : Range(Universe), quantity : {t[1] : t \in AllTrades},
             price : {t[2] : t \in AllTrades}, session : 0 .. NSessions - 1]

Source == INSTANCE FillStream
Perturbation == INSTANCE Replay
Conn == INSTANCE FillLedger WITH
          Messages <- AllFills, Streams <- Seq(AllFills), Required <- Columns

\* The generator leaves no column empty.
ASSUME CompleteAssumption == \A m \in AllFills : Conn!Storable(m)

source == <<session, turn, left, numbered, fills>>
replay == <<canonical, dupIndices, withDups, copied, perturbed, phase>>
cursor == <<todo, inst, rows, acc>>
ledger == <<savedMessages, savedPositions, messages, positions,
            pc, stream, i, accepted, duplicates, cursor>>
script == <<stage, inputs, conns, stats, results>>
vars == <<source, replay, ledger, script>>

Init == /\ Source!Init /\ Perturbation!Init /\ Conn!Init
        /\ stage = "generate" /\ inputs = << >> /\ conns = 0 /\ stats = << >> /\ results = << >>

Generate ==
  /\ stage = "generate"
  /\ Source!Next
  /\ UNCHANGED <<replay, ledger, script>>

StartPerturbing ==
  /\ stage = "generate" /\ Source!Finished
  /\ Perturbation!Start(fills)
  /\ stage' = "perturb"
  /\ UNCHANGED <<source, ledger, inputs, conns, stats, results>>

Perturb ==
  /\ stage = "perturb"
  /\ Perturbation!Next
  /\ IF phase' = "perturbed"
     THEN stage' = "compare" /\ inputs' = <<canonical, perturbed'>>
     ELSE UNCHANGED <<stage, inputs>>
  /\ UNCHANGED <<source, ledger, conns, stats, results>>

Given(n, trade) ==
  [id |-> <<Universe[1], n>>, sequence |-> n, instrument |-> Universe[1],
   quantity |-> trade[1], price |-> trade[2], session |-> 0]

\* The other script: a fill delivered once and several times over, then
\* interleaved with another one.
Demonstrate ==
  /\ stage = "generate" /\ Source!Init
  /\ \E t, u \in Trades[Universe[1]], n \in Repeats :
       LET fill == Given(1, t)
           other == Given(2, u)
       IN  inputs' = <<<<fill>>, [k \in 1 .. n |-> fill], <<fill, other, fill, fill, other>>>>
  /\ stage' = "compare"
  /\ UNCHANGED <<source, replay, ledger, conns, stats, results>>

Connect ==
  /\ stage = "compare" /\ conns < Len(inputs) /\ Len(results) = conns
  /\ conns' = conns + 1
  /\ Conn!ConnectInMemory
  /\ UNCHANGED <<source, replay, cursor, stage, inputs, stats, results>>

StartIngest ==
  /\ Len(stats) < conns
  /\ Conn!BeginIngest(inputs[conns])
  /\ UNCHANGED <<source, replay, script>>

Ingest ==
  /\ Conn!IngestStep
  /\ stats' = IF pc' = "idle"
              THEN Append(stats, [accepted |-> accepted, duplicates |-> duplicates])
              ELSE stats
  /\ UNCHANGED <<source, replay, stage, inputs, conns, results>>

Rebuild ==
  /\ Len(results) < Len(stats)
  /\ Conn!Rebuild
  /\ results' = IF pc' = "idle" THEN Append(results, Conn!FinalPositions) ELSE results
  /\ UNCHANGED <<source, replay, stage, inputs, conns, stats>>

Compared == stage = "compare" /\ Len(results) = Len(inputs)

Next == \/ Generate \/ StartPerturbing \/ Perturb \/ Demonstrate
        \/ Connect \/ StartIngest \/ Ingest \/ Rebuild

Spec == Init /\ [][Next]_vars

-----------------------------------------------------------------------------

StreamIsCanonical == Source!StreamIsCanonical
MultisetPreserved == Perturbation!MultisetPreserved
OvertakingIsBounded == Perturbation!OvertakingIsBounded

\* The claim of the repository: quantity and average price of every instrument
\* come out exactly equal (same operations, hence the same float) from the
\* canonical stream and from its duplicated and shuffled replay.
BitIdentical ==
  Compared =>
    \A j, k \in DOMAIN inputs :
      Range(inputs[j]) = Range(inputs[k]) => results[j] = results[k]

\* Whatever the stream, every message in it is accepted exactly once and all
\* other copies are counted as duplicates; in the replay these are the drawn ones.
StatsMatch ==
  Compared =>
    /\ \A k \in DOMAIN inputs :
         LET distinct == Cardinality(Range(inputs[k]))
         IN  stats[k] = [accepted |-> distinct, duplicates |-> Len(inputs[k]) - distinct]
    /\ inputs[1] = canonical => stats[2].duplicates = Cardinality(dupIndices)
=============================================================================
