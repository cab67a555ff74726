----------------------------- MODULE FillLedger -----------------------------
(***************************************************************************)
(* The options ledger, pipeline/ingest.py: ingest_stream puts fills into   *)
(* the message store, rebuild_positions empties the positions table and    *)
(* recomputes it from the stored fills, one instrument and one row at a    *)
(* time, all inside one transaction.                                       *)
(***************************************************************************)
EXTENDS MessageStore, FillReference, Functions

ASSUME MessagesAssumption ==
  \A m \in Messages : Storable(m) =>
    /\ m.quantity \in Int /\ m.price \in Int
    /\ m.session # NoValue /\ m.instrument # NoValue
    /\ m.sequence \in 1 .. MaxSequence

VARIABLES
  todo,   \* instruments SELECT DISTINCT returned and the loop has yet to visit
  inst,   \* the instrument being folded
  rows,   \* its fetched rows not folded yet
  acc     \* (qty, avg_price) and last_session

cursor == <<todo, inst, rows, acc>>
vars == <<tables, pc, batch, cursor>>

Init == /\ StoreInit
        /\ todo = {} /\ inst = NoValue /\ rows = {} /\ acc = Start

RowsOf(x) == {r \in messages : r.msg.instrument = x}

BeginRebuild ==
  /\ pc = "idle"
  /\ pc' = "rebuild"
  /\ positions' = {}
  /\ todo' = Instruments(Payloads(messages))
  /\ UNCHANGED <<savedMessages, savedPositions, messages, batch, inst, rows, acc>>

\* Faulty: the instrument is not taken off the list.
SelectAgain ==
  /\ pc = "rebuild"
  /\ \E x \in todo : inst' = x /\ rows' = RowsOf(x)
  /\ acc' = Start
  /\ pc' = "fold"
  /\ UNCHANGED <<tables, batch, todo>>

SelectInstrument ==
  /\ pc = "rebuild"
  /\ \E x \in todo : inst' = x /\ rows' = RowsOf(x) /\ todo' = todo \ {x}
  /\ acc' = Start
  /\ pc' = "fold"
  /\ UNCHANGED <<tables, batch>>

\* Faulty: ORDER BY received_at.
FoldRowByArrival ==
  /\ pc = "fold"
  /\ \E r \in rows :
       /\ \A s \in rows : r.received_at <= s.received_at
       /\ acc' = Apply(acc, r.msg)
       /\ rows' = rows \ {r}
  /\ UNCHANGED <<tables, pc, batch, todo, inst>>

\* ORDER BY sequence ASC.  Equal sequence numbers (which the key allows, for
\* different fill_ids) come in either order.
FoldRow ==
  /\ pc = "fold"
  /\ \E r \in rows :
       /\ \A s \in rows : r.msg.sequence <= s.msg.sequence
       /\ acc' = Apply(acc, r.msg)
       /\ rows' = rows \ {r}
  /\ UNCHANGED <<tables, pc, batch, todo, inst>>

\* Faulty: commits after every instrument.
InsertAndCommit ==
  /\ pc = "fold" /\ rows = {}
  /\ positions' = positions \cup {PositionRow(inst, acc)}
  /\ savedPositions' = positions' /\ savedMessages' = messages
  /\ pc' = "rebuild"
  /\ inst' = NoValue /\ acc' = Start
  /\ UNCHANGED <<messages, batch, todo, rows>>

InsertPosition ==
  /\ pc = "fold" /\ rows = {}
  /\ positions' = IF acc.last # NoValue
                  THEN positions \cup {PositionRow(inst, acc)}
                  ELSE positions
  /\ pc' = "rebuild"
  /\ inst' = NoValue /\ acc' = Start
  /\ UNCHANGED <<savedMessages, savedPositions, messages, batch, todo, rows>>

CommitRebuild ==
  /\ pc = "rebuild" /\ todo = {}
  /\ Commit
  /\ pc' = "idle"
  /\ UNCHANGED <<messages, positions, batch, cursor>>

\* final_positions: instrument -> (qty, avg_price), as read by this connection.
FinalPositions ==
  [x \in {p.instrument : p \in positions} |->
     (CHOOSE p \in positions : p.instrument = x).pos]

IngestStep == /\ AcceptMessage \/ RejectMessage \/ CommitStream
              /\ UNCHANGED cursor

BeginIngest(list) == BeginStream(list) /\ UNCHANGED cursor

Rebuild == \/ BeginRebuild \/ SelectInstrument \/ FoldRow
           \/ InsertPosition \/ CommitRebuild

Crash == /\ Restart
         /\ todo' = {} /\ inst' = NoValue /\ rows' = {} /\ acc' = Start

Next == \/ \E list \in Streams : BeginIngest(list)
        \/ IngestStep
        \/ Rebuild
        \/ Crash

Spec == Init /\ [][Next]_vars

\* A call that has begun keeps executing: nothing in it waits.
FairSpec == Spec /\ WF_vars(pc # "idle" /\ (IngestStep \/ Rebuild))

-----------------------------------------------------------------------------

PositionRows == [instrument : {m.instrument : m \in Messages},
                 session_id : {m.session : m \in Messages}, pos : Position]

\* Types of the two images of the database and of the locals of the call.
TypeOK ==
  /\ savedMessages \subseteq Row /\ messages \subseteq Row
  /\ savedPositions \subseteq PositionRows /\ positions \subseteq PositionRows
  /\ pc \in {"idle", "ingest", "rebuild", "fold"}
  /\ stream \in Seq(Messages) /\ i \in 0 .. Len(stream)
  /\ accepted \in Nat /\ duplicates \in Nat
  /\ todo \subseteq {m.instrument : m \in Messages}
  /\ inst \in {m.instrument : m \in Messages} \cup {NoValue}
  /\ rows \subseteq messages
  /\ acc \in [pos : Position, last : {m.session : m \in Messages} \cup {NoValue}]

\* However often and in whatever order a fill arrives, across calls and across
\* crashes, the table holds one row for its (fill_id, sequence).
OneRowPerKey == \A r, s \in messages : SameKey(r.msg, s.msg) => r = s

\* No delivered fill is lost: each complete message consumed so far is stored
\* with its own content, whether this delivery put it there or an earlier one.
DeliveredIsStored ==
  \A n \in 1 .. i : Storable(stream[n]) => stream[n] \in Payloads(messages)

\* The counts ingest_stream returns are about the table: accepted is what this
\* call added to it, and every message is counted on one side or the other.
CountsDescribeTable ==
  pc = "ingest" => /\ Cardinality(messages) = Cardinality(savedMessages) + accepted
                   /\ accepted + duplicates = i

\* When rebuild_positions reaches its commit, the table is the one that the set
\* of stored fills stands for: nothing of arrival order, of received_at, or of
\* the previous positions is left in it.
RebuildIsReference ==
  pc = "rebuild" /\ todo = {} => positions = Rebuilt(Payloads(messages))

\* What final_positions reports after a rebuild can be read off the stored fills
\* in any order: an instrument is held in the sum of their quantities, at an
\* average between the lowest and the highest price of those in the direction of
\* the position, and what nets to nothing has no average left.
FinalIsNetPosition ==
  pc = "rebuild" /\ todo = {} =>
    \A p \in positions :
      LET own == FillsOf(Payloads(messages), p.instrument)
          paid == {m.price : m \in {f \in own : f.quantity * p.pos.qty > 0}}
      IN  /\ p.pos.qty = SumFunction([m \in own |-> m.quantity])
          /\ IF p.pos.qty = 0 THEN p.pos = Flat
             ELSE /\ \E price \in paid : price * p.pos.den * p.pos.den <= p.pos.num * p.pos.den
                  /\ \E price \in paid : price * p.pos.den * p.pos.den >= p.pos.num * p.pos.den

\* Delivering a batch again, after it was committed, changes nothing.
RedeliveryIsNoOp ==
  [][ pc = "ingest" /\ (\A n \in DOMAIN stream : stream[n] \in Payloads(savedMessages))
        => savedMessages' = savedMessages ]_vars

\* The strengthening that makes the properties above inductive.  Outside a call
\* nothing is pending; a rebuild leaves the stored fills alone; the instruments
\* it is through with have their final row; and the fold in progress has
\* consumed the rows of inst up to some sequence number k, its accumulator
\* being the running position at every such k.
Between == pc = "idle" => messages = savedMessages /\ positions = savedPositions
NoRebuild == pc \in {"idle", "ingest"} =>
               todo = {} /\ inst = NoValue /\ rows = {} /\ acc = Start
IngestOnly == savedMessages \subseteq messages
              /\ (pc = "ingest" => positions = savedPositions)
RebuildOnly == pc \in {"rebuild", "fold"} => messages = savedMessages
NoStream == pc # "ingest" => stream = << >> /\ i = 0

StoredFills == Payloads(messages)

Done == Instruments(StoredFills) \ (todo \cup {inst})
TablePart ==
  pc \in {"rebuild", "fold"} =>
    /\ todo \subseteq Instruments(StoredFills)
    /\ pc = "rebuild" => inst = NoValue /\ rows = {} /\ acc = Start
    /\ positions = {PositionRow(x, Running(StoredFills, x)[MaxSequence]) : x \in Done}

FoldPart ==
  pc = "fold" =>
    /\ inst \in Instruments(StoredFills) \ todo
    /\ rows \subseteq RowsOf(inst)
    /\ \A r \in RowsOf(inst) \ rows, u \in rows : r.msg.sequence < u.msg.sequence
    /\ \A k \in 0 .. MaxSequence :
         rows = {r \in RowsOf(inst) : r.msg.sequence > k} =>
           acc = Running(StoredFills, inst)[k]
    /\ acc.last = NoValue => rows = RowsOf(inst)

IInv == /\ TypeOK /\ OneRowPerKey /\ DeliveredIsStored
        /\ (\A m \in StoredFills : Storable(m))
        /\ Between /\ NoRebuild /\ IngestOnly /\ RebuildOnly /\ NoStream
        /\ TablePart /\ FoldPart

\* What other connections can see is an abstract ledger: a batch appears whole
\* or not at all, and the published positions are always a complete rebuild of
\* the fills that were committed when it ran, never the emptied or half-filled
\* table in between, also when a crash cuts a call short.
Ledger == INSTANCE AbstractLedger WITH
            ledger <- Payloads(savedMessages), published <- savedPositions
LedgerSpec == Ledger!Spec

\* Every call returns: both loops of the rebuild come to an end.
CallsReturn == pc # "idle" ~> pc = "idle"

-----------------------------------------------------------------------------
\* What the comments of the repository say and the code does not do.

\* ingest_fill's docstring: False means this pair was already present.
FalseMeansPresent ==
  [][ duplicates' = duplicates + 1 =>
        \E r \in messages : SameKey(r.msg, stream[i + 1]) ]_vars

\* schema.sql: received_at is a monotonic ingest-order counter.
ReceivedAtIsMonotonic ==
  [][ \A r \in messages' \ messages :
        \A s \in messages : s.received_at < r.received_at ]_vars

\* schema.sql: the positions table has one row per instrument per session.
RowPerSession ==
  pc = "rebuild" /\ todo = {} =>
    \A m \in Payloads(messages) :
      \E p \in positions : p.instrument = m.instrument /\ p.session_id = m.session
=============================================================================
