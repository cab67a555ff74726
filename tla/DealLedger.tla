----------------------------- MODULE DealLedger -----------------------------
(***************************************************************************)
(* The commodity ledger, pipeline/commodity_ingest.py: the same ingest as  *)
(* for fills, and a rebuild that applies new, amend and cancel messages    *)
(* (last write wins), notes the net volume after each session's messages   *)
(* and carries it forward over the sessions that have none.                *)
(***************************************************************************)
EXTENDS MessageStore, DealReference

VARIABLES
  todo,        \* instruments still to be rebuilt
  inst,        \* the one being rebuilt
  rows,        \* its fetched rows not folded yet
  dealVolume,  \* deal_volume: deal id -> current volume
  snapshot,    \* session_snapshot: session -> net volume after its messages
  s, running   \* the loop that fills forward

cursor == <<todo, inst, rows, dealVolume, snapshot, s, running>>
vars == <<tables, pc, batch, cursor>>

Empty == [x \in {} |-> 0]

FreshFold == dealVolume' = Empty /\ snapshot' = Empty /\ s' = 0 /\ running' = 0

Init == /\ StoreInit
        /\ todo = {} /\ inst = NoValue /\ rows = {}
        /\ dealVolume = Empty /\ snapshot = Empty /\ s = 0 /\ running = 0

With(f, x, v) == [y \in DOMAIN f \cup {x} |-> IF y = x THEN v ELSE f[y]]

\* Faulty: no DELETE.
BeginRebuildKeepingRows ==
  /\ pc = "idle"
  /\ pc' = "rebuild"
  /\ todo' = {m.instrument : m \in Payloads(messages)}
  /\ UNCHANGED <<tables, batch, inst, rows, dealVolume, snapshot, s, running>>

BeginRebuild ==
  /\ pc = "idle"
  /\ pc' = "rebuild"
  /\ positions' = {}
  /\ todo' = {m.instrument : m \in Payloads(messages)}
  /\ UNCHANGED <<savedMessages, savedPositions, messages, batch>>
  /\ UNCHANGED <<inst, rows, dealVolume, snapshot, s, running>>

\* Faulty: the instrument is not taken off the list.
SelectAgain ==
  /\ pc = "rebuild"
  /\ \E x \in todo : inst' = x /\ rows' = {r \in messages : r.msg.instrument = x}
  /\ FreshFold
  /\ pc' = "fold"
  /\ UNCHANGED <<tables, batch, todo>>

SelectInstrument ==
  /\ pc = "rebuild"
  /\ \E x \in todo : /\ inst' = x
                     /\ todo' = todo \ {x}
                     /\ rows' = {r \in messages : r.msg.instrument = x}
  /\ FreshFold
  /\ pc' = "fold"
  /\ UNCHANGED <<tables, batch>>

\* Faulty: ORDER BY received_at.
FoldRowByArrival ==
  /\ pc = "fold"
  /\ \E r \in rows :
       /\ \A q \in rows : r.received_at <= q.received_at
       /\ dealVolume' = With(dealVolume, r.msg.id, VolumeSet(r.msg))
       /\ snapshot' = With(snapshot, r.msg.session, SumFunction(dealVolume'))
       /\ rows' = rows \ {r}
  /\ UNCHANGED <<tables, pc, batch, todo, inst, s, running>>

\* Faulty: an amend is added to the deal's volume.
FoldRowAdding ==
  /\ pc = "fold"
  /\ \E r \in rows :
       /\ \A q \in rows : r.msg.sequence <= q.msg.sequence
       /\ LET held == IF r.msg.action = "amend" /\ r.msg.id \in DOMAIN dealVolume
                      THEN dealVolume[r.msg.id] ELSE 0
          IN  dealVolume' = With(dealVolume, r.msg.id, held + VolumeSet(r.msg))
       /\ snapshot' = With(snapshot, r.msg.session, SumFunction(dealVolume'))
       /\ rows' = rows \ {r}
  /\ UNCHANGED <<tables, pc, batch, todo, inst, s, running>>

\* ORDER BY sequence ASC; the snapshot of the row's session is overwritten.
FoldRow ==
  /\ pc = "fold"
  /\ \E r \in rows :
       /\ \A q \in rows : r.msg.sequence <= q.msg.sequence
       /\ dealVolume' = With(dealVolume, r.msg.id, VolumeSet(r.msg))
       /\ snapshot' = With(snapshot, r.msg.session, SumFunction(dealVolume'))
       /\ rows' = rows \ {r}
  /\ UNCHANGED <<tables, pc, batch, todo, inst, s, running>>

\* Faulty: a quiet session is left at zero.
InsertSessionNotCarried ==
  /\ pc = "fold" /\ rows = {}
  /\ \E t \in DOMAIN snapshot : s <= t
  /\ running' = IF s \in DOMAIN snapshot THEN snapshot[s] ELSE 0
  /\ positions' = positions \cup {SessionRow(inst, s, running')}
  /\ s' = s + 1
  /\ UNCHANGED <<savedMessages, savedPositions, messages, pc, batch>>
  /\ UNCHANGED <<todo, inst, rows, dealVolume, snapshot>>

\* for s in range(max_session + 1): carry the last snapshot forward.
InsertSession ==
  /\ pc = "fold" /\ rows = {}
  /\ \E t \in DOMAIN snapshot : s <= t
  /\ running' = IF s \in DOMAIN snapshot THEN snapshot[s] ELSE running
  /\ positions' = positions \cup {SessionRow(inst, s, running')}
  /\ s' = s + 1
  /\ UNCHANGED <<savedMessages, savedPositions, messages, pc, batch>>
  /\ UNCHANGED <<todo, inst, rows, dealVolume, snapshot>>

\* Faulty: commits after every instrument.
FinishAndCommit ==
  /\ pc = "fold" /\ rows = {}
  /\ \A t \in DOMAIN snapshot : t < s
  /\ Commit
  /\ pc' = "rebuild"
  /\ inst' = NoValue
  /\ FreshFold
  /\ UNCHANGED <<messages, positions, batch, todo, rows>>

FinishInstrument ==
  /\ pc = "fold" /\ rows = {}
  /\ \A t \in DOMAIN snapshot : t < s
  /\ pc' = "rebuild"
  /\ inst' = NoValue
  /\ FreshFold
  /\ UNCHANGED <<tables, batch, todo, rows>>

CommitRebuild ==
  /\ pc = "rebuild" /\ todo = {}
  /\ Commit
  /\ pc' = "idle"
  /\ UNCHANGED <<messages, positions, batch, cursor>>

IngestStep == /\ AcceptMessage \/ RejectMessage \/ CommitStream
              /\ UNCHANGED cursor

BeginIngest(list) == BeginStream(list) /\ UNCHANGED cursor

Rebuild == \/ BeginRebuild \/ SelectInstrument \/ FoldRow
           \/ InsertSession \/ FinishInstrument \/ CommitRebuild

Crash == Restart /\ todo' = {} /\ inst' = NoValue /\ rows' = {} /\ FreshFold

Next == \/ \E list \in Streams : BeginIngest(list)
        \/ IngestStep
        \/ Rebuild
        \/ Crash

Spec == Init /\ [][Next]_vars

FairSpec == Spec /\ WF_vars(pc # "idle" /\ (IngestStep \/ Rebuild))

-----------------------------------------------------------------------------

\* Types of the database images and of the rebuild's locals.
TypeOK ==
  /\ savedMessages \subseteq Row /\ messages \subseteq Row
  /\ \A p \in savedPositions \cup positions : p.session_id \in Nat /\ p.quantity \in Int
  /\ pc \in {"idle", "ingest", "rebuild", "fold"}
  /\ i \in 0 .. Len(stream) /\ rows \subseteq messages
  /\ IsInjective([p \in positions |-> <<p.instrument, p.session_id>>])
  /\ s \in Nat /\ running \in Int

\* Every complete message delivered is in the table, exactly once and under a key of its
\* own: an amend or cancel, which shares the deal_id of its deal, is told apart
\* by its sequence and never taken for a duplicate of the deal.
DeliveredIsStored ==
  \A n \in 1 .. i : Storable(stream[n]) =>
    \E r \in messages : r.msg = stream[n] /\ \A q \in messages : SameKey(q.msg, r.msg) => q = r

\* The table at the rebuild's commit is the order-free reference: a session's
\* quantity is the sum of the last words on each deal up to that session.
RebuildIsReference ==
  pc = "rebuild" /\ todo = {} => positions = Rebuilt(Payloads(messages))

\* final_positions: the row of the largest session of each instrument.
FinalPositions(table) ==
  {p \in table : \A q \in table : q.instrument = p.instrument => q.session_id <= p.session_id}

\* What final_positions reports after a rebuild is, per instrument, the net of
\* the volumes every deal was last left with: a cancelled deal weighs nothing,
\* an amended one weighs its last volume, not the sum of its messages.
FinalIsNetOpenVolume ==
  pc = "rebuild" /\ todo = {} =>
    \A p \in FinalPositions(positions) :
      p.quantity = NetVolume(DealsOf(Payloads(messages), p.instrument))

\* What a reader of the database sees is an abstract ledger: batches and
\* rebuilds are atomic, also when a crash interrupts them.
Ledger == INSTANCE AbstractLedger WITH
            ledger <- Payloads(savedMessages), published <- savedPositions
LedgerSpec == Ledger!Spec

\* Both loops of the rebuild, and the ingest loop, come to an end.
CallsReturn == pc # "idle" ~> pc = "idle"

\* schema.sql and the docstring of rebuild_positions: positions are filled
\* forward on any session with no activity for the instrument.
FilledForward ==
  pc = "rebuild" /\ todo = {} =>
    \A p \in positions, m \in Payloads(messages) :
      \E q \in positions : q.instrument = p.instrument /\ q.session_id = m.session
=============================================================================
