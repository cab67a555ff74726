--------------------------- MODULE CanonicalDeals ---------------------------
(***************************************************************************)
(* DealLedger fed by producers that number their messages as the blotter   *)
(* does (build_deal_blotter), and the invariant its rebuild then keeps.    *)
(* The database enforces none of the facts in Canonical.                   *)
(***************************************************************************)
EXTENDS DealLedger

ASSUME MessagesAssumption ==
  \A m \in Messages : Storable(m) =>
    /\ m.volume \in Int /\ m.session \in Nat /\ m.sequence \in Int
    /\ m.instrument # NoValue

\* One content per key: a redelivered message is the same message.
KeysIdentify(ms) == \A m, n \in ms : SameKey(m, n) => m = n

\* No two messages of an instrument share a sequence number, and its sessions
\* never go back as the numbers go up.
SequencesOrder(ms) ==
  \A m, n \in ms : m.instrument = n.instrument =>
    /\ m.sequence = n.sequence => m = n
    /\ m.sequence < n.sequence => m.session <= n.session

Canonical(ms) == KeysIdentify(ms) /\ SequencesOrder(ms)

Deals == {m \in Messages : Storable(m)}

-----------------------------------------------------------------------------

StoredDeals == Payloads(messages)
Instruments == {m.instrument : m \in StoredDeals}
Own(x) == DealsOf(StoredDeals, x)
RowsOf(x) == {r \in messages : r.msg.instrument = x}

OneRowPerKey == \A r, q \in messages : SameKey(r.msg, q.msg) => r = q
OneRowPerSession == IsInjective([p \in savedPositions |-> <<p.instrument, p.session_id>>])

\* Outside a call nothing is pending, and only a call under way has locals.
Between == pc = "idle" => messages = savedMessages /\ positions = savedPositions
NoRebuild == pc \in {"idle", "ingest", "rebuild"} =>
               /\ inst = NoValue /\ rows = {} /\ dealVolume = Empty /\ snapshot = Empty
               /\ s = 0 /\ running = 0
IngestOnly == savedMessages \subseteq messages /\ (pc = "ingest" => positions = savedPositions)
RebuildOnly == pc \in {"rebuild", "fold"} => messages = savedMessages
NoStream == pc # "ingest" => stream = << >> /\ i = 0

IsLatest(m, ms, d) == m \in ms /\ m.id = d /\ \A n \in ms : n.id = d => n.sequence <= m.sequence

\* What has been folded of the instrument in hand.
Folded == Payloads(RowsOf(inst) \ rows)

\* The volumes are those the folded messages leave, and every snapshot is the
\* net volume up to its session.
FoldPart ==
  pc = "fold" =>
    /\ inst \in Instruments \ todo
    /\ rows \subseteq RowsOf(inst)
    /\ \A m \in Folded, u \in rows : m.sequence < u.msg.sequence
    /\ dealVolume \in [{m.id : m \in Folded} -> Int]
    /\ \A d \in DOMAIN dealVolume :
         \E m \in Folded : IsLatest(m, Folded, d) /\ dealVolume[d] = VolumeSet(m)
    /\ snapshot \in [{m.session : m \in Folded} -> Int]
    /\ \A t \in DOMAIN snapshot :
         snapshot[t] = NetVolume({m \in Folded : m.session <= t})

\* The loop that fills forward has come to s, with the volume before s in hand.
FillPart ==
  pc = "fold" =>
    /\ rows # {} => s = 0
    /\ s # 0 => \E t \in DOMAIN snapshot : s - 1 <= t
    /\ running = NetVolume({m \in Folded : m.session < s})

RowsBefore(x, n) == {SessionRow(x, t, NetVolume({m \in Own(x) : m.session <= t})) : t \in 0 .. n - 1}

\* The table holds the instruments that are done, and inst's rows up to s.
Done == Instruments \ (todo \cup {inst})
TablePart ==
  pc \in {"rebuild", "fold"} =>
    /\ todo \subseteq Instruments
    /\ positions = (UNION {RebuiltFor(StoredDeals, x) : x \in Done}) \cup RowsBefore(inst, s)

IInv == /\ TypeOK /\ stream \in Seq(Messages) /\ IsFiniteSet(messages)
        /\ OneRowPerKey /\ OneRowPerSession /\ DeliveredIsStored
        /\ \A m \in StoredDeals : Storable(m)
        /\ Between /\ NoRebuild /\ IngestOnly /\ RebuildOnly /\ NoStream
        /\ FoldPart /\ FillPart /\ TablePart
=============================================================================
