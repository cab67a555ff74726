-------------------------- MODULE DealLedgerProofs --------------------------
(***************************************************************************)
(* Theorems about DealLedger for every set of deal messages numbered as    *)
(* the blotter numbers them, every set of streams and every length of      *)
(* calls: no bound on volumes, deals, sessions or instruments.             *)
(***************************************************************************)
EXTENDS CanonicalDeals, RecursionAndSums

\* What the ledger has and what it is being given: the messages whose numbering
\* the proofs rely on.
Arrived == StoredDeals \cup {stream[n] : n \in {k \in DOMAIN stream : Storable(stream[k])}}

-----------------------------------------------------------------------------
(* The net volume, by its latest messages.                                 *)

\* Every deal among the messages F was last spoken of by a message that left
\* it the volume v records.
LastWords(v, F) ==
  /\ v \in [{m.id : m \in F} -> Int]
  /\ \A d \in DOMAIN v : \E m \in F : IsLatest(m, F, d) /\ v[d] = VolumeSet(m)

\* Among the messages of one instrument a deal has one latest message.
LEMMA LatestIsUnique ==
  ASSUME NEW x, NEW F \in SUBSET Deals, \A m \in F : m.instrument = x, SequencesOrder(F),
         NEW d, NEW m \in F, IsLatest(m, F, d)
  PROVE  LatestOf(F, d) = m
<1>1. \A n \in F : IsLatest(n, F, d) => n = m
  <2> SUFFICES ASSUME NEW n \in F, IsLatest(n, F, d) PROVE n = m
    OBVIOUS
  <2>1. n.sequence <= m.sequence /\ m.sequence <= n.sequence
    BY DEF IsLatest
  <2>2. m.sequence \in Int /\ n.sequence \in Int
    BY MessagesAssumption DEF Deals
  <2>3. m.sequence = n.sequence
    BY <2>1, <2>2
  <2> QED BY <2>3 DEF SequencesOrder
<1>2. LatestOf(F, d) = CHOOSE n \in F : IsLatest(n, F, d)
  BY DEF LatestOf, IsLatest
<1> QED BY <1>1, <1>2

\* The volumes last written add up to the net volume, whatever the order in
\* which they are added.
LEMMA LastWordsAddUp ==
  ASSUME NEW x, NEW F \in SUBSET Deals, \A m \in F : m.instrument = x, IsFiniteSet(F),
         SequencesOrder(F), NEW v, LastWords(v, F)
  PROVE  SumFunction(v) = NetVolume(F) /\ NetVolume(F) \in Int
<1> DEFINE ids == {m.id : m \in F}
<1>1. \A d \in ids : v[d] = VolumeSet(LatestOf(F, d))
  <2> SUFFICES ASSUME NEW d \in ids PROVE v[d] = VolumeSet(LatestOf(F, d))
    OBVIOUS
  <2>1. PICK m \in F : IsLatest(m, F, d) /\ v[d] = VolumeSet(m)
    BY DEF LastWords
  <2> QED BY <2>1, LatestIsUnique
<1>2. v = [d \in ids |-> VolumeSet(LatestOf(F, d))]
  BY <1>1 DEF LastWords
<1>3. SumFunction(v) = NetVolume(F)
  BY <1>2 DEF NetVolume
<1>4. IsFiniteSet(ids)
  <2> DEFINE idOf == [m \in F |-> m.id]
  <2>1. IsFiniteSet({idOf[m] : m \in F})
    <3> HIDE DEF idOf
    <3> QED BY ImageIsFinite
  <2>2. {idOf[m] : m \in F} = ids
    OBVIOUS
  <2> QED BY <2>1, <2>2
<1>5. DOMAIN v = ids /\ \A d \in ids : v[d] \in Int
  BY DEF LastWords
<1>6. SumFunctionOnSet(v, ids) \in Int
  <2> HIDE DEF ids
  <2> QED BY <1>4, <1>5, SumType
<1> QED BY <1>3, <1>5, <1>6 DEF SumFunction

\* Where there is no message there is no volume.
LEMMA NothingWeighsNothing == NetVolume({}) = 0
<1> DEFINE v == [d \in {m.id : m \in {}} |-> VolumeSet(LatestOf({}, d))]
<1>1. DOMAIN v = {}
  OBVIOUS
<1>2. NetVolume({}) = SumFunctionOnSet(v, DOMAIN v)
  BY DEF NetVolume, SumFunction
<1> HIDE DEF v
<1> QED BY <1>1, <1>2, SumEmpty

\* Folding a message that is later than all before it.
LEMMA LastWordsExtend ==
  ASSUME NEW F \in SUBSET Deals, NEW v, LastWords(v, F), NEW m \in Deals,
         \A n \in F : n.sequence < m.sequence
  PROVE  LastWords(With(v, m.id, VolumeSet(m)), F \cup {m})
<1> DEFINE w == With(v, m.id, VolumeSet(m))
           G == F \cup {m}
<1>1. VolumeSet(m) \in Int /\ \A n \in G : n.sequence \in Int
  BY MessagesAssumption DEF Deals, VolumeSet
<1>2. DOMAIN v = {n.id : n \in F} /\ \A d \in DOMAIN v : v[d] \in Int
  BY DEF LastWords
<1>3. {n.id : n \in G} = DOMAIN v \cup {m.id}
  BY <1>2
<1>4. w \in [{n.id : n \in G} -> Int]
  BY <1>1, <1>2, <1>3 DEF With
<1>5. ASSUME NEW d \in DOMAIN w
      PROVE  \E n \in G : IsLatest(n, G, d) /\ w[d] = VolumeSet(n)
  <2>1. CASE d = m.id
    <3>1. w[d] = VolumeSet(m)
      BY <2>1, <1>5 DEF With
    <3>2. IsLatest(m, G, d)
      BY <2>1, <1>1 DEF IsLatest
    <3> QED BY <3>1, <3>2
  <2>2. CASE d # m.id
    <3>1. d \in DOMAIN v /\ w[d] = v[d]
      BY <2>2, <1>5 DEF With
    <3>2. PICK n \in F : IsLatest(n, F, d) /\ v[d] = VolumeSet(n)
      BY <3>1 DEF LastWords
    <3>3. IsLatest(n, G, d)
      BY <2>2, <3>2 DEF IsLatest
    <3> QED BY <3>1, <3>2, <3>3
  <2> QED BY <2>1, <2>2
<1> HIDE DEF w, G
<1>6. LastWords(w, G)
  BY <1>4, <1>5 DEF LastWords
<1> QED BY <1>6 DEF w, G

-----------------------------------------------------------------------------
(* The inductive invariant, action by action.                              *)

\* Every stored row is one of the complete messages of the producers.
LEMMA StoredAreDeals ==
  ASSUME IInv
  PROVE  /\ StoredDeals \in SUBSET Deals
         /\ \A r \in messages : r.msg \in Deals /\ r \in Row
         /\ NoValue \notin Instruments
<1>1. /\ StoredDeals \in SUBSET Deals
      /\ \A r \in messages : r.msg \in Deals /\ r \in Row
  BY DEF IInv, TypeOK, StoredDeals, Payloads, Deals, Row
<1> QED BY <1>1, MessagesAssumption DEF Instruments, Deals

\* An empty database satisfies the invariant.
LEMMA InitInv == Init => IInv
<1> SUFFICES ASSUME Init PROVE IInv
  OBVIOUS
<1>1. << >> \in Seq(Messages) /\ Len(<< >>) = 0 /\ IsFiniteSet({})
  BY FS_EmptySet
<1>2. TypeOK
  BY <1>1 DEF Init, StoreInit, TypeOK, IsInjective
<1>3. OneRowPerKey /\ OneRowPerSession /\ StoredDeals = {}
  BY DEF Init, StoreInit, OneRowPerKey, OneRowPerSession, IsInjective, StoredDeals, Payloads
<1>4. DeliveredIsStored
  BY DEF Init, StoreInit, DeliveredIsStored
<1> QED BY <1>1, <1>2, <1>3, <1>4 DEF IInv, Init, StoreInit, Between, NoRebuild, IngestOnly,
                               RebuildOnly, NoStream, FoldPart, FillPart, TablePart

\* Outside a rebuild the parts about its progress say nothing.
LEMMA NotRebuilding ==
  ASSUME pc' \in {"idle", "ingest"}
  PROVE  FoldPart' /\ FillPart' /\ TablePart'
BY DEF FoldPart, FillPart, TablePart

\* Published rows differ in instrument or session, also after a commit.
LEMMA PublishedKept ==
  ASSUME IInv, savedPositions' = savedPositions \/ savedPositions' = positions
  PROVE  OneRowPerSession'
BY DEF IInv, TypeOK, OneRowPerSession, IsInjective

\* Steps that leave the stored messages and the delivered part of the stream
\* alone keep what is said of them.
LEMMA StoreKept ==
  ASSUME IInv, messages' = messages, (stream' = stream /\ i' = i) \/ i' = 0
  PROVE  /\ OneRowPerKey' /\ DeliveredIsStored' /\ IsFiniteSet(messages)'
         /\ StoredDeals' = StoredDeals /\ (\A m \in StoredDeals : Storable(m))'
         /\ Instruments' = Instruments
<1> USE DEF IInv
<1>1. StoredDeals' = StoredDeals
  BY DEF StoredDeals, Payloads
<1>2. OneRowPerKey'
  BY DEF OneRowPerKey
<1>3. DeliveredIsStored'
  BY DEF DeliveredIsStored
<1> QED BY <1>1, <1>2, <1>3 DEF Instruments

\* Being called with a list (ingest_stream) keeps the invariant.
LEMMA BeginIngestInv ==
  ASSUME IInv, NEW list \in Streams, BeginIngest(list)
  PROVE  IInv'
<1> USE DEF IInv, BeginIngest, BeginStream, tables, cursor
<1>1. list \in Seq(Messages) /\ 0 \in 0 .. Len(list)
  BY StreamsAssumption
<1>2. TypeOK'
  BY <1>1 DEF TypeOK
<1>3. FoldPart' /\ FillPart' /\ TablePart'
  BY NotRebuilding
<1> QED BY <1>1, <1>2, <1>3, StoreKept, PublishedKept
        DEF Between, NoRebuild, IngestOnly, RebuildOnly, NoStream

\* An INSERT that succeeds keeps the invariant.
LEMMA AcceptInv ==
  ASSUME IInv, AcceptMessage, UNCHANGED cursor
  PROVE  IInv'
<1> USE DEF IInv, AcceptMessage, cursor
<1> DEFINE m == stream[i + 1]
           row == [msg |-> m, received_at |-> i]
<1>1. /\ i \in Nat /\ i + 1 \in 0 .. Len(stream) /\ i + 1 \in DOMAIN stream
      /\ m \in Messages
  BY DEF TypeOK
<1>2. row \in Row /\ messages' = messages \cup {row} /\ row.msg = m
  BY <1>1 DEF Row
<1>3. Storable(m) /\ \A r \in messages : ~SameKey(r.msg, m)
  BY DEF Rejected
<1>4. TypeOK'
  BY <1>1, <1>2 DEF TypeOK
<1>5. OneRowPerKey'
  <2> SUFFICES ASSUME NEW r \in messages', NEW u \in messages', SameKey(r.msg, u.msg)
               PROVE  r = u
    BY DEF OneRowPerKey
  <2>1. SameKey(u.msg, r.msg)
    BY DEF SameKey
  <2> HIDE DEF row, m
  <2> QED BY <1>2, <1>3, <2>1 DEF OneRowPerKey
<1>6. StoredDeals' = StoredDeals \cup {m}
  BY <1>2 DEF StoredDeals, Payloads
<1>7. DeliveredIsStored'
  <2> SUFFICES ASSUME NEW n \in 1 .. (i + 1), Storable(stream[n])
               PROVE  \E r \in messages' :
                        /\ r.msg = stream[n]
                        /\ \A q \in messages' : SameKey(q.msg, r.msg) => q = r
    BY DEF DeliveredIsStored
  <2>1. CASE n = i + 1
    BY <1>2, <1>5, <2>1 DEF OneRowPerKey
  <2>2. CASE n \in 1 .. i
    <3>1. PICK r \in messages : r.msg = stream[n]
      BY <2>2 DEF DeliveredIsStored
    <3> QED BY <1>2, <1>5, <3>1 DEF OneRowPerKey
  <2> QED BY <2>1, <2>2, <1>1
<1>8. (\A n \in StoredDeals : Storable(n))'
  BY <1>3, <1>6
<1>9. FoldPart' /\ FillPart' /\ TablePart'
  BY NotRebuilding
<1>10. Between' /\ NoRebuild' /\ RebuildOnly' /\ NoStream'
  BY DEF Between, NoRebuild, RebuildOnly, NoStream
<1>11. IngestOnly'
  BY <1>2 DEF IngestOnly
<1>12. IsFiniteSet(messages')
  <2> HIDE DEF row, m
  <2> QED BY <1>2, FS_AddElement
<1> QED BY <1>4, <1>5, <1>7, <1>8, <1>9, <1>10, <1>11, <1>12, PublishedKept

\* An INSERT that raises IntegrityError keeps the invariant: the message it
\* refuses is incomplete, or is the one already stored under its key.
LEMMA RejectInv ==
  ASSUME IInv, Canonical(Arrived), RejectMessage, UNCHANGED cursor
  PROVE  IInv'
<1> USE DEF IInv, RejectMessage, cursor, tables
<1>1. /\ i \in Nat /\ i + 1 \in 0 .. Len(stream) /\ i + 1 \in DOMAIN stream
      /\ stream[i + 1] \in Messages
  BY DEF TypeOK
<1>2. TypeOK'
  BY <1>1 DEF TypeOK
<1>3. StoredDeals' = StoredDeals /\ OneRowPerKey'
  BY DEF StoredDeals, Payloads, OneRowPerKey
<1>4. Storable(stream[i + 1]) => \E r \in messages : r.msg = stream[i + 1]
  <2> SUFFICES ASSUME Storable(stream[i + 1])
               PROVE  \E r \in messages : r.msg = stream[i + 1]
    OBVIOUS
  <2>1. PICK r \in messages : SameKey(r.msg, stream[i + 1])
    BY DEF Rejected
  <2>2. r.msg \in Arrived /\ stream[i + 1] \in Arrived
    BY <1>1 DEF Arrived, StoredDeals, Payloads
  <2>3. r.msg = stream[i + 1]
    BY <2>1, <2>2 DEF Canonical, KeysIdentify
  <2> QED BY <2>3
<1>5. DeliveredIsStored'
  <2> SUFFICES ASSUME NEW n \in 1 .. (i + 1), Storable(stream[n])
               PROVE  \E r \in messages :
                        /\ r.msg = stream[n]
                        /\ \A q \in messages : SameKey(q.msg, r.msg) => q = r
    BY DEF DeliveredIsStored
  <2>1. CASE n = i + 1
    BY <1>4, <2>1 DEF OneRowPerKey
  <2>2. CASE n \in 1 .. i
    BY <2>2 DEF DeliveredIsStored
  <2> QED BY <2>1, <2>2, <1>1
<1>6. FoldPart' /\ FillPart' /\ TablePart'
  BY NotRebuilding
<1> QED BY <1>2, <1>3, <1>5, <1>6, PublishedKept
        DEF Between, NoRebuild, IngestOnly, RebuildOnly, NoStream

\* The commit of ingest_stream keeps the invariant.
LEMMA CommitStreamInv ==
  ASSUME IInv, CommitStream, UNCHANGED cursor
  PROVE  IInv'
<1> USE DEF IInv, CommitStream, Commit, EndBatch, cursor
<1>1. << >> \in Seq(Messages) /\ Len(<< >>) = 0
  OBVIOUS
<1>2. TypeOK'
  BY <1>1 DEF TypeOK
<1>3. FoldPart' /\ FillPart' /\ TablePart'
  BY NotRebuilding
<1> QED BY <1>1, <1>2, <1>3, StoreKept, PublishedKept
        DEF Between, NoRebuild, IngestOnly, RebuildOnly, NoStream

\* Losing the open transaction keeps the invariant.
LEMMA CrashInv ==
  ASSUME IInv, Crash
  PROVE  IInv'
<1> USE DEF IInv, Crash, Restart, EndBatch, FreshFold
<1>1. << >> \in Seq(Messages) /\ Len(<< >>) = 0
  OBVIOUS
<1>2. savedMessages \subseteq messages
  BY DEF IngestOnly
<1>3. IsFiniteSet(messages')
  BY <1>2, FS_Subset
<1>4. TypeOK' /\ OneRowPerSession'
  BY <1>1 DEF TypeOK, OneRowPerSession, IsInjective
<1>5. StoredDeals' \subseteq StoredDeals /\ OneRowPerKey'
  BY <1>2 DEF StoredDeals, Payloads, OneRowPerKey
<1>6. DeliveredIsStored'
  BY DEF DeliveredIsStored
<1>7. FoldPart' /\ FillPart' /\ TablePart'
  BY NotRebuilding
<1> QED BY <1>1, <1>3, <1>4, <1>5, <1>6, <1>7
        DEF Between, NoRebuild, IngestOnly, RebuildOnly, NoStream

\* What is rebuilt for an instrument is its own.
LEMMA RowsAreOwn ==
  ASSUME NEW F, NEW y, NEW p \in RebuiltFor(F, y)
  PROVE  p.instrument = y
<1> DEFINE net(k) == NetVolume({m \in DealsOf(F, y) : m.session <= k})
           T == 0 .. Max({m.session : m \in DealsOf(F, y)})
<1>1. RebuiltFor(F, y) = {SessionRow(y, k, net(k)) : k \in T}
  BY DEF RebuiltFor
<1> HIDE DEF net, T
<1>2. PICK k \in T : p = SessionRow(y, k, net(k))
  BY <1>1
<1> QED BY <1>2 DEF SessionRow

\* The fields of the rows of one instrument.
LEMMA RowFields ==
  ASSUME NEW x
  PROVE  /\ \A t, q : SessionRow(x, t, q).instrument = x
                     /\ SessionRow(x, t, q).session_id = t
                     /\ SessionRow(x, t, q).quantity = q
         /\ \A n : \A p \in RowsBefore(x, n) : p.session_id \in 0 .. n - 1
         /\ \A p \in RebuiltFor(StoredDeals, x) : p.instrument = x
<1>1. \A t, q : /\ SessionRow(x, t, q).instrument = x
               /\ SessionRow(x, t, q).session_id = t
               /\ SessionRow(x, t, q).quantity = q
  BY DEF SessionRow
<1>2. \A n : \A p \in RowsBefore(x, n) : p.session_id \in 0 .. n - 1
  BY <1>1 DEF RowsBefore
<1>3. \A p \in RebuiltFor(StoredDeals, x) : p.instrument = x
  BY RowsAreOwn
<1> QED BY <1>1, <1>2, <1>3

\* An instrument of which no row has been written yet.
LEMMA NoRowsYet == \A x : RowsBefore(x, 0) = {}
<1>1. 0 .. 0 - 1 = {}
  OBVIOUS
<1> QED BY <1>1 DEF RowsBefore

\* DELETE FROM positions, with all instruments to do, keeps the invariant.
LEMMA BeginRebuildInv ==
  ASSUME IInv, BeginRebuild
  PROVE  IInv'
<1> USE DEF IInv, BeginRebuild, batch
<1>1. Instruments' = Instruments /\ todo' = Instruments
  BY StoreKept DEF Instruments, StoredDeals
<1>2. TypeOK'
  BY DEF TypeOK, IsInjective
<1>3. inst' = NoValue /\ rows' = {} /\ dealVolume' = Empty /\ snapshot' = Empty
      /\ s' = 0 /\ running' = 0 /\ positions' = {}
  BY DEF NoRebuild
<1>4. TablePart'
  <2>1. Done' = {}
    BY <1>1 DEF Done
  <2>2. RowsBefore(inst, s)' = {}
    BY <1>3, NoRowsYet DEF RowsBefore
  <2> QED BY <1>1, <1>3, <2>1, <2>2 DEF TablePart
<1>5. FoldPart' /\ FillPart'
  BY DEF FoldPart, FillPart
<1> QED BY <1>2, <1>3, <1>4, <1>5, StoreKept, PublishedKept
        DEF Between, NoRebuild, IngestOnly, RebuildOnly, NoStream

\* Fetching the rows of an instrument keeps the invariant.
LEMMA SelectInstrumentInv ==
  ASSUME IInv, SelectInstrument
  PROVE  IInv'
<1> USE DEF IInv, SelectInstrument, tables, batch, FreshFold
<1>1. StoredDeals' = StoredDeals /\ Instruments' = Instruments
  BY StoreKept
<1>2. PICK x \in todo : /\ inst' = x
                        /\ todo' = todo \ {x}
                        /\ rows' = {r \in messages : r.msg.instrument = x}
  OBVIOUS
<1>3. TypeOK'
  BY <1>2 DEF TypeOK
<1>4. inst = NoValue /\ s = 0 /\ todo \subseteq Instruments
  BY DEF NoRebuild, TablePart
<1>5. TablePart'
  <2>1. NoValue \notin Instruments
    BY StoredAreDeals
  <2>2. Done' = Done
    BY <1>1, <1>2, <1>4, <2>1 DEF Done
  <2>3. RowsBefore(inst, s)' = {} /\ RowsBefore(inst, s) = {}
    BY <1>4, NoRowsYet DEF RowsBefore
  <2> QED BY <1>1, <1>2, <1>4, <2>2, <2>3 DEF TablePart
<1>6. RowsOf(x)' = rows' /\ Folded' = {}
  BY <1>2 DEF RowsOf, Folded, Payloads
<1>7. Empty \in [{} -> Int] /\ DOMAIN Empty = {}
  BY DEF Empty
<1>8. FoldPart'
  BY <1>1, <1>2, <1>4, <1>6, <1>7 DEF FoldPart
<1>9. FillPart'
  <2>1. {m \in Folded : m.session < s}' = {}
    BY <1>6
  <2> QED BY <2>1, NothingWeighsNothing DEF FillPart
<1> QED BY <1>3, <1>5, <1>8, <1>9, StoreKept, PublishedKept
        DEF Between, NoRebuild, IngestOnly, RebuildOnly, NoStream

\* The messages folded so far are finitely many deals of the one instrument.
LEMMA FoldedAreDeals ==
  ASSUME IInv
  PROVE  /\ Folded \in SUBSET Deals /\ IsFiniteSet(Folded)
         /\ \A m \in Folded : m.instrument = inst
         /\ pc = "fold" => LastWords(dealVolume, Folded)
<1>1. Folded \in SUBSET Deals /\ \A m \in Folded : m.instrument = inst
  BY StoredAreDeals DEF Folded, Payloads, RowsOf
<1>2. IsFiniteSet(Folded)
  <2> DEFINE R == RowsOf(inst) \ rows
             msgOf == [r \in R |-> r.msg]
  <2>1. IsFiniteSet(R)
    <3>1. R \in SUBSET messages /\ IsFiniteSet(messages)
      BY DEF RowsOf, IInv
    <3> HIDE DEF R
    <3> QED BY <3>1, FS_Subset
  <2>2. IsFiniteSet({msgOf[r] : r \in R})
    <3> HIDE DEF R, msgOf
    <3> QED BY <2>1, ImageIsFinite
  <2>3. {msgOf[r] : r \in R} = Folded
    BY DEF Folded, Payloads
  <2> QED BY <2>2, <2>3
<1>3. pc = "fold" => LastWords(dealVolume, Folded)
  BY DEF IInv, FoldPart, LastWords
<1> QED BY <1>1, <1>2, <1>3

\* Folding the row of the least sequence number keeps the invariant.
LEMMA FoldRowInv ==
  ASSUME IInv, Canonical(Arrived), FoldRow
  PROVE  IInv'
<1> USE DEF IInv, FoldRow, tables, batch
<1>1. PICK r \in rows :
        /\ \A q \in rows : r.msg.sequence <= q.msg.sequence
        /\ dealVolume' = With(dealVolume, r.msg.id, VolumeSet(r.msg))
        /\ snapshot' = With(snapshot, r.msg.session, SumFunction(dealVolume'))
        /\ rows' = rows \ {r}
  OBVIOUS
<1> DEFINE m == r.msg
<1>2. StoredDeals' = StoredDeals /\ Instruments' = Instruments
      /\ RowsOf(inst)' = RowsOf(inst) /\ inst' = inst
  BY StoreKept DEF RowsOf
<1>3. /\ rows \subseteq RowsOf(inst) /\ r \in RowsOf(inst) /\ r \in messages
      /\ m \in Deals /\ m.instrument = inst
      /\ \A u \in RowsOf(inst) : u \in messages /\ u.msg \in Deals /\ u.msg.instrument = inst
  BY StoredAreDeals DEF FoldPart, RowsOf
<1>4. Folded' = Folded \cup {m} /\ Folded' \subseteq Arrived
  <2>1. Folded' = Folded \cup {m}
    BY <1>1, <1>2, <1>3 DEF Folded, Payloads
  <2>2. Folded' \subseteq StoredDeals
    BY <1>2 DEF Folded, Payloads, RowsOf, StoredDeals
  <2> QED BY <2>1, <2>2 DEF Arrived
<1>5. Folded \in SUBSET Deals /\ IsFiniteSet(Folded) /\ LastWords(dealVolume, Folded)
      /\ \A n \in Folded : n.instrument = inst
  BY FoldedAreDeals
<1>6. \A n \in Folded : n.sequence < m.sequence
  BY DEF FoldPart
<1>7. LastWords(dealVolume', Folded')
  <2> HIDE DEF m
  <2>1. m \in Deals /\ dealVolume' = With(dealVolume, m.id, VolumeSet(m))
    BY <1>1, <1>3 DEF m
  <2> QED BY <1>4, <1>5, <1>6, <2>1, LastWordsExtend
<1>8. SumFunction(dealVolume') = NetVolume(Folded') /\ NetVolume(Folded') \in Int
  <2>1. /\ Folded' \in SUBSET Deals /\ IsFiniteSet(Folded')
        /\ \A n \in Folded' : n.instrument = inst
    <3> HIDE DEF m
    <3> QED BY <1>3, <1>4, <1>5, FS_AddElement DEF m
  <2>2. SequencesOrder(Folded')
    BY <1>4 DEF Canonical, SequencesOrder
  <2> QED BY <1>7, <2>1, <2>2, LastWordsAddUp
\* The next row is the only stored one with its sequence number.
<1>9. \A u \in rows' : m.sequence < u.msg.sequence
  <2> SUFFICES ASSUME NEW u \in rows' PROVE m.sequence < u.msg.sequence
    OBVIOUS
  <2>1. u \in rows /\ u # r /\ u \in messages /\ u.msg \in Deals /\ u.msg.instrument = inst
    BY <1>1, <1>3
  <2>2. u.msg # m
    BY <1>3, <2>1 DEF OneRowPerKey, SameKey
  <2>3. u.msg.sequence # m.sequence
    <3>1. u.msg \in Arrived /\ m \in Arrived
      BY <1>3, <2>1 DEF Arrived, StoredDeals, Payloads
    <3> QED BY <1>3, <2>1, <2>2, <3>1 DEF Canonical, SequencesOrder
  <2>4. u.msg.sequence \in Int /\ m.sequence \in Int /\ m.sequence <= u.msg.sequence
    BY <1>1, <1>3, <2>1, MessagesAssumption DEF Deals
  <2> QED BY <2>3, <2>4
<1>10. \A n \in Folded', u \in rows' : n.sequence < u.msg.sequence
  BY <1>1, <1>4, <1>9 DEF FoldPart
\* Sessions do not go back, so only the newest snapshot is touched by m.
<1>11. \A n \in Folded' : n.session \in Nat /\ m.session \in Nat /\ n.session <= m.session
  <2>1. \A n \in Folded' : n \in Deals /\ n.instrument = inst /\ (n.sequence < m.sequence \/ n = m)
    BY <1>3, <1>4, <1>5, <1>6
  <2>2. \A n \in Folded' : n.sequence < m.sequence => n.session <= m.session
    BY <1>3, <1>4, <2>1 DEF Canonical, SequencesOrder
  <2> QED BY <1>3, <2>1, <2>2, MessagesAssumption DEF Deals
<1>12. snapshot \in [{n.session : n \in Folded} -> Int]
       /\ snapshot' = With(snapshot, m.session, NetVolume(Folded'))
  BY <1>1, <1>8 DEF FoldPart
<1>13. snapshot' \in [{n.session : n \in Folded'} -> Int]
  <2>1. {n.session : n \in Folded'} = DOMAIN snapshot \cup {m.session}
    BY <1>4, <1>12
  <2> HIDE DEF m
  <2> QED BY <2>1, <1>8, <1>12 DEF With
<1>14. ASSUME NEW t \in DOMAIN snapshot'
       PROVE  snapshot'[t] = NetVolume({n \in Folded' : n.session <= t})
  <2>1. CASE t = m.session
    <3>1. {n \in Folded' : n.session <= t} = Folded'
      BY <1>11, <2>1
    <3> QED BY <1>12, <1>14, <2>1, <3>1 DEF With
  <2>2. CASE t # m.session
    <3>1. t \in DOMAIN snapshot /\ snapshot'[t] = snapshot[t]
      BY <1>12, <1>14, <2>2 DEF With
    <3>2. PICK n \in Folded : t = n.session
      BY <1>12, <3>1
    <3>3. t \in Nat /\ t <= m.session /\ m.session \in Nat
      BY <1>4, <1>11, <3>2
    <3>4. ~(m.session <= t)
      BY <2>2, <3>3
    <3>5. {k \in Folded' : k.session <= t} = {k \in Folded : k.session <= t}
      BY <1>4, <3>4
    <3>6. snapshot[t] = NetVolume({k \in Folded : k.session <= t})
      BY <3>1 DEF FoldPart
    <3> QED BY <3>1, <3>5, <3>6
  <2> QED BY <2>1, <2>2
<1>15. FoldPart'
  <2>1. (inst \in Instruments \ todo)'
    BY <1>2 DEF FoldPart
  <2>2. (rows \subseteq RowsOf(inst))'
    BY <1>1, <1>2, <1>3
  <2> HIDE DEF m
  <2> QED BY <2>1, <2>2, <1>7, <1>10, <1>13, <1>14 DEF FoldPart, LastWords
<1>16. s = 0 /\ s' = 0 /\ running' = running /\ running = NetVolume({n \in Folded : n.session < s})
  BY <1>1 DEF FillPart
<1>17. FillPart'
  <2>1. {n \in Folded : n.session < s} = {} /\ {n \in Folded' : n.session < s} = {}
    BY <1>4, <1>11, <1>16
  <2> QED BY <1>16, <2>1 DEF FillPart
<1>18. TablePart'
  <2>1. Done' = Done
    BY <1>2 DEF Done
  <2>2. RowsBefore(inst, s)' = RowsBefore(inst, s)
    BY <1>2 DEF RowsBefore, Own
  <2> QED BY <1>2, <2>1, <2>2 DEF TablePart
<1>19. TypeOK'
  BY <1>1 DEF TypeOK
<1> QED BY <1>15, <1>17, <1>18, <1>19, StoreKept, PublishedKept
        DEF Between, NoRebuild, IngestOnly, RebuildOnly, NoStream

\* With every row folded, the messages folded are the instrument's own.
LEMMA AllFolded ==
  ASSUME IInv, pc = "fold", rows = {}
  PROVE  /\ Folded = Own(inst) /\ Folded # {} /\ inst # NoValue
         /\ \A m \in Folded : m.session \in Nat
<1>1. Folded = Own(inst)
  BY DEF Folded, Own, DealsOf, StoredDeals, Payloads, RowsOf
<1>2. inst \in Instruments
  BY DEF IInv, FoldPart
<1>3. Own(inst) # {}
  BY <1>2 DEF Own, DealsOf, Instruments
<1>4. \A m \in Folded : m.session \in Nat
  BY FoldedAreDeals, MessagesAssumption DEF Deals
<1> QED BY <1>1, <1>2, <1>3, <1>4, StoredAreDeals

\* The row of one session more.
LEMMA OneRowMore ==
  ASSUME NEW x, NEW n \in Nat
  PROVE  RowsBefore(x, n + 1) = RowsBefore(x, n) \cup
           {SessionRow(x, n, NetVolume({m \in Own(x) : m.session <= n}))}
<1>1. 0 .. (n + 1) - 1 = (0 .. n - 1) \cup {n}
  OBVIOUS
<1> QED BY <1>1 DEF RowsBefore

\* One turn of the loop that fills forward keeps the invariant.
LEMMA InsertSessionInv ==
  ASSUME IInv, InsertSession
  PROVE  IInv'
<1> USE DEF IInv, InsertSession, batch
<1>1. /\ StoredDeals' = StoredDeals /\ Instruments' = Instruments /\ inst' = inst
      /\ RowsOf(inst)' = RowsOf(inst) /\ Folded' = Folded /\ s' = s + 1 /\ s \in Nat
  BY StoreKept DEF RowsOf, Folded, Payloads, TypeOK
<1>2. running' = NetVolume({m \in Folded : m.session <= s}) /\ running' \in Int
  <2>1. snapshot \in [{m.session : m \in Folded} -> Int]
    BY DEF FoldPart
  <2>2. CASE s \in DOMAIN snapshot
    <3>1. running' = snapshot[s]
      BY <2>2
    <3> QED BY <2>1, <2>2, <3>1 DEF FoldPart
  <2>3. CASE s \notin DOMAIN snapshot
    <3>1. running' = running /\ running \in Int
      BY <2>3 DEF TypeOK
    <3>2. \A m \in Folded : m.session <= s <=> m.session < s
      BY <2>1, <2>3, <1>1, AllFolded
    <3>3. {m \in Folded : m.session <= s} = {m \in Folded : m.session < s}
      BY <3>2
    <3> QED BY <3>1, <3>3 DEF FillPart
  <2> QED BY <2>2, <2>3
<1> DEFINE row == SessionRow(inst, s, running')
<1>3. positions' = positions \cup {row}
  OBVIOUS
<1>4. TablePart'
  <2>1. Done' = Done
    BY <1>1 DEF Done
  <2>2. RowsBefore(inst, s + 1) = RowsBefore(inst, s) \cup {row}
    BY <1>1, <1>2, OneRowMore, AllFolded
  <2>3. RowsBefore(inst, s)' = RowsBefore(inst, s + 1)
    BY <1>1 DEF RowsBefore, Own
  <2> HIDE DEF row
  <2> QED BY <1>1, <1>3, <2>1, <2>2, <2>3 DEF TablePart
\* The instrument's rows written so far are of earlier sessions.
<1>5. \A p \in positions : ~(p.instrument = inst /\ p.session_id = s)
  <2> SUFFICES ASSUME NEW p \in positions, p.instrument = inst, p.session_id = s PROVE FALSE
    OBVIOUS
  <2>1. CASE p \in RowsBefore(inst, s)
    <3>1. p.session_id \in 0 .. s - 1
      BY <2>1, RowFields
    <3> QED BY <1>1, <3>1
  <2>2. CASE p \notin RowsBefore(inst, s)
    <3>1. PICK x \in Done : p \in RebuiltFor(StoredDeals, x)
      BY <2>2 DEF TablePart
    <3>2. p.instrument = x
      BY <3>1, RowFields
    <3> QED BY <3>1, <3>2 DEF Done
  <2> QED BY <2>1, <2>2
<1>6. TypeOK'
  <2>1. row.instrument = inst /\ row.session_id = s /\ row.quantity = running'
    BY DEF SessionRow
  <2>2. (IsInjective([p \in positions |-> <<p.instrument, p.session_id>>]))'
    <3> SUFFICES ASSUME NEW p \in positions', NEW q \in positions',
                        p.instrument = q.instrument, p.session_id = q.session_id
                 PROVE  p = q
      BY DEF IsInjective
    <3> HIDE DEF row
    <3>1. CASE p \in positions /\ q \in positions
      BY <3>1 DEF TypeOK, IsInjective
    <3>2. CASE p = row \/ q = row
      BY <1>3, <1>5, <2>1, <3>2
    <3> QED BY <1>3, <3>1, <3>2
  <2> HIDE DEF row
  <2>3. \A p \in positions' : p.session_id \in Nat /\ p.quantity \in Int
    BY <1>1, <1>2, <1>3, <2>1 DEF TypeOK
  <2> QED BY <1>1, <1>2, <2>2, <2>3 DEF TypeOK
<1>7. FoldPart'
  BY <1>1 DEF FoldPart
<1>8. FillPart'
  <2>1. \E t \in DOMAIN snapshot : s' - 1 <= t
    BY <1>1
  <2>2. {m \in Folded : m.session < s}' = {m \in Folded : m.session <= s}
    BY <1>1, AllFolded
  <2> QED BY <1>2, <2>1, <2>2 DEF FillPart
<1> QED BY <1>4, <1>6, <1>7, <1>8, StoreKept, PublishedKept
        DEF Between, NoRebuild, IngestOnly, RebuildOnly, NoStream

\* The rows written when the loop ends are all the reference asks for.
LEMMA RowsComplete ==
  ASSUME IInv, pc = "fold", rows = {}, \A t \in DOMAIN snapshot : t < s
  PROVE  RowsBefore(inst, s) = RebuiltFor(StoredDeals, inst)
<1> DEFINE T == {m.session : m \in Own(inst)}
<1>1. DOMAIN snapshot = T /\ T # {} /\ T \subseteq Nat
  BY AllFolded DEF IInv, FoldPart
<1>2. s # 0 /\ s \in Nat
  <2>1. PICK t \in DOMAIN snapshot : t < s /\ t \in Nat
    BY <1>1
  <2>2. s \in Nat
    BY DEF IInv, TypeOK
  <2> QED BY <2>1, <2>2
<1>3. PICK t \in T : s - 1 <= t
  BY <1>1, <1>2 DEF IInv, FillPart
<1>4. s - 1 \in T /\ \A k \in T : s - 1 >= k
  <2>1. \A k \in T : k \in Nat /\ k < s
    BY <1>1
  <2> HIDE DEF T
  <2> QED BY <1>2, <1>3, <2>1
<1>5. Max(T) = s - 1
  <2>1. \A k \in T : k \in Int
    BY <1>1
  <2> HIDE DEF T
  <2> QED BY <1>4, <2>1 DEF Max
<1> QED BY <1>5 DEF RowsBefore, RebuiltFor, Own

\* Leaving an instrument keeps the invariant.
LEMMA FinishInstrumentInv ==
  ASSUME IInv, FinishInstrument
  PROVE  IInv'
<1> USE DEF IInv, FinishInstrument, tables, batch, FreshFold
<1>1. StoredDeals' = StoredDeals /\ Instruments' = Instruments
  BY StoreKept
<1>2. TypeOK'
  BY DEF TypeOK
<1>3. TablePart'
  <2>1. inst \in Instruments \ todo /\ NoValue \notin Instruments /\ todo \subseteq Instruments
    BY StoredAreDeals DEF FoldPart, TablePart
  <2>2. Done' = Done \cup {inst}
    BY <1>1, <2>1 DEF Done
  <2>3. RowsBefore(inst, s)' = {}
    BY NoRowsYet DEF RowsBefore
  <2>4. RowsBefore(inst, s) = RebuiltFor(StoredDeals, inst)
    BY RowsComplete
  <2>5. positions = (UNION {RebuiltFor(StoredDeals, x) : x \in Done})
                    \cup RebuiltFor(StoredDeals, inst)
    BY <2>4 DEF TablePart
  <2> QED BY <1>1, <2>1, <2>2, <2>3, <2>5 DEF TablePart
<1>4. FoldPart' /\ FillPart'
  BY DEF FoldPart, FillPart
<1>5. inst' = NoValue /\ rows' = {}
  OBVIOUS
<1> QED BY <1>2, <1>3, <1>4, <1>5, StoreKept, PublishedKept
        DEF Between, NoRebuild, IngestOnly, RebuildOnly, NoStream

\* The commit of rebuild_positions keeps the invariant.
LEMMA CommitRebuildInv ==
  ASSUME IInv, CommitRebuild
  PROVE  IInv'
<1> USE DEF IInv, CommitRebuild, Commit, batch, cursor
<1>1. TypeOK'
  BY DEF TypeOK
<1>2. FoldPart' /\ FillPart' /\ TablePart'
  BY NotRebuilding
<1> QED BY <1>1, <1>2, StoreKept, PublishedKept
        DEF Between, NoRebuild, IngestOnly, RebuildOnly, NoStream

\* Steps of the environment that touch no variable keep the invariant.
LEMMA StutterInv ==
  ASSUME IInv, UNCHANGED vars
  PROVE  IInv'
<1> USE DEF IInv, vars, tables, batch, cursor
<1>1. /\ StoredDeals' = StoredDeals /\ Instruments' = Instruments
      /\ RowsOf(inst)' = RowsOf(inst) /\ Done' = Done /\ Folded' = Folded
      /\ RowsBefore(inst, s)' = RowsBefore(inst, s)
  BY StoreKept DEF RowsOf, Done, Folded, Payloads, RowsBefore, Own
<1>2. TypeOK'
  BY DEF TypeOK
<1>3. TablePart' /\ FoldPart' /\ FillPart'
  BY <1>1 DEF TablePart, FoldPart, FillPart
<1> QED BY <1>2, <1>3, StoreKept, PublishedKept
        DEF Between, NoRebuild, IngestOnly, RebuildOnly, NoStream

\* A call of ingest_stream and one of rebuild_positions keep the invariant.
LEMMA CallsKeep ==
  ASSUME IInv, Canonical(Arrived), IngestStep \/ Rebuild
  PROVE  IInv'
BY AcceptInv, RejectInv, CommitStreamInv, BeginRebuildInv, SelectInstrumentInv, FoldRowInv,
   InsertSessionInv, FinishInstrumentInv, CommitRebuildInv DEF IngestStep, Rebuild

\* Among well-numbered messages whatever has arrived is well-numbered.
LEMMA ArrivedIsCanonical ==
  ASSUME Canonical(Deals), IInv
  PROVE  Canonical(Arrived)
<1>1. Arrived \subseteq Deals
  <2>1. \A k \in DOMAIN stream : stream[k] \in Messages
    BY DEF IInv, TypeOK
  <2> QED BY <2>1, StoredAreDeals DEF Arrived, Deals
<1> QED BY <1>1 DEF Canonical, KeysIdentify, SequencesOrder

\* The strengthened invariant holds in every reachable state: each operation of
\* the ledger, and each crash, preserves it.
THEOREM Invariance == Canonical(Deals) => (Spec => []IInv)
<1> SUFFICES ASSUME Canonical(Deals) PROVE Spec => []IInv
  OBVIOUS
<1>1. IInv /\ [Next]_vars => IInv'
  <2> SUFFICES ASSUME IInv, [Next]_vars PROVE IInv'
    OBVIOUS
  <2>1. ASSUME NEW list \in Streams, BeginIngest(list) PROVE IInv'
    BY <2>1, BeginIngestInv
  <2>2. CASE IngestStep \/ Rebuild
    BY <2>2, ArrivedIsCanonical, CallsKeep
  <2>3. CASE Crash
    BY <2>3, CrashInv
  <2>4. CASE UNCHANGED vars
    BY <2>4, StutterInv
  <2> QED BY <2>1, <2>2, <2>3, <2>4 DEF Next
<1> QED BY InitInv, <1>1, PTL DEF Spec

-----------------------------------------------------------------------------
(* The theorems.                                                           *)

\* The images of the database and the locals of the rebuild keep their types;
\* in particular no instrument ever has two rows for one session, also in the
\* half-filled table of a rebuild under way.
THEOREM TypeCorrect == Canonical(Deals) => (Spec => []TypeOK)
<1> SUFFICES ASSUME Canonical(Deals) PROVE Spec => []TypeOK
  OBVIOUS
<1>1. IInv => TypeOK
  BY DEF IInv
<1> QED BY <1>1, Invariance, PTL

\* Every complete message that ingest_stream has gone past is in the table, in
\* one row that shares its key with no other.
THEOREM NothingIsLost == Canonical(Deals) => (Spec => []DeliveredIsStored)
<1> SUFFICES ASSUME Canonical(Deals) PROVE Spec => []DeliveredIsStored
  OBVIOUS
<1>1. IInv => DeliveredIsStored
  BY DEF IInv
<1> QED BY <1>1, Invariance, PTL

\* What the invariant says of a rebuild about to commit.
LEMMA RebuiltTable == IInv => RebuildIsReference
<1> SUFFICES ASSUME IInv, pc = "rebuild", todo = {}
             PROVE  positions = Rebuilt(Payloads(messages))
  BY DEF RebuildIsReference
<1>1. inst = NoValue /\ s = 0
      /\ positions = (UNION {RebuiltFor(StoredDeals, x) : x \in Done}) \cup RowsBefore(inst, s)
  BY DEF IInv, NoRebuild, TablePart
<1>2. Done = Instruments
  BY <1>1, StoredAreDeals DEF Done
<1>3. RowsBefore(inst, s) = {}
  BY <1>1, NoRowsYet
<1> QED BY <1>1, <1>2, <1>3 DEF Rebuilt, Instruments, StoredDeals

\* rebuild_positions commits the table the set of stored messages stands for:
\* for every session up to the instrument's last, the sum of the last words on
\* its deals, whatever the order of arrival and whatever the table held before.
THEOREM RebuildIsCorrect == Canonical(Deals) => (Spec => []RebuildIsReference)
<1> SUFFICES ASSUME Canonical(Deals) PROVE Spec => []RebuildIsReference
  OBVIOUS
<1> QED BY RebuiltTable, Invariance, PTL

\* An instrument has a row for every session up to its last one, by which all
\* its messages have come.
LEMMA RowsOfInstrument ==
  ASSUME NEW F \in SUBSET Deals, IsFiniteSet(F), NEW x \in {m.instrument : m \in F}
  PROVE  \E n \in Nat :
           /\ {m \in DealsOf(F, x) : m.session <= n} = DealsOf(F, x)
           /\ RebuiltFor(F, x) =
                {SessionRow(x, k, NetVolume({m \in DealsOf(F, x) : m.session <= k})) : k \in 0 .. n}
<1> DEFINE own == DealsOf(F, x)
           last == {m.session : m \in own}
<1>1. own \in SUBSET Deals /\ own # {} /\ IsFiniteSet(own)
  <2>1. own \in SUBSET F /\ own # {}
    BY DEF DealsOf
  <2> HIDE DEF own
  <2> QED BY <2>1, FS_Subset
<1>2. last # {} /\ last \in SUBSET Nat /\ IsFiniteSet(last)
  <2> DEFINE sessionOf == [m \in own |-> m.session]
  <2>1. IsFiniteSet({sessionOf[m] : m \in own})
    <3> HIDE DEF own, sessionOf
    <3> QED BY <1>1, ImageIsFinite
  <2>2. {sessionOf[m] : m \in own} = last
    OBVIOUS
  <2>3. \A m \in own : m.session \in Nat
    BY <1>1, MessagesAssumption DEF Deals
  <2> QED BY <1>1, <2>1, <2>2, <2>3
<1>3. PICK n \in last : \A k \in last : n >= k
  <2> HIDE DEF last
  <2>1. last \in SUBSET Int
    BY <1>2
  <2> QED BY <2>1, <1>2, GreatestInt
<1>4. n \in Nat /\ Max(last) = n
  <2>1. \A k \in last : k \in Int /\ k \in Nat
    BY <1>2
  <2> HIDE DEF last
  <2> QED BY <1>3, <2>1 DEF Max
<1>5. {m \in own : m.session <= n} = own
  <2>1. \A m \in own : m.session \in last /\ m.session \in Nat
    BY <1>2
  <2> HIDE DEF own, last
  <2> QED BY <1>3, <1>4, <2>1
<1> QED BY <1>4, <1>5 DEF RebuiltFor

\* The row of the last session, and only it, is final, and carries the whole
\* net volume.
LEMMA FinalRow ==
  ASSUME NEW F \in SUBSET Deals, IsFiniteSet(F), NEW x \in {m.instrument : m \in F}
  PROVE  /\ \E p \in FinalPositions(Rebuilt(F)) : p.instrument = x
         /\ \A p \in FinalPositions(Rebuilt(F)) :
              p.instrument = x => p.quantity = NetVolume(DealsOf(F, x))
<1>1. PICK n \in Nat :
           /\ {m \in DealsOf(F, x) : m.session <= n} = DealsOf(F, x)
           /\ RebuiltFor(F, x) =
                {SessionRow(x, k, NetVolume({m \in DealsOf(F, x) : m.session <= k})) : k \in 0 .. n}
  BY RowsOfInstrument
<1> DEFINE net(k) == NetVolume({m \in DealsOf(F, x) : m.session <= k})
           table == Rebuilt(F)
           top == SessionRow(x, n, net(n))
<1>2. \A y : \A p \in RebuiltFor(F, y) : p.instrument = y
  BY RowsAreOwn
<1>3. \A p : p \in table /\ p.instrument = x <=> p \in RebuiltFor(F, x)
  BY <1>2 DEF Rebuilt
<1>4. \A k : SessionRow(x, k, net(k)).session_id = k /\ SessionRow(x, k, net(k)).instrument = x
             /\ SessionRow(x, k, net(k)).quantity = net(k)
  BY DEF SessionRow
<1>5. RebuiltFor(F, x) = {SessionRow(x, k, net(k)) : k \in 0 .. n} /\ n \in 0 .. n
  BY <1>1
<1>6. net(n) = NetVolume(DealsOf(F, x))
  BY <1>1
<1> HIDE DEF net, table
<1>7. top \in RebuiltFor(F, x)
  BY <1>5
<1>8. ASSUME NEW p \in RebuiltFor(F, x)
      PROVE  p.session_id \in 0 .. n /\ (p.session_id = n => p = top)
  <2>1. PICK k \in 0 .. n : p = SessionRow(x, k, net(k))
    BY <1>5
  <2> QED BY <1>4, <2>1
<1>9. top.session_id = n /\ top.instrument = x /\ top.quantity = NetVolume(DealsOf(F, x))
  BY <1>4, <1>6
<1> HIDE DEF top
<1>10. top \in FinalPositions(table)
  <2>1. top \in table
    BY <1>3, <1>7
  <2>2. ASSUME NEW q \in table, q.instrument = top.instrument PROVE q.session_id <= top.session_id
    <3>1. q.session_id \in 0 .. n
      BY <1>3, <1>8, <1>9, <2>2
    <3> QED BY <1>9, <3>1
  <2> QED BY <2>1, <2>2 DEF FinalPositions
<1>11. ASSUME NEW p \in FinalPositions(table), p.instrument = x
       PROVE  p.quantity = NetVolume(DealsOf(F, x))
  <2>1. p \in RebuiltFor(F, x) /\ top \in table /\ n <= p.session_id
    BY <1>3, <1>7, <1>9, <1>11 DEF FinalPositions
  <2>2. p.session_id = n
    BY <1>8, <2>1
  <2> QED BY <1>8, <1>9, <2>1, <2>2
<1> QED BY <1>9, <1>10, <1>11 DEF table

\* The row of an instrument's last session carries all its messages.
LEMMA LastRow ==
  ASSUME IInv, pc = "rebuild", todo = {}, NEW p \in FinalPositions(positions)
  PROVE  p.quantity = NetVolume(DealsOf(Payloads(messages), p.instrument))
<1> DEFINE F == StoredDeals
<1>1. positions = Rebuilt(F)
  BY RebuiltTable DEF RebuildIsReference, StoredDeals
<1>2. F \in SUBSET Deals /\ IsFiniteSet(F)
  <2> DEFINE msgOf == [r \in messages |-> r.msg]
  <2>1. IsFiniteSet({msgOf[r] : r \in messages})
    <3> HIDE DEF msgOf
    <3> QED BY ImageIsFinite DEF IInv
  <2>2. {msgOf[r] : r \in messages} = F
    BY DEF StoredDeals, Payloads
  <2> QED BY <2>1, <2>2, StoredAreDeals
<1>3. \A y : \A q \in RebuiltFor(F, y) : q.instrument = y
  BY RowsAreOwn
<1>4. p.instrument \in {m.instrument : m \in F} /\ p \in FinalPositions(Rebuilt(F))
  <2>1. p \in Rebuilt(F)
    BY <1>1 DEF FinalPositions
  <2>2. PICK y \in {m.instrument : m \in F} : p \in RebuiltFor(F, y)
    BY <2>1 DEF Rebuilt
  <2> QED BY <1>1, <1>3, <2>2
<1> HIDE DEF F
<1>5. p.quantity = NetVolume(DealsOf(F, p.instrument))
  BY <1>2, <1>4, FinalRow
<1> QED BY <1>5 DEF F, StoredDeals

\* What final_positions reports after a rebuild is the net of the volumes every
\* deal was last left with: cancelled deals weigh nothing, amended ones once.
THEOREM FinalIsNet == Canonical(Deals) => (Spec => []FinalIsNetOpenVolume)
<1> SUFFICES ASSUME Canonical(Deals) PROVE Spec => []FinalIsNetOpenVolume
  OBVIOUS
<1>1. IInv => FinalIsNetOpenVolume
  BY LastRow DEF FinalIsNetOpenVolume
<1> QED BY <1>1, Invariance, PTL

\* The commodity ledger implements the same abstract ledger as the options
\* ledger: what is committed changes only by a whole batch becoming visible or
\* by the positions being replaced with the rebuild of what is stored.
THEOREM ImplementsLedger == Canonical(Deals) => (Spec => LedgerSpec)
<1> SUFFICES ASSUME Canonical(Deals) PROVE Spec => LedgerSpec
  OBVIOUS
<1>1. Init => Ledger!Init
  BY DEF Init, StoreInit, Ledger!Init, Payloads
<1>2. IInv /\ [Next]_vars => [Ledger!Next]_<<Payloads(savedMessages), savedPositions>>
  <2> SUFFICES ASSUME IInv, [Next]_vars
               PROVE  [Ledger!Next]_<<Payloads(savedMessages), savedPositions>>
    OBVIOUS
  <2> USE DEF tables, batch, cursor
  <2>1. CASE CommitStream
    <3>1. savedPositions' = savedPositions /\ savedMessages' = messages
      BY <2>1 DEF CommitStream, Commit, IInv, IngestOnly
    <3>2. Payloads(savedMessages)' = Payloads(savedMessages) \cup Payloads(messages)
      BY <3>1 DEF Payloads, IInv, IngestOnly
    <3>3. Payloads(messages) \in SUBSET Messages
      BY DEF IInv, TypeOK, Payloads, Row
    <3>4. Ledger!Deliver
      BY <3>1, <3>2, <3>3 DEF Ledger!Deliver
    <3> QED BY <3>4 DEF Ledger!Next
  <2>2. CASE CommitRebuild
    <3>1. savedMessages' = savedMessages /\ savedMessages = messages
          /\ savedPositions' = Rebuilt(Payloads(savedMessages))
      BY <2>2, RebuiltTable DEF CommitRebuild, Commit, IInv, RebuildOnly, RebuildIsReference
    <3>2. Ledger!Publish
      BY <3>1 DEF Ledger!Publish, Payloads
    <3> QED BY <3>2 DEF Ledger!Next
  <2>3. CASE ~CommitStream /\ ~CommitRebuild
    <3>1. savedMessages' = savedMessages /\ savedPositions' = savedPositions
      BY <2>3 DEF Next, vars, BeginIngest, BeginStream, IngestStep, AcceptMessage,
           RejectMessage, Rebuild, BeginRebuild, SelectInstrument, FoldRow,
           InsertSession, FinishInstrument, Crash, Restart
    <3> QED BY <3>1 DEF Payloads
  <2> QED BY <2>1, <2>2, <2>3
<1> QED BY <1>1, <1>2, Invariance, PTL DEF Spec, LedgerSpec, Ledger!Spec
=============================================================================
