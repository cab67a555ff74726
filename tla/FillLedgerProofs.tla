-------------------------- MODULE FillLedgerProofs --------------------------
(***************************************************************************)
(* Theorems about FillLedger for every set of fills numbered as the        *)
(* simulator numbers them, every set of streams and every length of calls. *)
(***************************************************************************)
EXTENDS CanonicalFills, RecursionAndSums

Sessions == {m.session : m \in Messages}
Accumulator == [pos : Position, last : Sessions \cup {NoValue}]

\* What the ledger has and what it is being given: the fills whose numbering
\* the proofs rely on.
Arrived == StoredFills \cup {stream[n] : n \in {k \in DOMAIN stream : Storable(stream[k])}}

-----------------------------------------------------------------------------
(* The fold and the reference it is compared with.                         *)

\* _fold never divides by a quantity of zero.
LEMMA FoldKeepsPositions ==
  ASSUME NEW p \in Position, NEW q \in Int, NEW price \in Int
  PROVE  Fold(p, q, price) \in Position
<1>1. p = [qty |-> p.qty, num |-> p.num, den |-> p.den]
      /\ p.qty \in Int /\ p.num \in Int /\ p.den \in Int \ {0} /\ p.qty + q \in Int
  BY DEF Position
<1>2. \A a, b \in Int : a # 0 /\ b # 0 => a * b # 0 /\ a * b \in Int
  BY SMTT(30)
<1>3. ASSUME p.qty + q # 0 PROVE Blend(p, q, price) \in Position
  <2>1. p.den * (p.qty + q) \in Int \ {0} /\ p.qty * p.num + q * price * p.den \in Int
    BY <1>1, <1>2, <1>3
  <2> QED BY <1>1, <2>1 DEF Blend, Position
<1>4. /\ Flat \in Position /\ [qty |-> p.qty + q, num |-> price, den |-> 1] \in Position
      /\ [p EXCEPT !.qty = @ + q] \in Position
  BY <1>1 DEF Flat, Position
<1> QED BY <1>3, <1>4 DEF Fold

\* One step of the rebuild keeps its accumulator well-formed.
LEMMA ApplyType ==
  ASSUME NEW a \in Accumulator, NEW m \in Fills
  PROVE  Apply(a, m) \in Accumulator /\ Apply(a, m).last # NoValue
<1>1. m.quantity \in Int /\ m.price \in Int /\ m.session \in Sessions /\ m.session # NoValue
  BY MessagesAssumption DEF Fills, Sessions
<1>2. Fold(a.pos, m.quantity, m.price) \in Position
  BY <1>1, FoldKeepsPositions DEF Accumulator
<1> QED BY <1>1, <1>2 DEF Apply, Accumulator

\* The accumulator a rebuild starts an instrument with is well-formed.
LEMMA StartType == Start \in Accumulator
BY DEF Start, Accumulator, Flat, Position

\* The recursive definition of the running position unfolds, for every set of
\* complete fills: it starts flat, skips the numbers no fill carries and
\* applies the fill that carries one.
LEMMA RunningUnfolds ==
  ASSUME NEW F \in SUBSET Fills, NEW x
  PROVE  /\ Running(F, x) \in [Nat -> Accumulator]
         /\ Running(F, x)[0] = Start
         /\ \A n \in Nat \ {0} :
              Running(F, x)[n] =
                IF FillsAt(F, x, n) = {} THEN Running(F, x)[n - 1]
                ELSE Apply(Running(F, x)[n - 1], CHOOSE m \in FillsAt(F, x, n) : TRUE)
<1> DEFINE Next1(n, a) == IF FillsAt(F, x, n) = {} THEN a
                          ELSE Apply(a, CHOOSE m \in FillsAt(F, x, n) : TRUE)
           step == [n \in Nat |-> [a \in Accumulator |-> Next1(n, a)]]
           Body(f) == [n \in Nat |-> IF n = 0 THEN Start ELSE
                         IF FillsAt(F, x, n) = {} THEN f[n - 1]
                         ELSE Apply(f[n - 1], CHOOSE m \in FillsAt(F, x, n) : TRUE)]
<1>1. \A n \in Nat, a \in Accumulator : Next1(n, a) \in Accumulator
  BY ApplyType DEF FillsAt
<1>2. step \in [Nat -> [Accumulator -> Accumulator]]
  <2> HIDE DEF Next1
  <2> QED BY <1>1
<1>3. PICK f : Follows(f, Accumulator, Start, step)
  <2> HIDE DEF step
  <2> QED BY <1>2, StartType, RecursionDefines
<1>4. \A n \in Nat \ {0} : f[n] = Next1(n, f[n - 1])
  <2>1. \A n \in Nat \ {0} : n - 1 \in Nat /\ n \in Nat /\ f[n - 1] \in Accumulator
    BY <1>3 DEF Follows
  <2> HIDE DEF Next1
  <2> QED BY <1>3, <2>1 DEF Follows
<1>5. f = Body(f)
  BY <1>3, <1>4 DEF Follows
<1>6. Running(F, x) = CHOOSE g : g = Body(g)
  BY DEF Running
<1>7. Running(F, x) = Body(Running(F, x))
  <2> HIDE DEF Body
  <2> QED BY <1>5, <1>6
<1> DEFINE R == Running(F, x)
<1>8. R = [n \in Nat |-> IF n = 0 THEN Start ELSE Next1(n, R[n - 1])]
  BY <1>7
<1>9. R[0] = Start /\ \A n \in Nat \ {0} : R[n] = Next1(n, R[n - 1])
  <2> HIDE DEF R, Next1
  <2> QED BY <1>8
<1>10. \A n \in Nat : R[n] \in Accumulator
  <2> DEFINE Bad == {n \in Nat : R[n] \notin Accumulator}
  <2> SUFFICES ASSUME Bad # {} PROVE FALSE
    OBVIOUS
  <2>1. PICK b \in Bad : \A k \in Bad : b <= k
    <3> Bad \in SUBSET Nat
      OBVIOUS
    <3> HIDE DEF Bad
    <3> QED BY LeastNat
  <2>2. b \in Nat /\ R[b] \notin Accumulator
    BY <2>1
  <2>3. b # 0
    BY <1>9, <2>2, StartType
  <2>4. b - 1 \in Nat /\ ~(b <= b - 1)
    BY <2>2, <2>3
  <2>5. R[b - 1] \in Accumulator
    BY <2>1, <2>4
  <2>6. R[b] = Next1(b, R[b - 1])
    BY <1>9, <2>2, <2>3
  <2> HIDE DEF R, Next1
  <2> QED BY <1>1, <2>2, <2>5, <2>6
<1>11. R \in [Nat -> Accumulator]
  BY <1>8, <1>10
<1> QED BY <1>9, <1>11

\* No fill of F for x is numbered from j + 1 to k.
Quiet(F, x, j, k) == \A n \in (j + 1) .. k : FillsAt(F, x, n) = {}

\* Numbers that no fill carries leave the running position as it was.
LEMMA RunningSkips ==
  ASSUME NEW F \in SUBSET Fills, NEW x, NEW j \in Nat, NEW k \in Nat, j <= k,
         Quiet(F, x, j, k)
  PROVE  Running(F, x)[k] = Running(F, x)[j]
<1> DEFINE R == Running(F, x)
           Bad == {n \in Nat : j <= n /\ n <= k /\ R[n] # R[j]}
<1> SUFFICES ASSUME Bad # {} PROVE FALSE
  OBVIOUS
<1>1. PICK b \in Bad : \A n \in Bad : b <= n
  <2> Bad \in SUBSET Nat
    OBVIOUS
  <2> HIDE DEF Bad
  <2> QED BY LeastNat
<1>2. b \in Nat /\ j <= b /\ b <= k /\ R[b] # R[j]
  BY <1>1
<1>3. b # j
  BY <1>2
<1>4. b \in (j + 1) .. k /\ b \in Nat \ {0} /\ b - 1 \in Nat /\ j <= b - 1 /\ b - 1 <= k
      /\ ~(b <= b - 1)
  BY <1>2, <1>3
<1>5. R[b - 1] = R[j]
  BY <1>1, <1>4
<1>6. R[b] = R[b - 1]
  BY <1>4, RunningUnfolds DEF Quiet
<1> QED BY <1>2, <1>5, <1>6

-----------------------------------------------------------------------------
(* The inductive invariant, action by action.                              *)

\* Every stored row is one of the complete messages of the producers.
LEMMA StoredAreFills ==
  ASSUME IInv
  PROVE  /\ StoredFills \in SUBSET Fills
         /\ \A r \in messages : r.msg \in Fills /\ r \in Row
BY DEF IInv, TypeOK, StoredFills, Payloads, Fills, Row

\* An empty database satisfies the invariant.
LEMMA InitInv == Init => IInv
<1> SUFFICES ASSUME Init PROVE IInv
  OBVIOUS
<1>1. << >> \in Seq(Messages) /\ Len(<< >>) = 0
  OBVIOUS
<1>2. TypeOK
  BY <1>1, StartType DEF Init, StoreInit, TypeOK, Accumulator, Sessions
<1>3. OneRowPerKey /\ StoredFills = {}
  BY DEF Init, StoreInit, OneRowPerKey, StoredFills, Payloads
<1>4. DeliveredIsStored
  BY DEF Init, StoreInit, DeliveredIsStored
<1> QED BY <1>2, <1>3, <1>4 DEF IInv, Init, StoreInit, Between, NoRebuild, IngestOnly,
                               RebuildOnly, NoStream, TablePart, FoldPart

\* Outside a rebuild the two parts about its progress say nothing.
LEMMA NotRebuilding ==
  ASSUME pc' \in {"idle", "ingest"}
  PROVE  TablePart' /\ FoldPart'
BY DEF TablePart, FoldPart

\* Being called with a list (ingest_stream) keeps the invariant.
LEMMA BeginIngestInv ==
  ASSUME IInv, NEW list \in Streams, BeginIngest(list)
  PROVE  IInv'
<1> USE DEF IInv, BeginIngest, BeginStream, tables, cursor
<1>1. list \in Seq(Messages) /\ 0 \in 0 .. Len(list)
  BY StreamsAssumption
<1>2. TypeOK'
  BY <1>1 DEF TypeOK
<1>3. OneRowPerKey' /\ (\A m \in StoredFills : Storable(m))'
  BY DEF OneRowPerKey, StoredFills, Payloads
<1>4. DeliveredIsStored'
  BY DEF DeliveredIsStored
<1>5. TablePart' /\ FoldPart'
  BY NotRebuilding
<1> QED BY <1>2, <1>3, <1>4, <1>5
        DEF Between, NoRebuild, IngestOnly, RebuildOnly, NoStream

\* An INSERT that succeeds keeps the invariant.
LEMMA AcceptInv ==
  ASSUME IInv, AcceptMessage, UNCHANGED cursor
  PROVE  IInv'
<1> USE DEF IInv, AcceptMessage, cursor
<1> DEFINE m == stream[i + 1]
           row == [msg |-> m, received_at |-> i]
<1>1. /\ i \in Nat /\ i + 1 \in 0 .. Len(stream) /\ i + 1 \in DOMAIN stream
      /\ m \in Messages
  BY DEF TypeOK
<1>2. row \in Row /\ messages' = messages \cup {row} /\ row.msg = m
  BY <1>1 DEF Row
<1>3. Storable(m) /\ \A r \in messages : ~SameKey(r.msg, m)
  BY DEF Rejected
<1>4. TypeOK'
  BY <1>1, <1>2 DEF TypeOK
<1>5. OneRowPerKey'
  <2> SUFFICES ASSUME NEW r \in messages', NEW u \in messages', SameKey(r.msg, u.msg)
               PROVE  r = u
    BY DEF OneRowPerKey
  <2>1. SameKey(u.msg, r.msg)
    BY DEF SameKey
  <2> HIDE DEF row, m
  <2> QED BY <1>2, <1>3, <2>1 DEF OneRowPerKey
<1>6. StoredFills' = StoredFills \cup {m}
  BY <1>2 DEF StoredFills, Payloads
<1>7. DeliveredIsStored'
  <2> SUFFICES ASSUME NEW n \in 1 .. (i + 1), Storable(stream[n])
               PROVE  stream[n] \in StoredFills'
    BY DEF DeliveredIsStored, StoredFills
  <2>1. CASE n = i + 1
    BY <1>6, <2>1
  <2>2. CASE n \in 1 .. i
    BY <1>6, <2>2 DEF DeliveredIsStored, StoredFills
  <2> QED BY <2>1, <2>2, <1>1
<1>8. (\A f \in StoredFills : Storable(f))'
  BY <1>3, <1>6
<1>9. TablePart' /\ FoldPart'
  BY NotRebuilding
<1>10. Between' /\ NoRebuild' /\ RebuildOnly' /\ NoStream'
  BY DEF Between, NoRebuild, RebuildOnly, NoStream
<1>11. IngestOnly'
  BY <1>2 DEF IngestOnly
<1> QED BY <1>4, <1>5, <1>7, <1>8, <1>9, <1>10, <1>11

\* An INSERT that raises IntegrityError keeps the invariant.
LEMMA RejectInv ==
  ASSUME IInv, Canonical(Arrived), RejectMessage, UNCHANGED cursor
  PROVE  IInv'
<1> USE DEF IInv, RejectMessage, cursor, tables
<1>1. /\ i \in Nat /\ i + 1 \in 0 .. Len(stream) /\ i + 1 \in DOMAIN stream
      /\ stream[i + 1] \in Messages
  BY DEF TypeOK
<1>2. TypeOK'
  BY <1>1 DEF TypeOK
<1>3. StoredFills' = StoredFills
  BY DEF StoredFills, Payloads
<1>4. OneRowPerKey'
  BY DEF OneRowPerKey
\* The message refused is the one already stored under its key.
<1>5. Storable(stream[i + 1]) => stream[i + 1] \in StoredFills
  <2> SUFFICES ASSUME Storable(stream[i + 1]) PROVE stream[i + 1] \in StoredFills
    OBVIOUS
  <2>1. PICK r \in messages : SameKey(r.msg, stream[i + 1])
    BY DEF Rejected
  <2>2. r.msg \in Arrived /\ stream[i + 1] \in Arrived
    BY <1>1 DEF Arrived, StoredFills, Payloads
  <2>3. r.msg = stream[i + 1]
    BY <2>1, <2>2 DEF Canonical, KeysIdentify
  <2> QED BY <2>3 DEF StoredFills, Payloads
<1>6. DeliveredIsStored'
  <2> SUFFICES ASSUME NEW n \in 1 .. (i + 1), Storable(stream[n])
               PROVE  stream[n] \in StoredFills
    BY <1>3 DEF DeliveredIsStored, StoredFills
  <2>1. CASE n = i + 1
    BY <1>5, <2>1
  <2>2. CASE n \in 1 .. i
    BY <2>2 DEF DeliveredIsStored, StoredFills
  <2> QED BY <2>1, <2>2, <1>1
<1>7. TablePart' /\ FoldPart'
  BY NotRebuilding
<1> QED BY <1>2, <1>3, <1>4, <1>6, <1>7
        DEF Between, NoRebuild, IngestOnly, RebuildOnly, NoStream

\* The commit of ingest_stream keeps the invariant.
LEMMA CommitStreamInv ==
  ASSUME IInv, CommitStream, UNCHANGED cursor
  PROVE  IInv'
<1> USE DEF IInv, CommitStream, Commit, EndBatch, cursor
<1>1. << >> \in Seq(Messages) /\ Len(<< >>) = 0
  OBVIOUS
<1>2. TypeOK'
  BY <1>1 DEF TypeOK
<1>3. StoredFills' = StoredFills /\ OneRowPerKey' /\ DeliveredIsStored'
  BY DEF StoredFills, Payloads, OneRowPerKey, DeliveredIsStored
<1>4. TablePart' /\ FoldPart'
  BY NotRebuilding
<1> QED BY <1>2, <1>3, <1>4
        DEF Between, NoRebuild, IngestOnly, RebuildOnly, NoStream

\* Losing the open transaction keeps the invariant.
LEMMA CrashInv ==
  ASSUME IInv, Crash
  PROVE  IInv'
<1> USE DEF IInv, Crash, Restart, EndBatch
<1>1. << >> \in Seq(Messages) /\ Len(<< >>) = 0
  OBVIOUS
<1>2. TypeOK'
  BY <1>1, StartType DEF TypeOK, Accumulator, Sessions
<1>3. StoredFills' \subseteq StoredFills /\ OneRowPerKey'
  BY DEF StoredFills, Payloads, OneRowPerKey, IngestOnly
<1>4. DeliveredIsStored'
  BY DEF DeliveredIsStored
<1>5. TablePart' /\ FoldPart'
  BY NotRebuilding
<1> QED BY <1>2, <1>3, <1>4, <1>5
        DEF Between, NoRebuild, IngestOnly, RebuildOnly, NoStream

\* DELETE FROM positions, with all instruments to do, keeps the invariant.
LEMMA BeginRebuildInv ==
  ASSUME IInv, BeginRebuild
  PROVE  IInv'
<1> USE DEF IInv, BeginRebuild, batch
<1>1. StoredFills' = StoredFills
  BY DEF StoredFills, Payloads
<1>2. TypeOK'
  BY DEF TypeOK, Instruments, Payloads, Row
<1>3. OneRowPerKey' /\ DeliveredIsStored'
  BY DEF OneRowPerKey, DeliveredIsStored, Payloads
<1>4. TablePart'
  <2>1. /\ inst' = NoValue /\ rows' = {} /\ acc' = Start
        /\ todo' = Instruments(StoredFills) /\ positions' = {}
    BY DEF NoRebuild, StoredFills
  <2>2. Done' = {}
    BY <1>1, <2>1 DEF Done
  <2> QED BY <1>1, <2>1, <2>2 DEF TablePart
<1>5. FoldPart'
  BY DEF FoldPart
<1> QED BY <1>1, <1>2, <1>3, <1>4, <1>5
        DEF Between, NoRebuild, IngestOnly, RebuildOnly, NoStream

\* Fetching the rows of an instrument keeps the invariant.
LEMMA SelectInstrumentInv ==
  ASSUME IInv, SelectInstrument
  PROVE  IInv'
<1> USE DEF IInv, SelectInstrument, tables, batch
<1>1. StoredFills' = StoredFills
  BY DEF StoredFills, Payloads
<1>2. PICK x \in todo : inst' = x /\ rows' = RowsOf(x) /\ todo' = todo \ {x}
  OBVIOUS
<1>3. TypeOK'
  BY <1>2, StartType DEF TypeOK, RowsOf, Accumulator, Sessions
<1>4. OneRowPerKey' /\ DeliveredIsStored'
  BY DEF OneRowPerKey, DeliveredIsStored, Payloads
<1>5. TablePart'
  <2>1. inst = NoValue /\ todo \subseteq Instruments(StoredFills)
    BY DEF TablePart
  <2>2. NoValue \notin Instruments(StoredFills)
    BY StoredAreFills, MessagesAssumption DEF Instruments, Fills
  <2>3. todo' \cup {inst'} = todo /\ Done' = Done
    BY <1>1, <1>2, <2>1, <2>2 DEF Done
  <2> QED BY <1>1, <1>2, <2>1, <2>3 DEF TablePart
<1>6. FoldPart'
  <2>1. x \in Instruments(StoredFills) /\ x \notin todo'
    BY <1>2 DEF TablePart
  <2>2. RowsOf(x)' = RowsOf(x)
    BY DEF RowsOf
  <2>3. ASSUME NEW k \in 0 .. MaxSequence, rows' = {r \in RowsOf(x) : r.msg.sequence > k}
        PROVE  acc' = Running(StoredFills, x)[k]
    <3>1. \A r \in RowsOf(x) : r.msg.sequence \in 1 .. MaxSequence /\ r.msg.sequence > k
      BY <1>2, <2>3, StoredAreFills, MessagesAssumption DEF RowsOf, Fills
    <3>2. Quiet(StoredFills, x, 0, k)
      BY <3>1, MaxSequenceAssumption DEF Quiet, FillsAt, StoredFills, Payloads, RowsOf
    <3>3. StoredFills \in SUBSET Fills /\ k \in Nat /\ 0 \in Nat /\ 0 <= k
      BY StoredAreFills, MaxSequenceAssumption
    <3>4. Running(StoredFills, x)[k] = Running(StoredFills, x)[0]
      BY <3>2, <3>3, RunningSkips
    <3> QED BY <3>3, <3>4, RunningUnfolds
  <2> QED BY <1>1, <1>2, <2>1, <2>2, <2>3 DEF FoldPart
<1> QED BY <1>1, <1>3, <1>4, <1>5, <1>6
        DEF Between, NoRebuild, IngestOnly, RebuildOnly, NoStream

\* Folding the row of the least sequence number keeps the invariant.
LEMMA FoldRowInv ==
  ASSUME IInv, Canonical(Arrived), FoldRow
  PROVE  IInv'
<1> USE DEF IInv, FoldRow, tables, batch
<1>1. PICK r \in rows : /\ \A u \in rows : r.msg.sequence <= u.msg.sequence
                        /\ acc' = Apply(acc, r.msg)
                        /\ rows' = rows \ {r}
  OBVIOUS
<1>2. StoredFills' = StoredFills /\ RowsOf(inst)' = RowsOf(inst) /\ inst' = inst
  BY DEF StoredFills, Payloads, RowsOf
<1>3. rows \subseteq RowsOf(inst) /\ r \in RowsOf(inst) /\ r.msg \in Fills
      /\ r.msg \in StoredFills /\ r.msg.instrument = inst
  BY StoredAreFills DEF FoldPart, RowsOf, StoredFills, Payloads
<1>4. acc \in Accumulator /\ acc' \in Accumulator /\ acc'.last # NoValue
  <2>1. acc \in Accumulator
    BY DEF TypeOK, Accumulator, Sessions
  <2> QED BY <2>1, <1>1, <1>3, ApplyType
<1>5. TypeOK'
  BY <1>1, <1>4 DEF TypeOK, Accumulator, Sessions
<1>6. OneRowPerKey' /\ DeliveredIsStored'
  BY DEF OneRowPerKey, DeliveredIsStored, Payloads
<1>7. Done' = Done
  BY <1>2 DEF Done
<1>8. TablePart'
  BY <1>2, <1>7 DEF TablePart
\* The next row is the only stored one with its sequence number.
<1>9. \A u \in RowsOf(inst) : /\ u.msg.sequence \in 1 .. MaxSequence
                              /\ u.msg.sequence = r.msg.sequence => u = r
  <2> SUFFICES ASSUME NEW u \in RowsOf(inst)
               PROVE  /\ u.msg.sequence \in 1 .. MaxSequence
                      /\ u.msg.sequence = r.msg.sequence => u = r
    OBVIOUS
  <2>1. u \in messages /\ r \in messages /\ u.msg \in Fills /\ u.msg.instrument = inst
    BY <1>3, StoredAreFills DEF RowsOf
  <2>2. u.msg.sequence \in 1 .. MaxSequence
    BY <2>1, MessagesAssumption DEF Fills
  <2>3. u.msg.sequence = r.msg.sequence => u.msg = r.msg
    <3>1. u.msg \in Arrived /\ r.msg \in Arrived
      BY <2>1 DEF Arrived, StoredFills, Payloads
    <3> QED BY <1>3, <2>1, <3>1 DEF Canonical, SequencesIdentify
  <2>4. u.msg = r.msg => u = r
    BY <2>1 DEF OneRowPerKey, SameKey
  <2> QED BY <2>2, <2>3, <2>4
<1>10. \A u \in RowsOf(inst) \ rows', v \in rows' : u.msg.sequence < v.msg.sequence
  <2> SUFFICES ASSUME NEW u \in RowsOf(inst) \ rows', NEW v \in rows'
               PROVE  u.msg.sequence < v.msg.sequence
    OBVIOUS
  <2>1. CASE u = r
    <3>1. v \in rows /\ v # r /\ r.msg.sequence <= v.msg.sequence
      BY <1>1
    <3>2. v.msg.sequence # r.msg.sequence /\ v.msg.sequence \in Int /\ r.msg.sequence \in Int
      BY <1>3, <1>9, <3>1
    <3> QED BY <2>1, <3>1, <3>2
  <2>2. CASE u # r
    BY <1>1, <2>2 DEF FoldPart
  <2> QED BY <2>1, <2>2
<1>11. ASSUME NEW k \in 0 .. MaxSequence, rows' = {u \in RowsOf(inst) : u.msg.sequence > k}
       PROVE  acc' = Running(StoredFills, inst)[k]
  <2> DEFINE j == r.msg.sequence
  <2>1. j \in 1 .. MaxSequence /\ j \in Nat \ {0} /\ k \in Nat /\ j <= k
    BY <1>1, <1>3, <1>9, <1>11, MaxSequenceAssumption
  <2>2. j - 1 \in 0 .. MaxSequence
    BY <2>1, MaxSequenceAssumption
  <2>3. rows = {u \in RowsOf(inst) : u.msg.sequence > j - 1}
    <3>1. \A u \in rows : u \in RowsOf(inst) /\ u.msg.sequence > j - 1
      BY <1>1, <1>3, <1>9, <2>1
    <3>2. \A u \in RowsOf(inst) \ rows : ~(u.msg.sequence > j - 1)
      BY <1>1, <1>9, <2>1 DEF FoldPart
    <3> HIDE DEF j
    <3> QED BY <3>1, <3>2
  <2>4. acc = Running(StoredFills, inst)[j - 1]
    BY <2>2, <2>3 DEF FoldPart
  <2>5. FillsAt(StoredFills, inst, j) = {r.msg}
    <3>1. \A m \in StoredFills : m.instrument = inst /\ m.sequence = j => m = r.msg
      <4> SUFFICES ASSUME NEW m \in StoredFills, m.instrument = inst, m.sequence = j
                   PROVE  m = r.msg
        OBVIOUS
      <4>1. m \in Arrived /\ r.msg \in Arrived
        BY <1>3 DEF Arrived
      <4> QED BY <1>3, <4>1 DEF Canonical, SequencesIdentify
    <3> QED BY <1>3, <3>1 DEF FillsAt
  <2>6. Running(StoredFills, inst)[j] = Apply(acc, r.msg)
    <3>1. (CHOOSE m \in {r.msg} : TRUE) = r.msg
      OBVIOUS
    <3>2. StoredFills \in SUBSET Fills
      BY StoredAreFills
    <3> HIDE DEF j
    <3> QED BY <2>1, <2>4, <2>5, <3>1, <3>2, RunningUnfolds
  <2>7. \A n \in (j + 1) .. k : FillsAt(StoredFills, inst, n) = {}
    <3> SUFFICES ASSUME NEW n \in (j + 1) .. k, NEW u \in RowsOf(inst), u.msg.sequence = n
                 PROVE  FALSE
      BY DEF FillsAt, StoredFills, Payloads, RowsOf
    <3>1. u \notin rows' /\ u # r
      BY <1>11, <2>1
    <3>2. u \in RowsOf(inst) \ rows
      BY <1>1, <3>1
    <3>3. u.msg.sequence < j
      BY <3>2 DEF FoldPart
    <3> QED BY <2>1, <3>3
  <2>8. Running(StoredFills, inst)[k] = Running(StoredFills, inst)[j]
    <3>1. StoredFills \in SUBSET Fills /\ j \in Nat
      BY StoredAreFills, <2>1
    <3>2. Quiet(StoredFills, inst, j, k)
      BY <2>7 DEF Quiet
    <3> HIDE DEF j
    <3> QED BY <2>1, <3>1, <3>2, RunningSkips
  <2>9. acc' = Apply(acc, r.msg)
    BY <1>1
  <2> HIDE DEF j
  <2> QED BY <2>6, <2>8, <2>9
<1>12. FoldPart'
  BY <1>1, <1>2, <1>3, <1>4, <1>10, <1>11 DEF FoldPart
<1> QED BY <1>2, <1>5, <1>6, <1>8, <1>12
        DEF Between, NoRebuild, IngestOnly, RebuildOnly, NoStream

\* Inserting the folded position keeps the invariant.
LEMMA InsertPositionInv ==
  ASSUME IInv, InsertPosition
  PROVE  IInv'
<1> USE DEF IInv, InsertPosition, batch
<1>1. StoredFills' = StoredFills
  BY DEF StoredFills, Payloads
<1>2. inst \in Instruments(StoredFills) \ todo /\ rows = {}
  BY DEF FoldPart
\* All rows are folded, and there was at least one.
<1>3. acc = Running(StoredFills, inst)[MaxSequence]
  <2>1. \A u \in RowsOf(inst) : u.msg.sequence \in 1 .. MaxSequence
    BY StoredAreFills, MessagesAssumption DEF RowsOf, Fills
  <2>2. rows = {u \in RowsOf(inst) : u.msg.sequence > MaxSequence}
    BY <1>2, <2>1, MaxSequenceAssumption
  <2>3. MaxSequence \in 0 .. MaxSequence
    BY MaxSequenceAssumption
  <2> QED BY <2>2, <2>3 DEF FoldPart
<1>4. acc.last # NoValue
  <2>1. RowsOf(inst) # {}
    BY <1>2 DEF Instruments, StoredFills, Payloads, RowsOf
  <2> QED BY <1>2, <2>1 DEF FoldPart
<1>5. positions' = positions \cup {PositionRow(inst, acc)}
  BY <1>4
<1>6. TypeOK'
  <2>1. PositionRow(inst, acc) \in PositionRows
    <3>1. Instruments(StoredFills) \subseteq {m.instrument : m \in Messages}
      BY StoredAreFills DEF Instruments, Fills
    <3>2. acc.pos \in Position /\ acc.last \in {m.session : m \in Messages}
      BY <1>4 DEF TypeOK
    <3> QED BY <1>2, <3>1, <3>2 DEF PositionRow, PositionRows
  <2> QED BY <1>5, <2>1, StartType DEF TypeOK, Accumulator, Sessions
<1>7. OneRowPerKey' /\ DeliveredIsStored'
  BY DEF OneRowPerKey, DeliveredIsStored, Payloads
<1>8. TablePart'
  <2>1. NoValue \notin Instruments(StoredFills)
    BY StoredAreFills, MessagesAssumption DEF Instruments, Fills
  <2>2. Done' = Done \cup {inst}
    BY <1>1, <1>2, <2>1 DEF Done
  <2> QED BY <1>1, <1>3, <1>5, <2>2 DEF TablePart
<1>9. FoldPart'
  BY DEF FoldPart
<1> QED BY <1>1, <1>2, <1>6, <1>7, <1>8, <1>9
        DEF Between, NoRebuild, IngestOnly, RebuildOnly, NoStream

\* The commit of rebuild_positions keeps the invariant.
LEMMA CommitRebuildInv ==
  ASSUME IInv, CommitRebuild
  PROVE  IInv'
<1> USE DEF IInv, CommitRebuild, Commit, batch, cursor
<1>1. TypeOK'
  BY DEF TypeOK
<1>2. StoredFills' = StoredFills /\ OneRowPerKey' /\ DeliveredIsStored'
  BY DEF StoredFills, Payloads, OneRowPerKey, DeliveredIsStored
<1>3. TablePart' /\ FoldPart'
  BY NotRebuilding
<1>4. inst = NoValue /\ rows = {} /\ acc = Start
  BY DEF TablePart
<1> QED BY <1>1, <1>2, <1>3, <1>4
        DEF Between, NoRebuild, IngestOnly, RebuildOnly, NoStream

\* Steps of the environment that touch no variable keep the invariant.
LEMMA StutterInv ==
  ASSUME IInv, UNCHANGED vars
  PROVE  IInv'
<1> USE DEF IInv, vars, tables, batch, cursor
<1>1. /\ StoredFills' = StoredFills /\ RowsOf(inst)' = RowsOf(inst) /\ Done' = Done
      /\ inst' = inst
  BY DEF StoredFills, Payloads, RowsOf, Done
<1>2. TypeOK' /\ OneRowPerKey' /\ DeliveredIsStored'
  BY DEF TypeOK, OneRowPerKey, DeliveredIsStored, Payloads
<1>3. TablePart' /\ FoldPart'
  BY <1>1 DEF TablePart, FoldPart
<1> QED BY <1>1, <1>2, <1>3
        DEF Between, NoRebuild, IngestOnly, RebuildOnly, NoStream

\* A call of ingest_stream and one of rebuild_positions keep the invariant.
LEMMA CallsKeep ==
  ASSUME IInv, Canonical(Arrived), IngestStep \/ Rebuild
  PROVE  IInv'
BY AcceptInv, RejectInv, CommitStreamInv, BeginRebuildInv, SelectInstrumentInv, FoldRowInv,
   InsertPositionInv, CommitRebuildInv DEF IngestStep, Rebuild

\* Among well-numbered messages whatever has arrived is well-numbered.
LEMMA ArrivedIsCanonical ==
  ASSUME Canonical(Fills), IInv
  PROVE  Canonical(Arrived)
<1>1. Arrived \subseteq Fills
  <2>1. \A k \in DOMAIN stream : stream[k] \in Messages
    BY DEF IInv, TypeOK
  <2> QED BY <2>1, StoredAreFills DEF Arrived, Fills
<1> QED BY <1>1 DEF Canonical, KeysIdentify, SequencesIdentify

\* The strengthened invariant holds in every reachable state: each operation of
\* the ledger, and each crash, preserves it.
THEOREM Invariance == Canonical(Fills) => (Spec => []IInv)
<1> SUFFICES ASSUME Canonical(Fills) PROVE Spec => []IInv
  OBVIOUS
<1>1. IInv /\ [Next]_vars => IInv'
  <2> SUFFICES ASSUME IInv, [Next]_vars PROVE IInv'
    OBVIOUS
  <2>1. ASSUME NEW list \in Streams, BeginIngest(list) PROVE IInv'
    BY <2>1, BeginIngestInv
  <2>2. CASE IngestStep \/ Rebuild
    BY <2>2, ArrivedIsCanonical, CallsKeep
  <2>3. CASE Crash
    BY <2>3, CrashInv
  <2>4. CASE UNCHANGED vars
    BY <2>4, StutterInv
  <2> QED BY <2>1, <2>2, <2>3, <2>4 DEF Next
<1> QED BY InitInv, <1>1, PTL DEF Spec

-----------------------------------------------------------------------------
(* The theorems.                                                           *)

\* Every variable of the ledger keeps its type.
THEOREM TypeCorrect == Canonical(Fills) => (Spec => []TypeOK)
<1> SUFFICES ASSUME Canonical(Fills) PROVE Spec => []TypeOK
  OBVIOUS
<1>1. IInv => TypeOK
  BY DEF IInv
<1> QED BY <1>1, Invariance, PTL

\* The fills table never holds two rows for one (fill_id, sequence).
THEOREM KeysStayUnique == Canonical(Fills) => (Spec => []OneRowPerKey)
<1> SUFFICES ASSUME Canonical(Fills) PROVE Spec => []OneRowPerKey
  OBVIOUS
<1>1. IInv => OneRowPerKey
  BY DEF IInv
<1> QED BY <1>1, Invariance, PTL

\* Every complete fill that ingest_stream has gone past is in the table.
THEOREM NothingIsLost == Canonical(Fills) => (Spec => []DeliveredIsStored)
<1> SUFFICES ASSUME Canonical(Fills) PROVE Spec => []DeliveredIsStored
  OBVIOUS
<1>1. IInv => DeliveredIsStored
  BY DEF IInv
<1> QED BY <1>1, Invariance, PTL

\* With no instrument left to do the table is that of the stored fills.
LEMMA RebuiltWhenDone == IInv => RebuildIsReference
<1> SUFFICES ASSUME IInv, pc = "rebuild", todo = {}
             PROVE  positions = Rebuilt(Payloads(messages))
  BY DEF RebuildIsReference
<1>1. inst = NoValue
      /\ positions = {PositionRow(x, Running(StoredFills, x)[MaxSequence]) : x \in Done}
  BY DEF IInv, TablePart
<1>2. NoValue \notin Instruments(StoredFills)
  BY StoredAreFills, MessagesAssumption DEF Instruments, Fills
<1>3. Done = Instruments(StoredFills)
  BY <1>1, <1>2 DEF Done
<1> QED BY <1>1, <1>3 DEF Rebuilt, StoredFills

\* rebuild_positions commits the table the set of stored fills stands for: the
\* positions do not depend on arrival order, duplication or earlier positions.
THEOREM RebuildIsCorrect == Canonical(Fills) => (Spec => []RebuildIsReference)
<1> SUFFICES ASSUME Canonical(Fills) PROVE Spec => []RebuildIsReference
  OBVIOUS
<1> QED BY RebuiltWhenDone, Invariance, PTL

\* A batch all of whose messages were committed before changes nothing when it
\* is delivered again.
THEOREM RedeliveryChangesNothing == Canonical(Fills) => (Spec => RedeliveryIsNoOp)
<1> SUFFICES ASSUME Canonical(Fills) PROVE Spec => RedeliveryIsNoOp
  OBVIOUS
<1> DEFINE Redelivered ==
             pc = "ingest" /\ \A n \in DOMAIN stream : stream[n] \in Payloads(savedMessages)
\* While such a batch runs nothing has been inserted: every key is taken.
           Idle == Redelivered => messages = savedMessages
<1>1. Init => Idle
  BY DEF Init, StoreInit
<1>2. IInv /\ Idle /\ [Next]_vars => Idle' /\ (Redelivered => savedMessages' = savedMessages)
  <2> SUFFICES ASSUME IInv, Idle, [Next]_vars
               PROVE  Idle' /\ (Redelivered => savedMessages' = savedMessages)
    OBVIOUS
  <2> USE DEF tables, batch, cursor
  <2>1. ASSUME NEW list \in Streams, BeginIngest(list)
        PROVE  messages' = savedMessages' /\ savedMessages' = savedMessages
    BY <2>1 DEF BeginIngest, BeginStream, IInv, Between
  <2>2. CASE AcceptMessage
    <3>1. /\ savedMessages' = savedMessages /\ stream' = stream /\ pc = "ingest"
          /\ Redelivered' = Redelivered
      BY <2>2 DEF AcceptMessage, Payloads
    <3>2. ~Redelivered
      <4> SUFFICES ASSUME Redelivered PROVE FALSE
        OBVIOUS
      <4>1. i + 1 \in DOMAIN stream
        BY <2>2 DEF AcceptMessage, IInv, TypeOK
      <4>2. PICK r \in messages : r.msg = stream[i + 1]
        BY <4>1 DEF Payloads
      <4> QED BY <2>2, <4>2 DEF AcceptMessage, Rejected, SameKey
    <3> QED BY <3>1, <3>2
  <2>3. CASE RejectMessage
    BY <2>3 DEF RejectMessage, Payloads
  <2>4. CASE CommitStream
    BY <2>4 DEF CommitStream, Commit
  <2>5. CASE Rebuild
    BY <2>5 DEF Rebuild, BeginRebuild, SelectInstrument, FoldRow, InsertPosition,
                CommitRebuild, Commit
  <2>6. CASE Crash
    BY <2>6 DEF Crash, Restart
  <2>7. CASE UNCHANGED vars
    BY <2>7 DEF vars, Payloads
  <2> QED BY <2>1, <2>2, <2>3, <2>4, <2>5, <2>6, <2>7 DEF Next, IngestStep
<1>3. (Redelivered => savedMessages' = savedMessages) =>
        [pc = "ingest" /\ (\A n \in DOMAIN stream : stream[n] \in Payloads(savedMessages))
           => savedMessages' = savedMessages]_vars
  OBVIOUS
<1> QED BY <1>1, <1>2, <1>3, Invariance, PTL DEF Spec, RedeliveryIsNoOp

\* The counts a call will return are about the table: accepted is what the call
\* has added to it, and each message was counted on one side or the other.
THEOREM CountsAreOfTheTable == Canonical(Fills) => (Spec => []CountsDescribeTable)
<1> SUFFICES ASSUME Canonical(Fills) PROVE Spec => []CountsDescribeTable
  OBVIOUS
<1> DEFINE Counted == IsFiniteSet(messages) /\ CountsDescribeTable
<1>1. Init => Counted
  BY FS_EmptySet DEF Init, StoreInit, CountsDescribeTable
<1>2. IInv /\ Counted /\ [Next]_vars => Counted'
  <2> SUFFICES ASSUME IInv, Counted, [Next]_vars PROVE Counted'
    OBVIOUS
  <2> USE DEF tables, batch, cursor
  <2>1. savedMessages \subseteq messages /\ IsFiniteSet(savedMessages)
        /\ Cardinality(savedMessages) \in Nat /\ Cardinality(messages) \in Nat
        /\ accepted \in Nat /\ duplicates \in Nat /\ i \in Nat
    BY FS_Subset, FS_CardinalityType DEF IInv, IngestOnly, TypeOK
  <2>2. ASSUME NEW list \in Streams, BeginIngest(list) PROVE Counted'
    <3>1. /\ messages' = messages /\ savedMessages' = savedMessages /\ messages = savedMessages
          /\ accepted' = 0 /\ duplicates' = 0 /\ i' = 0
      BY <2>2 DEF BeginIngest, BeginStream, IInv, Between
    <3> QED BY <3>1, <2>1 DEF CountsDescribeTable
  <2>3. CASE AcceptMessage
    <3> DEFINE row == [msg |-> stream[i + 1], received_at |-> i]
    <3>1. row \notin messages
      <4>1. SameKey(row.msg, stream[i + 1])
        BY DEF SameKey
      <4> QED BY <2>3, <4>1 DEF AcceptMessage, Rejected
    <3>2. messages' = messages \cup {row} /\ savedMessages' = savedMessages /\ pc = "ingest"
          /\ accepted' = accepted + 1 /\ duplicates' = duplicates /\ i' = i + 1
      BY <2>3 DEF AcceptMessage
    <3> HIDE DEF row
    <3>3. IsFiniteSet(messages') /\ Cardinality(messages') = Cardinality(messages) + 1
      BY <3>1, <3>2, FS_AddElement
    <3> QED BY <2>1, <3>2, <3>3 DEF CountsDescribeTable
  <2>4. CASE RejectMessage
    <3>1. messages' = messages /\ savedMessages' = savedMessages /\ pc = "ingest"
          /\ accepted' = accepted /\ duplicates' = duplicates + 1 /\ i' = i + 1
      BY <2>4 DEF RejectMessage
    <3> QED BY <2>1, <3>1 DEF CountsDescribeTable
  <2>5. CASE CommitStream
    BY <2>5 DEF CommitStream, CountsDescribeTable
  <2>6. CASE Rebuild
    <3>1. messages' = messages /\ pc' # "ingest"
      BY <2>6 DEF Rebuild, BeginRebuild, SelectInstrument, FoldRow, InsertPosition,
                  CommitRebuild
    <3> QED BY <3>1 DEF CountsDescribeTable
  <2>7. CASE Crash
    BY <2>1, <2>7 DEF Crash, Restart, CountsDescribeTable
  <2>8. CASE UNCHANGED vars
    BY <2>8 DEF vars, CountsDescribeTable
  <2> QED BY <2>2, <2>3, <2>4, <2>5, <2>6, <2>7, <2>8 DEF Next, IngestStep
<1>3. Counted => CountsDescribeTable
  OBVIOUS
<1> HIDE DEF Counted
<1> QED BY <1>1, <1>2, <1>3, Invariance, PTL DEF Spec

\* The ledger implements the abstract ledger: what is committed changes only by
\* a whole batch becoming visible or by the positions being replaced with the
\* rebuild of what is stored, whatever the interleaving with crashes.
THEOREM ImplementsLedger == Canonical(Fills) => (Spec => LedgerSpec)
<1> SUFFICES ASSUME Canonical(Fills) PROVE Spec => LedgerSpec
  OBVIOUS
<1>1. Init => Ledger!Init
  BY DEF Init, StoreInit, Ledger!Init, Payloads
<1>2. IInv /\ RebuildIsReference /\ [Next]_vars
        => [Ledger!Next]_<<Payloads(savedMessages), savedPositions>>
  <2> SUFFICES ASSUME IInv, RebuildIsReference, [Next]_vars
               PROVE  [Ledger!Next]_<<Payloads(savedMessages), savedPositions>>
    OBVIOUS
  <2> USE DEF tables, batch, cursor
  <2>1. CASE CommitStream
    <3>1. savedPositions' = savedPositions /\ savedMessages' = messages
      BY <2>1 DEF CommitStream, Commit, IInv, IngestOnly
    <3>2. Payloads(savedMessages)' = Payloads(savedMessages) \cup Payloads(messages)
      BY <3>1 DEF Payloads, IInv, IngestOnly
    <3>3. Payloads(messages) \in SUBSET Messages
      BY DEF IInv, TypeOK, Payloads, Row
    <3>4. Ledger!Deliver
      BY <3>1, <3>2, <3>3 DEF Ledger!Deliver
    <3> QED BY <3>4 DEF Ledger!Next
  <2>2. CASE CommitRebuild
    <3>1. savedMessages' = savedMessages /\ savedMessages = messages
          /\ savedPositions' = Rebuilt(Payloads(savedMessages))
      BY <2>2 DEF CommitRebuild, Commit, IInv, RebuildOnly, RebuildIsReference
    <3>2. Ledger!Publish
      BY <3>1 DEF Ledger!Publish, Payloads
    <3> QED BY <3>2 DEF Ledger!Next
  <2>3. CASE ~CommitStream /\ ~CommitRebuild
    <3>1. savedMessages' = savedMessages /\ savedPositions' = savedPositions
      BY <2>3 DEF Next, vars, BeginIngest, BeginStream, IngestStep, AcceptMessage,
           RejectMessage, Rebuild, BeginRebuild, SelectInstrument, FoldRow,
           InsertPosition, Crash, Restart
    <3> QED BY <3>1 DEF Payloads
  <2> QED BY <2>1, <2>2, <2>3
<1> QED BY <1>1, <1>2, Invariance, RebuildIsCorrect, PTL DEF Spec, LedgerSpec, Ledger!Spec

-----------------------------------------------------------------------------
(* What the fold makes of a set of fills, in terms of the fills alone.     *)

\* The facts about _fold, which are about any position and any fill.
Average == INSTANCE CostBasisTrailProofs WITH
             Quantities <- Int, Prices <- Nat, MaxFills <- 0, pos <- Flat, trail <- << >>

LEMMA SameFold ==
  /\ Average!Position = Position /\ Average!Flat = Flat
  /\ \A p, q, y : Average!Fold(p, q, y) = Fold(p, q, y)
BY DEF Average!Position, Average!Flat, Average!Fold, Average!SameDirectionOrFlat, Average!Flips,
       Average!Blend, Position, Flat, Fold, SameDirectionOrFlat, Flips, Blend

Sign(n) == Average!Sign(n)
Within(S, p) == Average!Within(S, p)

\* The three facts that carry a step of the fold.
LEMMA FoldFacts ==
  ASSUME NEW p \in Position, NEW q \in Int, NEW y \in Int
  PROVE  /\ Fold(p, q, y).qty = p.qty + q
         /\ Fold(p, q, y).qty = 0 => Fold(p, q, y) = Flat
         /\ \A S, T \in SUBSET Int :
              S \subseteq T /\ p.qty # 0 /\ Sign(p.qty + q) = Sign(p.qty)
              /\ (Sign(q) = Sign(p.qty) => y \in T) /\ Within(S, p)
              => Within(T, Fold(p, q, y))
         /\ \A T \in SUBSET Int :
              y \in T /\ p.qty + q # 0 /\ Sign(p.qty + q) # Sign(p.qty)
              /\ (p.qty = 0 => p = Flat)
              => Within(T, Fold(p, q, y))
<1>1. Average!TrailAssumption
  BY DEF Average!TrailAssumption
<1>2. p \in Average!Position
  BY SameFold
<1>3. /\ Average!Fold(p, q, y).qty = p.qty + q
      /\ Average!Fold(p, q, y).qty = 0 => Average!Fold(p, q, y) = Average!Flat
  BY <1>1, <1>2, Average!FoldQuantity
<1>4. ASSUME NEW S \in SUBSET Int, NEW T \in SUBSET Int, S \subseteq T,
             p.qty # 0, Average!Sign(p.qty + q) = Average!Sign(p.qty),
             Average!Sign(q) = Average!Sign(p.qty) => y \in T, Average!Within(S, p)
      PROVE  Average!Within(T, Average!Fold(p, q, y))
  BY <1>1, <1>2, <1>4, Average!FoldKeepsWithin
<1>5. ASSUME NEW T \in SUBSET Int, y \in T, p.qty + q # 0,
             Average!Sign(p.qty + q) # Average!Sign(p.qty), p.qty = 0 => p = Average!Flat
      PROVE  Average!Within(T, Average!Fold(p, q, y))
  BY <1>1, <1>2, <1>5, Average!FoldOpensWithin
<1> QED BY <1>3, <1>4, <1>5, SameFold DEF Sign, Within

Net(G) == SumFunction([m \in G |-> m.quantity])
Paid(G, qty) == {m.price : m \in {f \in G : f.quantity * qty > 0}}

\* What a position has to do with the fills it is made of.
Accounts(p, G) ==
  /\ p \in Position /\ p.qty = Net(G)
  /\ p.qty = 0 => p = Flat
  /\ p.qty # 0 => Within(Paid(G, p.qty), p)

\* One more fill, whichever of them came before.
LEMMA FillAccounts ==
  ASSUME NEW G \in SUBSET Fills, IsFiniteSet(G), NEW m \in Fills \ G, NEW p, Accounts(p, G)
  PROVE  Accounts(Fold(p, m.quantity, m.price), G \cup {m})
<1> DEFINE q == m.quantity
           y == m.price
           H == G \cup {m}
           r == Fold(p, q, y)
<1>1. /\ p \in Position /\ p.qty = Net(G) /\ p.qty \in Int /\ q \in Int /\ y \in Int
      /\ \A f \in Fills : f.quantity \in Int /\ f.price \in Int
  BY MessagesAssumption DEF Accounts, Fills, Position
<1>2. Net(H) = Net(G) + q
  <2> DEFINE f == [n \in G |-> n.quantity]
             g == [n \in H |-> n.quantity]
  <2>1. /\ DOMAIN f = G /\ DOMAIN g = DOMAIN f \cup {m} /\ m \notin DOMAIN f
        /\ \A n \in DOMAIN f : f[n] \in Int
        /\ g[m] = q /\ \A n \in DOMAIN f : n # m => g[n] = f[n]
        /\ IsFiniteSet(DOMAIN f) /\ g[m] \in Int
    BY <1>1
  <2> HIDE DEF f, g
  <2>2. SumFunction(g) = SumFunction(f) + (g[m] - (IF m \in DOMAIN f THEN f[m] ELSE 0))
    BY <2>1, SumUpdate
  <2>3. SumFunction(g) = SumFunction(f) + q
    <3>1. q - 0 = q
      BY <1>1
    <3> QED BY <2>1, <2>2, <3>1
  <2> QED BY <2>3 DEF f, g, Net
<1>3. r \in Position /\ r.qty = p.qty + q /\ (r.qty = 0 => r = Flat) /\ r.qty \in Int
  BY <1>1, FoldFacts, FoldKeepsPositions
<1>4. \A a, b \in Int : b # 0 => (Sign(a) = Sign(b) <=> a * b > 0)
  <2>1. \A a, b \in Int : a * b > 0 <=> (a > 0 /\ b > 0) \/ (a < 0 /\ b < 0)
    BY SMTT(30)
  <2> QED BY <2>1 DEF Sign, Average!Sign
<1>5. ASSUME r.qty # 0 PROVE Within(Paid(H, r.qty), r)
  <2> DEFINE S == Paid(G, p.qty)
             T == Paid(H, r.qty)
  <2>1. S \in SUBSET Int /\ T \in SUBSET Int
    BY <1>1 DEF Paid
  <2>2. Sign(q) = Sign(r.qty) => y \in T
    <3>1. Sign(q) = Sign(r.qty) => q * r.qty > 0
      BY <1>1, <1>3, <1>4, <1>5
    <3> HIDE DEF r
    <3> QED BY <3>1 DEF Paid
  <2>3. CASE Sign(r.qty) = Sign(p.qty)
    <3>1. p.qty # 0 /\ Within(S, p)
      BY <1>1, <1>3, <1>5, <2>3 DEF Sign, Average!Sign, Accounts
    <3>2. S \subseteq T
      <4>1. \A f \in G : f.quantity * p.qty > 0 => f.quantity * r.qty > 0
        BY <1>1, <1>3, <1>4, <1>5, <2>3, <3>1
      <4> HIDE DEF r
      <4> QED BY <4>1 DEF Paid
    <3>3. Sign(p.qty + q) = Sign(p.qty) /\ (Sign(q) = Sign(p.qty) => y \in T)
      BY <1>3, <2>2, <2>3
    <3> HIDE DEF S, T, q, y, r
    <3>4. Within(T, Fold(p, q, y))
      BY <1>1, <2>1, <3>1, <3>2, <3>3, FoldFacts
    <3> QED BY <3>4 DEF T, r
  <2>4. CASE Sign(r.qty) # Sign(p.qty)
    <3>1. Sign(q) = Sign(r.qty)
      BY <1>1, <1>3, <1>5, <2>4 DEF Sign, Average!Sign
    <3>2. /\ p.qty + q # 0 /\ Sign(p.qty + q) # Sign(p.qty) /\ y \in T
          /\ p.qty = 0 => p = Flat
      BY <1>3, <1>5, <2>2, <2>4, <3>1 DEF Accounts
    <3> HIDE DEF T, q, y, r
    <3>3. Within(T, Fold(p, q, y))
      BY <1>1, <2>1, <3>2, FoldFacts
    <3> QED BY <3>3 DEF T, r
  <2> QED BY <2>3, <2>4
<1> HIDE DEF r
<1> QED BY <1>1, <1>2, <1>3, <1>5 DEF Accounts, r

\* At every sequence number the running position accounts for the fills up to
\* it, of which there are finitely many.
UpTo(F, x, k) == {m \in FillsOf(F, x) : m.sequence <= k}

LEMMA RunningAccounts ==
  ASSUME NEW F \in SUBSET Fills, SequencesIdentify(F), NEW x
  PROVE  \A k \in Nat : /\ IsFiniteSet(UpTo(F, x, k))
                        /\ Accounts(Running(F, x)[k].pos, UpTo(F, x, k))
<1> DEFINE R == Running(F, x)
           P == {k \in Nat : IsFiniteSet(UpTo(F, x, k)) /\ Accounts(R[k].pos, UpTo(F, x, k))}
<1>1. \A m \in F : m.sequence \in Nat /\ m.sequence > 0
  BY MessagesAssumption DEF Fills
<1>2. 0 \in P
  <2>1. UpTo(F, x, 0) = {}
    BY <1>1 DEF UpTo, FillsOf
  <2>2. R[0].pos = Flat
    BY RunningUnfolds DEF Start
  <2>3. Net({}) = 0
    <3>1. SumFunctionOnSet([m \in {} |-> m.quantity], {}) = 0
      BY SumEmpty
    <3>2. DOMAIN [m \in {} |-> m.quantity] = {}
      OBVIOUS
    <3> QED BY <3>1, <3>2 DEF Net, SumFunction
  <2>4. Accounts(Flat, {})
    BY <2>3 DEF Accounts, Flat, Position
  <2> QED BY <2>1, <2>2, <2>4, FS_EmptySet
<1>3. ASSUME NEW k \in Nat, k \in P PROVE k + 1 \in P
  <2> DEFINE G == UpTo(F, x, k)
             H == UpTo(F, x, k + 1)
             new == FillsAt(F, x, k + 1)
  <2>1. /\ k + 1 \in Nat \ {0} /\ (k + 1) - 1 = k
        /\ R[k + 1] = IF new = {} THEN R[k] ELSE Apply(R[k], CHOOSE m \in new : TRUE)
    BY RunningUnfolds
  <2>2. H = G \cup new
    BY <1>1 DEF UpTo, FillsOf, FillsAt
  <2>3. CASE new = {}
    BY <1>3, <2>1, <2>2, <2>3
  <2>4. CASE new # {}
    <3> DEFINE m == CHOOSE n \in new : TRUE
    <3>1. m \in new
      BY <2>4
    <3>2. new = {m}
      BY <3>1 DEF FillsAt, SequencesIdentify
    <3>3. m \in Fills \ G /\ G \in SUBSET Fills
      BY <1>1, <3>1 DEF FillsAt, UpTo, FillsOf
    <3>4. IsFiniteSet(H) /\ H = G \cup {m}
      <4>1. IsFiniteSet(G) /\ H = G \cup {m}
        BY <1>3, <2>2, <3>2
      <4> HIDE DEF G, H, m
      <4> QED BY <4>1, FS_AddElement
    <3>5. R[k + 1].pos = Fold(R[k].pos, m.quantity, m.price)
      BY <2>1, <2>4 DEF Apply
    <3> HIDE DEF m, G, H, R
    <3>6. Accounts(R[k + 1].pos, H)
      BY <1>3, <3>3, <3>4, <3>5, FillAccounts DEF G
    <3> QED BY <2>1, <3>4, <3>6 DEF H
  <2> QED BY <2>3, <2>4
<1> HIDE DEF P
<1>4. \A k \in Nat : k \in P
  BY <1>2, <1>3, NatsAreCounted
<1> QED BY <1>4 DEF P

\* When a rebuild commits, every position is the net of the stored fills of its
\* instrument at an average they paid in its direction, for any number of fills.
THEOREM FinalIsNet == Canonical(Fills) => (Spec => []FinalIsNetPosition)
<1> SUFFICES ASSUME Canonical(Fills) PROVE Spec => []FinalIsNetPosition
  OBVIOUS
<1>1. IInv => FinalIsNetPosition
  <2> SUFFICES ASSUME IInv, pc = "rebuild", todo = {}, NEW p \in positions
               PROVE  LET own == FillsOf(Payloads(messages), p.instrument)
                          paid == {m.price : m \in {f \in own : f.quantity * p.pos.qty > 0}}
                      IN  /\ p.pos.qty = SumFunction([m \in own |-> m.quantity])
                          /\ IF p.pos.qty = 0 THEN p.pos = Flat
                             ELSE /\ \E price \in paid :
                                       price * p.pos.den * p.pos.den <= p.pos.num * p.pos.den
                                  /\ \E price \in paid :
                                       price * p.pos.den * p.pos.den >= p.pos.num * p.pos.den
    BY DEF FinalIsNetPosition
  <2> DEFINE F == Payloads(messages)
  <2>1. F \in SUBSET Fills /\ SequencesIdentify(F)
    BY StoredAreFills DEF StoredFills, Canonical, SequencesIdentify
  <2>2. positions = Rebuilt(F)
    BY RebuiltWhenDone DEF RebuildIsReference
  <2> HIDE DEF F
  <2>3. PICK x : p = PositionRow(x, Running(F, x)[MaxSequence])
    BY <2>2 DEF Rebuilt
  <2>4. p.instrument = x /\ p.pos = Running(F, x)[MaxSequence].pos
    BY <2>3 DEF PositionRow
  <2>5. UpTo(F, x, MaxSequence) = FillsOf(F, x)
    <3>1. \A m \in F : m.sequence <= MaxSequence
      BY <2>1, MaxSequenceAssumption, MessagesAssumption DEF Fills
    <3> QED BY <3>1 DEF UpTo, FillsOf
  <2>6. Accounts(p.pos, FillsOf(F, p.instrument))
    BY <2>1, <2>4, <2>5, MaxSequenceAssumption, RunningAccounts
  <2> QED BY <2>6 DEF Accounts, Net, Paid, Within, Average!Within, F
<1> QED BY <1>1, Invariance, PTL
=============================================================================
