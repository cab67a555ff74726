-------------------------- MODULE FillReplayProofs --------------------------
(***************************************************************************)
(* FillReplay for any universe, any number of sessions and fills, any      *)
(* share of duplicates and any window: the generator numbers its fills as  *)
(* the ledger needs, a perturbed stream is a bounded shuffle of the fills  *)
(* and their copies, and two streams of the same fills come out equal.     *)
(***************************************************************************)
EXTENDS FillReplay, RecursionAndSums

-----------------------------------------------------------------------------
(* The generated stream.                                                   *)

LEMMA UniverseType ==
  /\ Len(Universe) \in Nat /\ Len(Universe) > 0 /\ DOMAIN Universe = 1 .. Len(Universe)
  /\ \A k \in 1 .. Len(Universe) : Universe[k] \in Range(Universe)
  /\ \A j, k \in 1 .. Len(Universe) : Universe[j] = Universe[k] => j = k
<1>1. Len(Universe) \in Nat /\ Len(Universe) > 0 /\ DOMAIN Universe = 1 .. Len(Universe)
  BY UniverseAssumption
<1>2. \A k \in 1 .. Len(Universe) : Universe[k] \in Range(Universe)
  BY <1>1 DEF Range
<1>3. \A j, k \in 1 .. Len(Universe) : Universe[j] = Universe[k] => j = k
  BY <1>1, UniverseAssumption DEF IsInjective
<1> QED BY <1>1, <1>2, <1>3

\* The numbers the k-th instrument has got, and will get in this turn, are at
\* most MaxFills for every session it has had a turn in.
WithinBudget(k) ==
  /\ k < turn => numbered[Universe[k]] <= MaxFills * (session + 1)
  /\ k = turn /\ left > 0 => numbered[Universe[k]] + left <= MaxFills * (session + 1)
  /\ k = turn /\ left = 0 => numbered[Universe[k]] <= MaxFills * session
  /\ k > turn => numbered[Universe[k]] <= MaxFills * session

Turns ==
  /\ session \in 0 .. NSessions /\ turn \in 1 .. Len(Universe) /\ left \in 0 .. MaxFills
  /\ left > 0 => session < NSessions
  /\ session = NSessions => turn = 1
  /\ numbered \in [Range(Universe) -> Nat]
  /\ \A k \in 1 .. Len(Universe) : WithinBudget(k)

\* Ids follow from instrument and number, numbers grow, sessions never go back.
InOrder(list) ==
  \A j, k \in 1 .. Len(list) : j < k /\ list[j].instrument = list[k].instrument =>
    list[j].sequence < list[k].sequence /\ list[j].session <= list[k].session

Drawn ==
  /\ fills \in Seq(AllFills)
  /\ \A k \in 1 .. Len(fills) :
       /\ fills[k].id = <<fills[k].instrument, fills[k].sequence>>
       /\ fills[k].sequence <= numbered[fills[k].instrument]
       /\ fills[k].session <= session
  /\ InOrder(fills)

SourceInv == Turns /\ Drawn

LEMMA MaxSequenceType == MaxSequence \in Nat /\ MaxSequence > 1
<1>1. \A m, n \in Nat : m > 0 /\ n > 1 => m * n \in Nat /\ m * n > 1
  BY SMTT(30)
<1> QED BY <1>1, UniverseAssumption DEF MaxSequence

LEMMA AllowanceFits ==
  ASSUME NEW n \in Nat, n < NSessions
  PROVE  /\ MaxFills * n \in Nat
         /\ MaxFills * (n + 1) = MaxFills * n + MaxFills
         /\ MaxFills * (n + 1) <= MaxSequence
<1>1. \A a, b, c \in Nat : b < c => a * b \in Nat /\ a * (b + 1) = a * b + a /\ a * (b + 1) <= c * a
  <2> SUFFICES ASSUME NEW a \in Nat, NEW b \in Nat, NEW c \in Nat, b < c
               PROVE  a * b \in Nat /\ a * (b + 1) = a * b + a /\ a * (b + 1) <= c * a
    OBVIOUS
  <2>1. c - (b + 1) \in Nat
    OBVIOUS
  <2>2. \A d \in Nat : a * d \in Nat
    BY SMTT(30)
  <2>3. c * a = a * (b + 1) + a * (c - (b + 1))
    BY SMTT(30)
  <2>4. a * (b + 1) = a * b + a
    BY SMTT(30)
  <2>5. a * b \in Nat /\ a * (c - (b + 1)) \in Nat /\ a * (b + 1) \in Nat
    BY <2>1, <2>2
  <2> QED BY <2>3, <2>4, <2>5
<1> QED BY <1>1, UniverseAssumption DEF MaxSequence

LEMMA DrawCountKeeps ==
  ASSUME SourceInv, Source!DrawCount
  PROVE  SourceInv'
<1> USE DEF SourceInv
<1>1. /\ session < NSessions /\ session \in Nat /\ left = 0 /\ left' \in 1 .. MaxFills
      /\ session' = session /\ turn' = turn /\ numbered' = numbered /\ fills' = fills
  BY UniverseAssumption DEF Source!DrawCount, Source!Finished, Turns
<1>2. Drawn'
  BY <1>1 DEF Drawn
<1>3. ASSUME NEW k \in 1 .. Len(Universe) PROVE WithinBudget(k)'
  <2> DEFINE m == numbered[Universe[k]]
             b == MaxFills * session
             n == left'
  <2>0. MaxFills * (session + 1) = b + MaxFills
    BY <1>1, AllowanceFits
  <2>1. /\ m \in Nat /\ b \in Nat /\ MaxFills \in Nat
        /\ turn \in Nat /\ k \in Nat /\ n \in Nat /\ n <= MaxFills /\ n > 0
    BY <1>1, <1>3, UniverseType, UniverseAssumption, AllowanceFits DEF Turns
  <2>2. /\ k < turn => m <= b + MaxFills
        /\ k >= turn => m <= b
    BY <1>1, <1>3, <2>0, <2>1 DEF Turns, WithinBudget
  <2> HIDE DEF m, b, n
  <2>3. /\ k < turn => m <= b + MaxFills
        /\ k = turn => m + n <= b + MaxFills
        /\ k > turn => m <= b
    BY ONLY <2>1, <2>2
  <2> QED BY <1>1, <2>0, <2>1, <2>3 DEF WithinBudget, m, b, n
<1>4. Turns'
  BY <1>1, <1>3, UniverseAssumption DEF Turns
<1> QED BY <1>2, <1>4

\* A fill numbered above all of its instrument's goes to the end of its list.
LEMMA AppendInOrder ==
  ASSUME NEW list \in Seq(AllFills), InOrder(list), NEW m \in AllFills,
         \A k \in 1 .. Len(list) : list[k].instrument = m.instrument =>
            list[k].sequence < m.sequence /\ list[k].session <= m.session
  PROVE  InOrder(Append(list, m))
<1> DEFINE more == Append(list, m)
           n == Len(list)
<1>1. /\ n \in Nat /\ Len(more) = n + 1 /\ more[n + 1] = m
      /\ \A k \in 1 .. n : more[k] = list[k]
  OBVIOUS
<1> HIDE DEF more, n
<1>2. \A j, k \in 1 .. (n + 1) : j < k => j \in 1 .. n /\ (k \in 1 .. n \/ k = n + 1)
  BY <1>1
<1>3. ASSUME NEW j \in 1 .. (n + 1), NEW k \in 1 .. (n + 1), j < k,
             more[j].instrument = more[k].instrument
      PROVE  more[j].sequence < more[k].sequence /\ more[j].session <= more[k].session
  <2>1. j \in 1 .. n /\ more[j] = list[j]
    BY <1>1, <1>2, <1>3
  <2>2. CASE k \in 1 .. n
    BY <1>1, <1>3, <2>1, <2>2 DEF InOrder, n
  <2>3. CASE k = n + 1
    BY <1>1, <1>3, <2>1, <2>3 DEF n
  <2> QED BY <1>2, <1>3, <2>2, <2>3
<1> QED BY <1>1, <1>3 DEF InOrder, more

\* What an instrument draws is a fill.
LEMMA NewFillType ==
  ASSUME NEW x \in Range(Universe), NEW n \in 1 .. MaxSequence, NEW trade \in Trades[x],
         session \in 0 .. NSessions - 1
  PROVE  Source!NewFill(x, n, trade[1], trade[2]) \in AllFills
<1>1. Trades[x] \in Range(Trades)
  BY UniverseAssumption DEF Range
<1>2. trade \in AllTrades
  BY <1>1 DEF AllTrades
<1>3. trade[1] \in {t[1] : t \in AllTrades} /\ trade[2] \in {t[2] : t \in AllTrades}
  BY <1>2
<1>4. <<x, n>> \in Range(Universe) \X (1 .. MaxSequence)
  OBVIOUS
<1> QED BY <1>3, <1>4 DEF Source!NewFill, AllFills

LEMMA FillType ==
  ASSUME NEW m \in AllFills
  PROVE  m.instrument \in Range(Universe) /\ m.sequence \in Nat /\ m.session \in Nat
<1>1. 1 .. MaxSequence \subseteq Nat /\ 0 .. NSessions - 1 \subseteq Nat
  BY MaxSequenceType, UniverseAssumption
<1> QED BY <1>1 DEF AllFills

LEMMA EmitKeeps ==
  ASSUME SourceInv, Source!Emit
  PROVE  SourceInv'
<1> DEFINE x == Universe[turn]
           last == left = 1
<1>1. /\ left > 0 /\ left \in Nat /\ left <= MaxFills /\ session < NSessions /\ session \in Nat
      /\ turn \in 1 .. Len(Universe) /\ turn \in Nat /\ turn <= Len(Universe)
      /\ x \in Range(Universe) /\ numbered[x] \in Nat /\ MaxFills \in Nat
  <2>1. left > 0
    BY DEF Source!Emit
  <2>2. /\ session \in 0 .. NSessions /\ turn \in 1 .. Len(Universe) /\ left \in 0 .. MaxFills
        /\ session < NSessions /\ numbered \in [Range(Universe) -> Nat]
    BY <2>1 DEF SourceInv, Turns
  <2>3. x \in Range(Universe) /\ turn <= Len(Universe) /\ turn \in Nat
    BY <2>2, UniverseType
  <2> QED BY <2>1, <2>2, <2>3, UniverseAssumption
<1>2. PICK trade \in Trades[x] :
        fills' = Append(fills, Source!NewFill(x, numbered'[x], trade[1], trade[2]))
  BY DEF Source!Emit
<1>3. /\ numbered' = [numbered EXCEPT ![x] = @ + 1]
      /\ turn' = IF last THEN (turn % Len(Universe)) + 1 ELSE turn
      /\ session' = IF last /\ turn = Len(Universe) THEN session + 1 ELSE session
      /\ left' = left - 1
  BY DEF Source!Emit
<1>4. /\ numbered' \in [Range(Universe) -> Nat] /\ numbered'[x] = numbered[x] + 1
      /\ \A y \in Range(Universe) : /\ numbered[y] \in Nat /\ numbered'[y] \in Nat
                                    /\ numbered'[y] >= numbered[y]
                                    /\ y # x => numbered'[y] = numbered[y]
  BY <1>1, <1>3 DEF SourceInv, Turns
<1> DEFINE b == MaxFills * session
<1>5. b \in Nat /\ MaxFills * (session + 1) = b + MaxFills /\ b + MaxFills <= MaxSequence
  BY <1>1, AllowanceFits
<1>6. numbered[x] + left <= b + MaxFills
  BY <1>1, <1>5 DEF SourceInv, Turns, WithinBudget
<1> DEFINE m == Source!NewFill(x, numbered'[x], trade[1], trade[2])
<1>7. /\ m \in AllFills /\ m.instrument = x /\ m.sequence = numbered[x] + 1
      /\ m.id = <<x, m.sequence>> /\ m.session = session
  <2>1. numbered[x] + 1 \in 1 .. MaxSequence
    <3> HIDE DEF x, b
    <3> QED BY <1>1, <1>5, <1>6, MaxSequenceType
  <2>2. session \in 0 .. NSessions - 1
    BY <1>1, UniverseAssumption
  <2> QED BY <1>1, <1>4, <2>1, <2>2, NewFillType DEF Source!NewFill
<1> HIDE DEF m, x, b
<1>8. Drawn'
  <2> DEFINE n == Len(fills)
  <2>1. /\ fills \in Seq(AllFills) /\ n \in Nat /\ fills' = Append(fills, m)
        /\ InOrder(fills) /\ session' \in Nat /\ session' >= session
    BY <1>1, <1>2, <1>3 DEF SourceInv, Drawn, m
  <2>2. /\ fills' \in Seq(AllFills) /\ Len(fills') = n + 1 /\ fills'[n + 1] = m
        /\ \A k \in 1 .. n : fills'[k] = fills[k] /\ fills[k] \in AllFills
    BY <1>7, <2>1
  <2>3. \A k \in 1 .. n :
          /\ fills[k].instrument \in Range(Universe) /\ fills[k].sequence \in Nat
          /\ fills[k].session \in Nat
          /\ fills[k].id = <<fills[k].instrument, fills[k].sequence>>
          /\ fills[k].sequence <= numbered[fills[k].instrument] /\ fills[k].session <= session
    BY <2>2, FillType DEF SourceInv, Drawn
  <2>4. \A k \in 1 .. n : fills[k].instrument = m.instrument =>
            fills[k].sequence < m.sequence /\ fills[k].session <= m.session
    BY <1>1, <1>7, <2>3
  <2>5. InOrder(Append(fills, m))
    BY <1>7, <2>1, <2>4, AppendInOrder
  <2>6. InOrder(fills)'
    BY <2>1, <2>5 DEF InOrder
  <2>7. ASSUME NEW k \in 1 .. Len(fills')
        PROVE  /\ fills'[k].id = <<fills'[k].instrument, fills'[k].sequence>>
               /\ fills'[k].sequence <= numbered'[fills'[k].instrument]
               /\ fills'[k].session <= session'
    <3>1. CASE k = n + 1
      BY <1>1, <1>4, <1>7, <2>1, <2>2, <3>1
    <3>2. CASE k \in 1 .. n
      <4> DEFINE d == fills[k]
      <4>1. /\ fills'[k] = d /\ d.instrument \in Range(Universe) /\ d.sequence \in Nat
            /\ d.session \in Nat /\ d.id = <<d.instrument, d.sequence>>
            /\ d.sequence <= numbered[d.instrument] /\ d.session <= session
        BY <2>2, <2>3, <3>2
      <4> HIDE DEF d
      <4>2. /\ numbered'[d.instrument] >= numbered[d.instrument]
            /\ numbered[d.instrument] \in Nat /\ numbered'[d.instrument] \in Nat
        BY <1>4, <4>1
      <4> QED BY <1>1, <2>1, <4>1, <4>2
    <3>3. k \in 1 .. n \/ k = n + 1
      BY <2>1, <2>2
    <3> QED BY <3>1, <3>2, <3>3
  <2> QED BY <2>2, <2>6, <2>7 DEF Drawn
<1>9. ASSUME NEW k \in 1 .. Len(Universe) PROVE WithinBudget(k)'
  <2> DEFINE y == Universe[k]
             was == numbered[y]
             now == numbered'[y]
             rest == left - 1
  <2>1. /\ y \in Range(Universe) /\ was \in Nat /\ now \in Nat /\ k \in Nat
        /\ rest \in Nat /\ left = rest + 1
        /\ k = turn => y = x /\ now = was + 1
        /\ k # turn => now = was
    BY <1>1, <1>4, UniverseType DEF x
  <2>2. /\ k < turn => was <= b + MaxFills
        /\ k = turn => was + left <= b + MaxFills
        /\ k > turn => was <= b
    BY <1>1, <1>5, <1>9 DEF SourceInv, Turns, WithinBudget, b
  <2>3. session' = session => MaxFills * session' = b /\ MaxFills * (session' + 1) = b + MaxFills
    BY <1>5 DEF b
  <2>4. session' = session + 1 => MaxFills * session' = b + MaxFills
    BY <1>5 DEF b
  <2> HIDE DEF y, was, now, rest
  <2>5. /\ k < turn => now <= b + MaxFills
        /\ k = turn => now + rest <= b + MaxFills /\ now <= b + MaxFills
        /\ k > turn => now <= b
    BY <1>1, <1>5, <2>1, <2>2
  <2>6. CASE ~last
    <3>1. turn' = turn /\ session' = session /\ left' = rest /\ rest > 0
      BY <1>1, <1>3, <2>1, <2>6 DEF rest
    <3> QED BY <2>1, <2>3, <2>5, <3>1 DEF WithinBudget, now, y
  <2>7. CASE last /\ turn < Len(Universe)
    <3>1. turn' = turn + 1 /\ session' = session /\ left' = 0
      <4>1. \A a, c \in Nat : a < c => a % c = a
        BY SMTT(30)
      <4> QED BY <1>1, <1>3, <2>7, <4>1, UniverseType
    <3>2. k < turn' => k < turn \/ k = turn
      BY <1>1, <2>1, <3>1
    <3>3. k >= turn' => k > turn
      BY <1>1, <2>1, <3>1
    <3> QED BY <1>1, <2>1, <2>3, <2>5, <3>1, <3>2, <3>3 DEF WithinBudget, now, y
  <2>8. CASE last /\ turn = Len(Universe)
    <3>1. turn' = 1 /\ session' = session + 1 /\ left' = 0
      <4>1. \A c \in Nat : c > 0 => c % c = 0
        BY SMTT(30)
      <4> QED BY <1>1, <1>3, <2>8, <4>1, UniverseType
    <3>2. k <= turn /\ ~(k < turn')
      BY <1>1, <2>1, <2>8, <3>1
    <3>3. now <= b + MaxFills
      BY <1>1, <2>1, <2>5, <3>2
    <3> QED BY <2>4, <3>1, <3>2, <3>3 DEF WithinBudget, now, y
  <2>9. turn < Len(Universe) \/ turn = Len(Universe)
    BY <1>1
  <2> QED BY <2>6, <2>7, <2>8, <2>9
<1>10. Turns'
  <2>1. (turn % Len(Universe)) + 1 \in 1 .. Len(Universe)
    <3>1. \A n, k \in Nat : n > 0 => (k % n) + 1 \in 1 .. n
      BY SMTT(30)
    <3> QED BY <1>1, <3>1, UniverseType
  <2>2. turn' \in 1 .. Len(Universe) /\ session' \in 0 .. NSessions /\ left' \in 0 .. MaxFills
    BY <1>1, <1>3, <2>1, UniverseAssumption
  <2>3. (left' > 0 => session' < NSessions) /\ (session' = NSessions => turn' = 1)
    <3>1. \A c \in Nat : c > 0 => c % c = 0
      BY SMTT(30)
    <3>2. Len(Universe) % Len(Universe) = 0 /\ NSessions \in Nat
      BY <3>1, UniverseType, UniverseAssumption
    <3>3. CASE last
      BY <1>1, <1>3, <3>2, <3>3
    <3>4. CASE ~last
      BY <1>1, <1>3, <3>2, <3>4
    <3> QED BY <3>3, <3>4
  <2> QED BY <1>4, <1>9, <2>2, <2>3 DEF Turns
<1> QED BY <1>8, <1>10 DEF SourceInv

\* A list of fills that are named by instrument and number, in order of number.
WellNumbered(list) ==
  /\ list \in Seq(AllFills)
  /\ \A k \in 1 .. Len(list) : list[k].id = <<list[k].instrument, list[k].sequence>>
  /\ InOrder(list)

\* Two places of such a list hold fills of different numbers and names.
LEMMA PlacesDiffer ==
  ASSUME NEW list, WellNumbered(list), NEW j \in 1 .. Len(list), NEW k \in 1 .. Len(list),
         \/ list[j].id = list[k].id
         \/ list[j].instrument = list[k].instrument /\ list[j].sequence = list[k].sequence
  PROVE  j = k
<1>1. list \in Seq(AllFills) /\ Len(list) \in Nat /\ list[j] \in AllFills /\ list[k] \in AllFills
  BY DEF WellNumbered
<1>2. list[j].instrument = list[k].instrument /\ list[j].sequence = list[k].sequence
  BY DEF WellNumbered
<1>3. list[j].sequence \in Nat /\ list[k].sequence \in Nat
  BY <1>1, FillType
<1>4. ~(j < k)
  BY <1>2, <1>3 DEF WellNumbered, InOrder
<1>5. ~(k < j)
  BY <1>2, <1>3 DEF WellNumbered, InOrder
<1> QED BY <1>1, <1>4, <1>5

LEMMA FillsAreNumbered ==
  ASSUME SourceInv
  PROVE  WellNumbered(fills) /\ StreamIsCanonical
<1>1. WellNumbered(fills)
  BY DEF SourceInv, Drawn, WellNumbered
<1>2. DOMAIN fills = 1 .. Len(fills) /\ Len(fills) \in Nat
  BY <1>1 DEF WellNumbered
<1>3. ASSUME NEW j \in 1 .. Len(fills), NEW k \in 1 .. Len(fills), j < k
      PROVE  /\ fills[j].id # fills[k].id
             /\ fills[j].instrument = fills[k].instrument =>
                  /\ fills[j].sequence < fills[k].sequence
                  /\ fills[j].session <= fills[k].session
  <2>1. j # k
    BY <1>2, <1>3
  <2> QED BY <1>1, <1>3, <2>1, PlacesDiffer DEF WellNumbered, InOrder
<1> QED BY <1>1, <1>2, <1>3 DEF StreamIsCanonical, Source!StreamIsCanonical

LEMMA SourceInit == Source!Init => SourceInv
<1> SUFFICES ASSUME Source!Init PROVE SourceInv
  OBVIOUS
<1>1. /\ session = 0 /\ turn = 1 /\ left = 0 /\ fills = << >>
      /\ numbered = [x \in Range(Universe) |-> 0]
  BY DEF Source!Init, Range
<1>2. /\ 0 \in 0 .. NSessions /\ 1 \in 1 .. Len(Universe) /\ 0 \in 0 .. MaxFills
      /\ MaxFills * 0 = 0 /\ NSessions # 0
  BY UniverseType, UniverseAssumption
<1>3. \A k \in 1 .. Len(Universe) : WithinBudget(k)
  <2> SUFFICES ASSUME NEW k \in 1 .. Len(Universe) PROVE WithinBudget(k)
    OBVIOUS
  <2>1. numbered[Universe[k]] = 0 /\ ~(k < turn)
    BY <1>1, UniverseType
  <2> QED BY <1>1, <1>2, <2>1 DEF WithinBudget
<1>4. Turns
  BY <1>1, <1>2, <1>3 DEF Turns
<1>5. Drawn
  BY <1>1 DEF Drawn, InOrder
<1> QED BY <1>4, <1>5 DEF SourceInv

LEMMA StepKeepsSource ==
  ASSUME SourceInv, [Next]_vars
  PROVE  SourceInv' /\ (stage # "generate" => UNCHANGED source)
<1>1. CASE Source!Next /\ stage = "generate"
  BY <1>1, DrawCountKeeps, EmitKeeps DEF Source!Next
<1>2. CASE UNCHANGED source
  BY <1>2 DEF source, SourceInv, Turns, WithinBudget, Drawn
<1> QED BY <1>1, <1>2 DEF Next, Generate, StartPerturbing, Perturb, Demonstrate, Connect, StartIngest,
                        Ingest, Rebuild, vars, source

\* build_canonical_fill_stream gives every fill a key of its own, and numbers an
\* instrument's fills upwards while its sessions never go back: what the key of
\* the fills table and the ORDER BY of rebuild_positions rely on.
THEOREM GeneratorNumbersItsFills == Spec => []StreamIsCanonical
<1>1. Init => SourceInv
  BY SourceInit DEF Init
<1>2. SourceInv /\ [Next]_vars => SourceInv'
  BY StepKeepsSource
<1>3. SourceInv => StreamIsCanonical
  BY FillsAreNumbered
<1> QED BY <1>1, <1>2, <1>3, PTL DEF Spec

-----------------------------------------------------------------------------
(* The perturbed stream.                                                   *)

\* perm in Shuffled says which place of the working list each delivered message
\* had.
ReplayInv ==
  /\ phase \in {"waiting", "copy", "shuffle", "perturbed"}
  /\ WellNumbered(canonical) /\ dupIndices \in SUBSET (1 .. Len(canonical))
  /\ copied \in 0 .. Len(canonical) /\ Expanded(AllFills, canonical, dupIndices, copied, withDups)
  /\ perturbed \in Seq(AllFills) /\ Len(perturbed) <= Len(withDups)
  /\ \E perm : Shuffled(Window, withDups, perturbed, perm)
  /\ phase = "waiting" => canonical = << >>
  /\ phase # "waiting" => Cardinality(dupIndices) = Perturbation!RoundedShare(Len(canonical))
  /\ phase \in {"waiting", "copy"} => perturbed = << >>
  /\ phase \in {"shuffle", "perturbed"} => copied = Len(canonical)
  /\ phase = "perturbed" => Len(perturbed) = Len(withDups)

LEMMA ReplayNames ==
  /\ \A S : Perturbation!Cardinality(S) = Cardinality(S)
  /\ \A S : Perturbation!Min(S) = Min(S)
  /\ \A S : Perturbation!SetToSeqs(S) = SetToSeqs(S)
  /\ \A f : Perturbation!Range(f) = Range(f)
BY DEF Perturbation!Cardinality, Cardinality, Perturbation!Min, Min, Perturbation!SetToSeqs,
       SetToSeqs, Perturbation!Range, Range

\* Drawing the indices leaves the working list and the output empty.
LEMMA StartKeeps ==
  ASSUME ReplayInv, NEW list, WellNumbered(list), Perturbation!Start(list)
  PROVE  ReplayInv'
<1> USE DEF ReplayInv, Perturbation!Start
<1>1. /\ canonical' = list /\ phase' = "copy" /\ list \in Seq(AllFills)
      /\ withDups' = withDups /\ copied' = copied /\ perturbed' = perturbed
  BY DEF WellNumbered
<1>2. dupIndices' \in SUBSET (1 .. Len(list))
      /\ Cardinality(dupIndices') = Perturbation!RoundedShare(Len(list))
  BY <1>1, ReplayNames
<1>3. copied = 0 /\ Len(list) \in Nat /\ Reached(dupIndices, 0) = 0
  <2>1. dupIndices \in SUBSET Nat
    BY DEF WellNumbered
  <2> QED BY <1>1, <2>1, ReachedGrows
<1>4. withDups \in Seq(AllFills) /\ Len(withDups) = 0
  BY <1>3 DEF Expanded
<1>5. Reached(dupIndices', 0) = 0
  <2>1. dupIndices' \in SUBSET Nat
    BY <1>2
  <2> QED BY <2>1, ReachedGrows
<1>6. Expanded(AllFills, list, dupIndices', 0, withDups)
  BY <1>4, <1>5 DEF Expanded
<1>7. Expanded(AllFills, canonical, dupIndices, copied, withDups)'
  BY <1>1, <1>3, <1>6 DEF Expanded, Span, Reached
<1>8. WellNumbered(canonical)'
  BY <1>1 DEF WellNumbered, InOrder
<1>9. (\E perm : Shuffled(Window, withDups, perturbed, perm))'
  BY <1>1 DEF Shuffled
<1> QED BY <1>1, <1>2, <1>3, <1>7, <1>8, <1>9

\* Copying a message, once or twice.
LEMMA CopyKeeps ==
  ASSUME ReplayInv, Perturbation!Copy
  PROVE  ReplayInv'
<1> DEFINE n == copied + 1
           m == canonical[n]
           more == IF n \in dupIndices THEN <<m, m>> ELSE <<m>>
<1>1. /\ phase = "copy" /\ copied < Len(canonical) /\ withDups' = withDups \o more
      /\ copied' = n /\ phase' \in {"copy", "shuffle"}
      /\ phase' = "shuffle" => n = Len(canonical)
      /\ canonical' = canonical /\ dupIndices' = dupIndices /\ perturbed' = perturbed
  BY DEF Perturbation!Copy
<1>2. /\ canonical \in Seq(AllFills) /\ Len(canonical) \in Nat /\ copied \in Nat
      /\ n \in 1 .. Len(canonical) /\ dupIndices \in SUBSET Nat
      /\ Expanded(AllFills, canonical, dupIndices, copied, withDups)
  BY <1>1 DEF ReplayInv, WellNumbered
<1>3. Expanded(AllFills, canonical, dupIndices, n, withDups \o more)
  BY <1>1, <1>2, CopyExpands
<1> HIDE DEF more, n
<1>4. Expanded(AllFills, canonical, dupIndices, copied, withDups)' /\ Len(withDups') \in Nat
  <2>1. Expanded(AllFills, canonical, dupIndices, copied, withDups)'
    BY <1>1, <1>3 DEF Expanded, Span, Reached
  <2>2. withDups' \in Seq(AllFills)
    BY <1>1, <1>3 DEF Expanded
  <2> QED BY <2>1, <2>2
<1>5. perturbed = << >> /\ perturbed' = << >>
  BY <1>1 DEF ReplayInv
<1>6. (\E perm : Shuffled(Window, withDups, perturbed, perm))'
  <2>1. Shuffled(Window, withDups', << >>, << >>)
    BY NothingShuffled
  <2> QED BY <1>5, <2>1 DEF Shuffled
<1>7. WellNumbered(canonical)'
  BY <1>1 DEF ReplayInv, WellNumbered, InOrder
<1> QED BY <1>1, <1>2, <1>4, <1>5, <1>6, <1>7 DEF ReplayInv

\* One window goes from the working list to the output.
LEMMA ShuffleKeeps ==
  ASSUME ReplayInv, Perturbation!Shuffle
  PROVE  ReplayInv'
<1> DEFINE s == Len(perturbed)
           e == Min({s + Window, Len(withDups)})
           n == e - s
           block == SubSeq(withDups, s + 1, e)
<1>1. /\ phase = "shuffle" /\ s < Len(withDups)
      /\ phase' = IF Len(perturbed') = Len(withDups) THEN "perturbed" ELSE "shuffle"
      /\ canonical' = canonical /\ dupIndices' = dupIndices
      /\ withDups' = withDups /\ copied' = copied
  BY DEF Perturbation!Shuffle
<1>2. PICK order \in SetToSeqs(DOMAIN block) :
        perturbed' = perturbed \o [k \in DOMAIN block |-> block[order[k]]]
  BY ReplayNames DEF Perturbation!Shuffle
<1>3. /\ withDups \in Seq(AllFills) /\ perturbed \in Seq(AllFills)
      /\ s \in Nat /\ Len(withDups) \in Nat /\ Window \in Nat /\ Window > 0
  BY ReplayAssumption DEF ReplayInv, Expanded
<1>4. e \in {s + Window, Len(withDups)} /\ e <= s + Window /\ e <= Len(withDups)
  <2> DEFINE b == s + Window
             c == Len(withDups)
  <2>1. b \in Nat /\ c \in Nat
    BY <1>3
  <2> HIDE DEF b, c
  <2>2. \E x \in {b, c} : \A y \in {b, c} : x <= y
    BY <2>1
  <2>3. Min({b, c}) \in {b, c} /\ Min({b, c}) <= b /\ Min({b, c}) <= c
    BY <2>2 DEF Min
  <2> QED BY <2>3 DEF b, c
<1> HIDE DEF e
<1>5. e \in Nat /\ n \in 1 .. Window /\ s + n = e /\ e <= Len(withDups)
  BY <1>1, <1>3, <1>4
<1>6. /\ DOMAIN block = 1 .. n /\ block \in Seq(AllFills) /\ Len(block) = n
      /\ \A k \in 1 .. n : block[k] = withDups[s + k]
  BY <1>3, <1>5
<1> HIDE DEF block, n
<1>7. n \in Nat /\ IsFiniteSet(1 .. n) /\ Cardinality(1 .. n) = n
  BY <1>5, FS_Interval
<1>8. order \in Injection(1 .. n, 1 .. n)
  BY <1>2, <1>6, <1>7 DEF SetToSeqs, Injection, IsInjective
<1>9. PICK perm : Shuffled(Window, withDups, perturbed, perm)
  BY DEF ReplayInv
<1>10. /\ perturbed' \in Seq(AllFills) /\ Len(perturbed') = s + n
       /\ \E q : Shuffled(Window, withDups, perturbed', q)
  <2> DEFINE next == perturbed \o [k \in 1 .. n |-> block[order[k]]]
  <2>1. perturbed' = next
    BY <1>2, <1>6
  <2>2. NextWindow(AllFills, Window, withDups, perturbed, n, order, block, next)
    BY <1>3, <1>5, <1>6, <1>8 DEF NextWindow
  <2> HIDE DEF next, s
  <2>3. next \in Seq(AllFills) /\ Len(next) = Len(perturbed) + n
        /\ \E q : Shuffled(Window, withDups, next, q)
    BY ONLY <1>9, <2>2, WindowShuffles
  <2> QED BY <2>1, <2>3 DEF s
<1>11. (\E q : Shuffled(Window, withDups, perturbed, q))'
  BY <1>1, <1>10 DEF Shuffled
<1>12. WellNumbered(canonical)' /\ Expanded(AllFills, canonical, dupIndices, copied, withDups)'
  BY <1>1 DEF ReplayInv, WellNumbered, InOrder, Expanded, Span, Reached
<1>13. Len(perturbed') <= Len(withDups')
  BY <1>1, <1>5, <1>10
<1> QED BY <1>1, <1>10, <1>11, <1>12, <1>13 DEF ReplayInv

\* The harness perturbs the fills of a stream that is complete.
LEMMA StepKeepsReplay ==
  ASSUME SourceInv, ReplayInv, [Next]_vars
  PROVE  ReplayInv'
<1>1. CASE Perturbation!Start(fills)
  BY <1>1, FillsAreNumbered, StartKeeps
<1>2. CASE Perturbation!Next
  BY <1>2, CopyKeeps, ShuffleKeeps DEF Perturbation!Next
<1>3. CASE UNCHANGED replay
  <2>1. UNCHANGED <<canonical, dupIndices, withDups, copied, perturbed, phase>>
    BY <1>3 DEF replay
  <2>2. WellNumbered(canonical)'
    BY <2>1 DEF ReplayInv, WellNumbered, InOrder
  <2>3. Expanded(AllFills, canonical, dupIndices, copied, withDups)'
    BY <2>1 DEF ReplayInv, Expanded, Span, Reached
  <2>4. (\E perm : Shuffled(Window, withDups, perturbed, perm))'
    <3>1. PICK perm : Shuffled(Window, withDups, perturbed, perm)
      BY DEF ReplayInv
    <3>2. Shuffled(Window, withDups, perturbed, perm)'
      BY <2>1, <3>1 DEF Shuffled
    <3> QED BY <3>2
  <2> QED BY <2>1, <2>2, <2>3, <2>4 DEF ReplayInv
<1> QED BY <1>1, <1>2, <1>3 DEF Next, Generate, StartPerturbing, Perturb, Demonstrate, Connect,
                        StartIngest, Ingest, Rebuild, vars

LEMMA ReplayInit == Perturbation!Init => ReplayInv
<1> SUFFICES ASSUME Perturbation!Init PROVE ReplayInv
  OBVIOUS
<1>1. /\ canonical = << >> /\ dupIndices = {} /\ withDups = << >> /\ copied = 0
      /\ perturbed = << >> /\ phase = "waiting"
  BY DEF Perturbation!Init
<1>2. << >> \in Seq(AllFills) /\ Len(<< >>) = 0 /\ 1 .. 0 = {}
  OBVIOUS
<1>3. Reached({}, 0) = 0
  BY ReachedGrows
<1>4. Shuffled(Window, << >>, << >>, << >>)
  BY NothingShuffled
<1> QED BY <1>1, <1>2, <1>3, <1>4 DEF ReplayInv, WellNumbered, InOrder, Expanded

\* At the end everything has been copied and delivered.
LEMMA ReplayDelivers ==
  ASSUME ReplayInv, phase = "perturbed"
  PROVE  \E perm : Delivered(AllFills, Window, canonical, dupIndices, withDups, perturbed, perm)
<1>1. PICK perm : Shuffled(Window, withDups, perturbed, perm)
  BY DEF ReplayInv
<1>2. canonical \in Seq(AllFills)
      /\ \A j, k \in 1 .. Len(canonical) : canonical[j] = canonical[k] => j = k
  BY PlacesDiffer DEF ReplayInv, WellNumbered
<1> QED BY <1>1, <1>2 DEF ReplayInv, Delivered

FullyDelivered ==
  /\ Range(perturbed) = Range(canonical)
  /\ \A m \in Range(canonical) : Perturbation!Copies(perturbed, m) \in 1 .. 2
  /\ Len(perturbed) = Len(canonical) + Cardinality(dupIndices)
  /\ Cardinality(dupIndices) = Perturbation!RoundedShare(Len(canonical))

LEMMA AllAreDelivered == ReplayInv /\ phase = "perturbed" => FullyDelivered
<1> SUFFICES ASSUME ReplayInv, phase = "perturbed" PROVE FullyDelivered
  OBVIOUS
<1>1. PICK perm : Delivered(AllFills, Window, canonical, dupIndices, withDups, perturbed, perm)
  BY ReplayDelivers
<1>2. Range(perturbed) = Range(canonical)
      /\ Len(perturbed) = Len(canonical) + Cardinality(dupIndices)
  BY <1>1, AllDelivered
<1>3. ASSUME NEW m \in Range(canonical) PROVE Perturbation!Copies(perturbed, m) \in 1 .. 2
  <2>1. DOMAIN canonical = 1 .. Len(canonical) /\ DOMAIN perturbed = 1 .. Len(perturbed)
    BY DEF ReplayInv, WellNumbered
  <2>2. PICK j \in 1 .. Len(canonical) : canonical[j] = m
    BY <2>1 DEF Range
  <2>3. Cardinality({a \in 1 .. Len(perturbed) : perturbed[a] = m}) \in 1 .. 2
    BY <1>1, <2>2, OneOrTwoCopies
  <2> QED BY <2>1, <2>3, ReplayNames DEF Perturbation!Copies, Perturbation!Positions
<1>4. Cardinality(dupIndices) = Perturbation!RoundedShare(Len(canonical))
  BY DEF ReplayInv
<1> QED BY <1>2, <1>3, <1>4 DEF FullyDelivered

\* No whole number is nearer to the share than the rounded one.
LEMMA ShareIsNearest ==
  ASSUME NEW n \in Nat
  PROVE  /\ Perturbation!RoundedShare(n) \in Int
         /\ 100 * Perturbation!RoundedShare(n) - DupPercent * n \in -50 .. 50
<1> DEFINE scaled == n * DupPercent
           down == scaled \div 100
           rest == scaled % 100
<1>1. DupPercent \in Nat
  BY ReplayAssumption
<1>2. scaled \in Nat /\ scaled = DupPercent * n
  BY <1>1
<1>3. Perturbation!RoundedShare(n)
      = IF 2 * rest > 100 \/ (2 * rest = 100 /\ down % 2 = 1) THEN down + 1 ELSE down
  BY DEF Perturbation!RoundedShare
<1>4. \A m \in Nat : m \div 100 \in Int /\ m % 100 \in 0 .. 99 /\ m = (m \div 100) * 100 + (m % 100)
  OBVIOUS
<1>5. down \in Int /\ rest \in 0 .. 99 /\ scaled = 100 * down + rest
  BY <1>2, <1>4
<1> HIDE DEF scaled, down, rest
<1> QED BY <1>2, <1>3, <1>5

LEMMA ReplayIsPermutation == ReplayInv => MultisetPreserved
<1> SUFFICES ASSUME ReplayInv, phase = "perturbed"
             PROVE  /\ Range(perturbed) = Range(canonical)
                    /\ \A m \in Range(canonical) : Perturbation!Copies(perturbed, m) \in 1 .. 2
                    /\ 100 * (Len(perturbed) - Len(canonical)) - DupPercent * Len(canonical)
                       \in -50 .. 50
  BY ReplayNames DEF MultisetPreserved, Perturbation!MultisetPreserved
<1> DEFINE n == Len(canonical)
           share == Perturbation!RoundedShare(n)
<1>1. FullyDelivered
  BY AllAreDelivered
<1>2. n \in Nat
  BY DEF ReplayInv, WellNumbered
<1>3. share \in Int /\ 100 * share - DupPercent * n \in -50 .. 50
  BY <1>2, ShareIsNearest
<1>4. Len(perturbed) = n + share
  BY <1>1 DEF FullyDelivered
<1> HIDE DEF n, share
<1>5. Len(perturbed) - n = share
  BY <1>2, <1>3, <1>4
<1> QED BY <1>1, <1>3, <1>5 DEF FullyDelivered, n

LEMMA ReplayIsBounded == ReplayInv => OvertakingIsBounded
<1> SUFFICES ASSUME ReplayInv, phase = "perturbed", NEW j \in DOMAIN canonical,
                    NEW k \in DOMAIN canonical, k - j >= Window,
                    NEW a \in DOMAIN perturbed, perturbed[a] = canonical[j],
                    NEW b \in DOMAIN perturbed, perturbed[b] = canonical[k]
             PROVE  a < b
  BY DEF OvertakingIsBounded, Perturbation!OvertakingIsBounded, Perturbation!Positions
<1>1. PICK perm : Delivered(AllFills, Window, canonical, dupIndices, withDups, perturbed, perm)
  BY ReplayDelivers
<1>2. j \in 1 .. Len(canonical) /\ k \in 1 .. Len(canonical)
      /\ a \in 1 .. Len(perturbed) /\ b \in 1 .. Len(perturbed)
  BY DEF ReplayInv, WellNumbered
<1> QED BY <1>1, <1>2, DeliveredInBounds, ReplayAssumption

\* The replay of any stream keeps it as a multiset but for the drawn copies:
\* each message arrives once or twice, nothing else does, and no number of second
\* copies is nearer to the requested share.
THEOREM ReplayKeepsMessages == Spec => []MultisetPreserved
<1>1. Init => SourceInv /\ ReplayInv
  BY SourceInit, ReplayInit DEF Init
<1>2. SourceInv /\ ReplayInv /\ [Next]_vars => SourceInv' /\ ReplayInv'
  BY StepKeepsSource, StepKeepsReplay
<1> QED BY <1>1, <1>2, ReplayIsPermutation, PTL DEF Spec

\* A message sent Window places or more after another one never overtakes it,
\* though copies push it back and every window is shuffled on its own.
THEOREM ReplayIsLocal == Spec => []OvertakingIsBounded
<1>1. Init => SourceInv /\ ReplayInv
  BY SourceInit, ReplayInit DEF Init
<1>2. SourceInv /\ ReplayInv /\ [Next]_vars => SourceInv' /\ ReplayInv'
  BY StepKeepsSource, StepKeepsReplay
<1> QED BY <1>1, <1>2, ReplayIsBounded, PTL DEF Spec

-----------------------------------------------------------------------------
(* The ledger on the fresh connections.                                    *)

L == INSTANCE FillLedgerProofs WITH
       Messages <- AllFills, Streams <- Seq(AllFills), Required <- Columns

\* What the theorems about the ledger assume of their constants holds here.
LEMMA LedgerStreams == L!StreamsAssumption
BY DEF L!StreamsAssumption

LEMMA LedgerMaxSequence == L!MaxSequenceAssumption
BY MaxSequenceType DEF L!MaxSequenceAssumption

LEMMA AllFillsComplete ==
  ASSUME NEW m \in AllFills
  PROVE  L!Storable(m)
BY CompleteAssumption DEF Conn!Storable, L!Storable

LEMMA LedgerMessages == L!MessagesAssumption
<1> SUFFICES ASSUME NEW m \in AllFills
             PROVE  /\ m.quantity \in Int /\ m.price \in Int
                    /\ m.session # NoValue /\ m.instrument # NoValue
                    /\ m.sequence \in 1 .. MaxSequence
  BY DEF L!MessagesAssumption
<1>1. m.session # NoValue /\ m.instrument # NoValue
  BY AllFillsComplete DEF L!Storable, Columns
<1>2. \A t \in AllTrades : t[1] \in Int /\ t[2] \in Int
  <2> SUFFICES ASSUME NEW t \in AllTrades PROVE t[1] \in Int /\ t[2] \in Int
    OBVIOUS
  <2>1. PICK x \in Range(Universe) : t \in Trades[x]
    BY UniverseAssumption DEF AllTrades, Range
  <2> QED BY <2>1, UniverseAssumption
<1> QED BY <1>1, <1>2 DEF AllFills

\* A well-numbered list has one content per key, and so have its parts.
LEMMA NumberedIsCanonical ==
  ASSUME NEW list, WellNumbered(list)
  PROVE  L!Canonical(Range(list)) /\ Cardinality(Range(list)) = Len(list)
<1>1. Len(list) \in Nat /\ DOMAIN list = 1 .. Len(list) /\ IsFiniteSet(1 .. Len(list))
      /\ Cardinality(1 .. Len(list)) = Len(list)
  <2>1. Len(list) \in Nat /\ DOMAIN list = 1 .. Len(list)
    BY DEF WellNumbered
  <2> DEFINE n == Len(list)
  <2>2. n \in Nat /\ 1 \in Int /\ n \in Int
    BY <2>1
  <2> HIDE DEF n
  <2>3. IsFiniteSet(1 .. n) /\ Cardinality(1 .. n) = n
    BY <2>2, FS_Interval
  <2> QED BY <2>1, <2>3 DEF n
<1>2. \A m \in Range(list) : \E k \in 1 .. Len(list) : list[k] = m
  BY <1>1 DEF Range
<1>3. L!KeysIdentify(Range(list))
  BY <1>2, PlacesDiffer DEF L!KeysIdentify, L!SameKey
<1>4. L!SequencesIdentify(Range(list))
  BY <1>2, PlacesDiffer DEF L!SequencesIdentify
<1>5. list \in Injection(1 .. Len(list), Range(list))
  <2>1. \A j, k \in 1 .. Len(list) : list[j] = list[k] => j = k
    BY PlacesDiffer
  <2>2. list \in [1 .. Len(list) -> Range(list)]
    BY <1>1 DEF Range, WellNumbered
  <2> QED BY <2>1, <2>2 DEF Injection, IsInjective
<1>6. list \in Surjection(1 .. Len(list), Range(list))
  BY <1>2, <1>5 DEF Surjection, Injection
<1>7. Cardinality(Range(list)) = Len(list)
  BY <1>1, <1>5, <1>6, FS_Surjection
<1> QED BY <1>3, <1>4, <1>7 DEF L!Canonical

LEMMA PartIsCanonical ==
  ASSUME NEW F, L!Canonical(F), NEW G \in SUBSET F
  PROVE  L!Canonical(G)
BY DEF L!Canonical, L!KeysIdentify, L!SequencesIdentify

\* What final_positions returns of a table rebuilt from F.
Reported(F) ==
  LET table == L!Rebuilt(F)
  IN  [x \in {p.instrument : p \in table} |-> (CHOOSE p \in table : p.instrument = x).pos]

Counts(list) ==
  [accepted |-> Cardinality(Range(list)), duplicates |-> Len(list) - Cardinality(Range(list))]

InputsInv ==
  /\ stage \in {"generate", "perturb", "compare"}
  /\ inputs \in Seq(Seq(AllFills))
  /\ \A k \in 1 .. Len(inputs) : L!Canonical(Range(inputs[k]))
  /\ stage # "compare" => inputs = << >>
  /\ stage = "generate" => phase = "waiting"
  /\ stage = "compare" => \/ inputs = <<canonical, perturbed>> /\ phase = "perturbed"
                          \/ Len(inputs[1]) = 1 /\ phase = "waiting"

\* How far the script is: a connection gets its stream, then its rebuild.
Progress ==
  /\ conns \in 0 .. Len(inputs)
  /\ stats \in Seq([accepted : Nat, duplicates : Nat])
  /\ results \in Seq({Reported(F) : F \in SUBSET AllFills})
  /\ Len(results) <= Len(stats) /\ Len(stats) <= conns /\ conns <= Len(results) + 1
  /\ pc = "ingest" => Len(stats) < conns
  /\ pc \in {"rebuild", "fold"} => Len(results) < Len(stats)
  /\ \A k \in 1 .. Len(stats) : stats[k] = Counts(inputs[k])
  /\ \A k \in 1 .. Len(results) : results[k] = Reported(Range(inputs[k]))

\* What the connection's fills table has of its stream.
Loaded ==
  /\ IsFiniteSet(messages)
  /\ pc = "idle" /\ Len(stats) < conns => messages = {}
  /\ pc = "ingest" => /\ stream = inputs[conns]
                      /\ L!Payloads(messages) \subseteq {stream[n] : n \in 1 .. i}
                      /\ accepted = Cardinality(messages) /\ accepted + duplicates = i
  /\ Len(stats) = conns /\ conns > 0 => L!Payloads(messages) = Range(inputs[conns])

ScriptInv == InputsInv /\ Progress /\ Loaded /\ L!IInv

LEMMA GivenType ==
  ASSUME NEW n \in 1 .. 2, NEW t \in Trades[Universe[1]]
  PROVE  Given(n, t) \in AllFills
<1>1. Universe[1] \in Range(Universe)
  BY UniverseType
<1>2. Trades[Universe[1]] \in Range(Trades)
  BY <1>1, UniverseAssumption DEF Range
<1>3. t \in AllTrades
  BY <1>2 DEF AllTrades
<1>4. t[1] \in {u[1] : u \in AllTrades} /\ t[2] \in {u[2] : u \in AllTrades}
  BY <1>3
<1>5. n \in 1 .. MaxSequence /\ 0 \in 0 .. NSessions - 1
  BY MaxSequenceType, UniverseAssumption
<1>6. <<Universe[1], n>> \in Range(Universe) \X (1 .. MaxSequence)
  BY <1>1, <1>5
<1> QED BY <1>1, <1>4, <1>5, <1>6 DEF Given, AllFills

\* The streams of the other script are of two fills with keys of their own.
LEMMA DemonstrateInputs ==
  ASSUME InputsInv, Demonstrate
  PROVE  InputsInv'
<1>1. stage = "generate" /\ stage' = "compare" /\ phase = "waiting" /\ phase' = "waiting"
  BY DEF InputsInv, Demonstrate, replay
<1>2. PICK t \in Trades[Universe[1]], u \in Trades[Universe[1]], n \in Repeats :
        inputs' = <<<<Given(1, t)>>, [k \in 1 .. n |-> Given(1, t)],
                    <<Given(1, t), Given(2, u), Given(1, t), Given(1, t), Given(2, u)>>>>
  BY DEF Demonstrate
<1> DEFINE fill == Given(1, t)
           other == Given(2, u)
           again == [k \in 1 .. n |-> fill]
           mixed == <<fill, other, fill, fill, other>>
<1>3. fill \in AllFills /\ other \in AllFills
  BY GivenType
<1>4. L!Canonical({fill, other})
  <2>1. /\ fill.id = <<Universe[1], 1>> /\ other.id = <<Universe[1], 2>>
        /\ fill.sequence = 1 /\ other.sequence = 2
    BY DEF Given
  <2> HIDE DEF fill, other
  <2>2. fill.id # other.id /\ fill.sequence # other.sequence
    BY <2>1
  <2> QED BY <2>2 DEF L!Canonical, L!KeysIdentify, L!SequencesIdentify, L!SameKey
<1> HIDE DEF fill, other
<1>5. /\ <<fill>> \in Seq(AllFills) /\ again \in Seq(AllFills) /\ mixed \in Seq(AllFills)
      /\ Range(<<fill>>) \in SUBSET {fill, other} /\ Range(again) \in SUBSET {fill, other}
      /\ Range(mixed) \in SUBSET {fill, other} /\ Len(<<fill>>) = 1
  <2>1. n \in Nat
    BY UniverseAssumption
  <2>2. again \in Seq(AllFills)
    BY <1>3, <2>1
  <2>3. <<fill>> \in Seq(AllFills) /\ mixed \in Seq(AllFills) /\ Len(<<fill>>) = 1
    BY <1>3
  <2>4. Range(<<fill>>) \subseteq {fill, other} /\ Range(again) \subseteq {fill, other}
    BY DEF Range
  <2>5. DOMAIN mixed = 1 .. 5
    OBVIOUS
  <2>6. \A k \in 1 .. 5 : mixed[k] \in {fill, other}
    OBVIOUS
  <2>7. Range(mixed) \subseteq {fill, other}
    BY <2>5, <2>6 DEF Range
  <2> QED BY <2>2, <2>3, <2>4, <2>7
<1> HIDE DEF again, mixed
<1>6. inputs' = <<<<fill>>, again, mixed>>
  BY <1>2 DEF fill, other, again, mixed
<1>7. /\ inputs' \in Seq(Seq(AllFills)) /\ Len(inputs') = 3
      /\ inputs'[1] = <<fill>> /\ inputs'[2] = again /\ inputs'[3] = mixed
  BY <1>5, <1>6
<1>8. \A k \in 1 .. 3 : L!Canonical(Range(inputs'[k]))
  <2>1. L!Canonical(Range(<<fill>>)) /\ L!Canonical(Range(again)) /\ L!Canonical(Range(mixed))
    BY <1>4, <1>5, PartIsCanonical
  <2> QED BY <1>7, <2>1
<1> QED BY <1>1, <1>5, <1>7, <1>8 DEF InputsInv, L!Canonical, L!KeysIdentify, L!SequencesIdentify, L!SameKey

\* So are the stream and its replay.
LEMMA PerturbInputs ==
  ASSUME InputsInv, ReplayInv, ReplayInv', Perturb
  PROVE  InputsInv'
<1>1. stage = "perturb" /\ inputs = << >>
  BY DEF InputsInv, Perturb
<1>2. CASE phase' # "perturbed"
  BY <1>1, <1>2 DEF InputsInv, Perturb
<1>3. CASE phase' = "perturbed"
  <2>1. stage' = "compare" /\ inputs' = <<canonical', perturbed'>>
    <3>1. canonical' = canonical
      BY DEF Perturb, Perturbation!Next, Perturbation!Copy, Perturbation!Shuffle
    <3> QED BY <1>3, <3>1 DEF Perturb
  <2>2. WellNumbered(canonical') /\ perturbed' \in Seq(AllFills)
    BY DEF ReplayInv, WellNumbered, InOrder
  <2>3. canonical' \in Seq(AllFills)
    BY <2>2 DEF WellNumbered
  <2>4. MultisetPreserved'
    BY ReplayIsPermutation, PTL
  <2>5. Range(perturbed') = Range(canonical')
    BY <1>3, <2>4, ReplayNames DEF MultisetPreserved, Perturbation!MultisetPreserved
  <2>6. L!Canonical(Range(canonical'))
    BY <2>2, NumberedIsCanonical
  <2>7. /\ inputs' \in Seq(Seq(AllFills)) /\ Len(inputs') = 2
        /\ inputs'[1] = canonical' /\ inputs'[2] = perturbed'
    BY <2>1, <2>2, <2>3
  <2>8. \A k \in 1 .. 2 : L!Canonical(Range(inputs'[k]))
    BY <2>5, <2>6, <2>7
  <2> QED BY <1>3, <2>1, <2>7, <2>8 DEF InputsInv
<1> QED BY <1>2, <1>3

LEMMA StepKeepsInputs ==
  ASSUME SourceInv, ReplayInv, InputsInv, [Next]_vars
  PROVE  InputsInv'
<1>1. CASE Demonstrate
  BY <1>1, DemonstrateInputs
<1>2. CASE Perturb
  BY <1>2, StepKeepsReplay, PerturbInputs
<1>3. CASE StartPerturbing
  BY <1>3 DEF InputsInv, StartPerturbing
<1>4. CASE UNCHANGED <<replay, stage, inputs>>
  BY <1>4 DEF InputsInv, replay
<1> QED BY <1>1, <1>2, <1>3, <1>4 DEF Next, Generate, Connect, StartIngest, Ingest, Rebuild, vars, script

\* A new database in memory is an empty ledger.
LEMMA ConnectKeeps ==
  ASSUME ScriptInv, Connect
  PROVE  Progress' /\ Loaded' /\ L!IInv'
<1> USE DEF ScriptInv
<1>1. /\ pc = "idle" /\ pc' = "idle" /\ conns < Len(inputs) /\ Len(results) = conns
      /\ conns' = conns + 1 /\ inputs' = inputs /\ stats' = stats /\ results' = results
      /\ messages' = {} /\ savedMessages' = {} /\ positions' = {} /\ savedPositions' = {}
      /\ UNCHANGED <<stream, i, accepted, duplicates, todo, inst, rows, acc>>
  BY DEF Connect, Conn!ConnectInMemory, cursor, Conn!batch
<1>2. Len(inputs) \in Nat /\ Len(stats) \in Nat /\ conns \in Nat
  BY DEF InputsInv, Progress
<1>3. Len(stats) = conns
  BY <1>1, <1>2 DEF Progress
<1>4. Progress'
  BY <1>1, <1>2 DEF Progress
<1>5. Loaded'
  BY <1>1, <1>2, <1>3, FS_EmptySet DEF Loaded
<1>6. L!StoredFills' = {}
  BY <1>1 DEF L!StoredFills, L!Payloads
<1>7. L!TypeOK'
  BY <1>1 DEF L!IInv, L!TypeOK, L!NoRebuild
<1>8. L!OneRowPerKey' /\ L!DeliveredIsStored' /\ L!NoStream' /\ L!NoRebuild'
  BY <1>1 DEF L!IInv, L!OneRowPerKey, L!DeliveredIsStored, L!NoStream, L!NoRebuild
<1>9. L!Between' /\ L!IngestOnly' /\ L!RebuildOnly' /\ L!TablePart' /\ L!FoldPart'
  BY <1>1 DEF L!Between, L!IngestOnly, L!RebuildOnly, L!TablePart, L!FoldPart
<1> QED BY <1>4, <1>5, <1>6, <1>7, <1>8, <1>9 DEF L!IInv

\* Each stream goes into a database nothing was put into before.
LEMMA StartIngestKeeps ==
  ASSUME ScriptInv, StartIngest
  PROVE  Progress' /\ Loaded' /\ L!IInv'
<1> USE DEF ScriptInv
<1>1. /\ pc = "idle" /\ pc' = "ingest" /\ Len(stats) < conns
      /\ stream' = inputs[conns] /\ i' = 0 /\ accepted' = 0 /\ duplicates' = 0
      /\ messages' = messages /\ conns' = conns /\ inputs' = inputs
      /\ stats' = stats /\ results' = results
  BY DEF StartIngest, Conn!BeginIngest, Conn!BeginStream, Conn!tables, script
<1>2. Len(inputs) \in Nat /\ Len(stats) \in Nat /\ conns \in Nat /\ conns \in 1 .. Len(inputs)
  BY <1>1 DEF InputsInv, Progress
<1>3. messages = {} /\ Cardinality({}) = 0 /\ IsFiniteSet({})
  BY <1>1, FS_EmptySet DEF Loaded
<1>4. Progress'
  BY <1>1, <1>2 DEF Progress
<1>5. Loaded'
  BY <1>1, <1>2, <1>3 DEF Loaded, L!Payloads
<1>6. inputs[conns] \in Seq(AllFills)
  BY <1>2 DEF InputsInv
<1>7. L!BeginIngest(inputs[conns])
  BY DEF StartIngest, Conn!BeginIngest, Conn!BeginStream, Conn!tables, Conn!cursor,
         L!BeginIngest, L!BeginStream, L!tables, L!cursor
<1>8. L!IInv'
  BY <1>6, <1>7, L!BeginIngestInv, LedgerStreams, LedgerMessages, LedgerMaxSequence
<1> QED BY <1>4, <1>5, <1>8

\* Whatever has arrived on a connection is of its stream.
LEMMA ArrivedOfInput ==
  ASSUME ScriptInv, \/ pc = "ingest"
                    \/ Len(results) < Len(stats)
  PROVE  L!Canonical(L!Arrived)
<1> USE DEF ScriptInv
<1>1. /\ Len(inputs) \in Nat /\ Len(stats) \in Nat /\ Len(results) \in Nat /\ conns \in Nat
      /\ conns <= Len(inputs)
  BY DEF InputsInv, Progress
<1>2. conns \in 1 .. Len(inputs)
  BY <1>1 DEF Progress
<1>3. L!Arrived \in SUBSET Range(inputs[conns])
  <2>1. CASE pc = "ingest"
    <3>1. stream = inputs[conns] /\ L!StoredFills \subseteq {stream[n] : n \in 1 .. i}
      BY <2>1 DEF Loaded, L!StoredFills
    <3>2. stream \in Seq(AllFills) /\ i \in 0 .. Len(stream)
      BY DEF L!IInv, L!TypeOK
    <3>3. 1 .. i \subseteq DOMAIN stream
      BY <3>2
    <3> QED BY <3>1, <3>3 DEF L!Arrived, Range
  <2>2. CASE pc # "ingest"
    <3>1. Len(results) < Len(stats)
      BY <2>2
    <3>2. Len(stats) = conns /\ conns > 0
      BY <1>1, <3>1 DEF Progress
    <3>3. L!StoredFills = Range(inputs[conns])
      BY <3>2 DEF Loaded, L!StoredFills
    <3>4. stream = << >>
      BY <2>2 DEF L!IInv, L!NoStream
    <3> QED BY <3>3, <3>4 DEF L!Arrived
  <2> QED BY <2>1, <2>2
<1>4. L!Canonical(Range(inputs[conns]))
  BY <1>2 DEF InputsInv
<1> QED BY <1>3, <1>4, PartIsCanonical

\* A call that runs on a connection keeps the ledger's own invariant.
LEMMA LedgerKeeps ==
  ASSUME ScriptInv, Ingest \/ Rebuild
  PROVE  L!IInv'
<1> USE DEF ScriptInv
<1>1. CASE Ingest
  <2>1. L!IngestStep
    BY <1>1 DEF Ingest, Conn!IngestStep, Conn!AcceptMessage, Conn!RejectMessage, Conn!CommitStream,
                Conn!Rejected, Conn!SameKey, Conn!Storable, Conn!Commit, Conn!EndBatch, Conn!tables,
                Conn!cursor, L!IngestStep, L!AcceptMessage, L!RejectMessage, L!CommitStream,
                L!Rejected, L!SameKey, L!Storable, L!Commit, L!EndBatch, L!tables, L!cursor
  <2>2. pc = "ingest"
    BY <2>1 DEF L!IngestStep, L!AcceptMessage, L!RejectMessage, L!CommitStream
  <2> QED BY <2>1, <2>2, ArrivedOfInput, L!CallsKeep, LedgerStreams, LedgerMessages,
             LedgerMaxSequence
<1>2. CASE Rebuild
  <2>1. Conn!Rebuild => L!Rebuild
    <3>1. Conn!BeginRebuild => L!BeginRebuild
      BY DEF Conn!BeginRebuild, Conn!Instruments, Conn!Payloads, Conn!batch,
             L!BeginRebuild, L!Instruments, L!Payloads, L!batch
    <3>2. Conn!SelectInstrument => L!SelectInstrument
      BY DEF Conn!SelectInstrument, Conn!RowsOf, Conn!Start, Conn!Flat, Conn!tables, Conn!batch,
             L!SelectInstrument, L!RowsOf, L!Start, L!Flat, L!tables, L!batch
    <3>3. Conn!FoldRow => L!FoldRow
      <4>1. \A a, m : Conn!Apply(a, m) = L!Apply(a, m)
        BY Zenon DEF Conn!Apply, Conn!Fold, Conn!Flat, Conn!SameDirectionOrFlat, Conn!Flips,
                     Conn!Blend, L!Apply, L!Fold, L!Flat, L!SameDirectionOrFlat, L!Flips, L!Blend
      <4> QED BY <4>1 DEF Conn!FoldRow, Conn!tables, Conn!batch, L!FoldRow, L!tables, L!batch
    <3>4. Conn!InsertPosition => L!InsertPosition
      BY DEF Conn!InsertPosition, Conn!PositionRow, Conn!Start, Conn!Flat, Conn!batch,
             L!InsertPosition, L!PositionRow, L!Start, L!Flat, L!batch
    <3>5. Conn!CommitRebuild => L!CommitRebuild
      BY DEF Conn!CommitRebuild, Conn!Commit, Conn!batch, Conn!cursor,
             L!CommitRebuild, L!Commit, L!batch, L!cursor
    <3> QED BY <3>1, <3>2, <3>3, <3>4, <3>5 DEF Conn!Rebuild, L!Rebuild
  <2>2. Len(results) < Len(stats) /\ L!Rebuild
    BY <1>2, <2>1 DEF Rebuild
  <2> QED BY <2>2, ArrivedOfInput, L!CallsKeep, LedgerStreams, LedgerMessages, LedgerMaxSequence
<1> QED BY <1>1, <1>2

\* With one row per key, there are as many rows as messages stored.
LEMMA RowsAreMessages ==
  ASSUME L!IInv, IsFiniteSet(messages)
  PROVE  Cardinality(messages) = Cardinality(L!Payloads(messages))
<1> DEFINE f == [r \in messages |-> r.msg]
           P == L!Payloads(messages)
<1>1. \A r, u \in messages : r.msg = u.msg => r = u
  BY DEF L!IInv, L!OneRowPerKey, L!SameKey
<1>2. f \in Injection(messages, P) /\ f \in Surjection(messages, P)
  BY <1>1 DEF Injection, Surjection, IsInjective, L!Payloads
<1> HIDE DEF f, P
<1>3. Cardinality(messages) = Cardinality(P)
  BY <1>2, FS_Surjection
<1> QED BY <1>3 DEF P

\* A message is taken in, or the stream is at its end and its counts are final.
LEMMA IngestKeeps ==
  ASSUME ScriptInv, Ingest, L!IInv'
  PROVE  Progress' /\ Loaded'
<1> USE DEF ScriptInv
<1>1. /\ pc = "ingest" /\ conns' = conns /\ inputs' = inputs /\ results' = results
      /\ stats' = IF pc' = "idle"
                  THEN Append(stats, [accepted |-> accepted, duplicates |-> duplicates])
                  ELSE stats
  BY DEF Ingest, Conn!IngestStep, Conn!AcceptMessage, Conn!RejectMessage, Conn!CommitStream
<1>2. /\ Len(inputs) \in Nat /\ Len(stats) \in Nat /\ Len(results) \in Nat /\ conns \in Nat
      /\ stream \in Seq(AllFills) /\ i \in 0 .. Len(stream) /\ i \in Nat /\ Len(stream) \in Nat
      /\ accepted \in Nat /\ duplicates \in Nat
  BY DEF InputsInv, Progress, L!IInv, L!TypeOK
<1>3. /\ Len(stats) < conns /\ conns = Len(stats) + 1 /\ Len(results) = Len(stats)
      /\ conns \in 1 .. Len(inputs)
  BY <1>1, <1>2 DEF Progress
<1>4. /\ stream = inputs[conns] /\ L!Payloads(messages) \subseteq {stream[n] : n \in 1 .. i}
      /\ accepted = Cardinality(messages) /\ accepted + duplicates = i /\ IsFiniteSet(messages)
  BY <1>1 DEF Loaded
<1>5. CASE Conn!AcceptMessage
  <2> DEFINE row == [msg |-> stream[i + 1], received_at |-> i]
  <2>1. /\ messages' = messages \cup {row} /\ accepted' = accepted + 1 /\ i' = i + 1
        /\ pc' = "ingest" /\ stream' = stream /\ duplicates' = duplicates /\ stats' = stats
        /\ \A r \in messages : ~Conn!SameKey(r.msg, stream[i + 1])
    BY <1>1, <1>5 DEF Conn!AcceptMessage, Conn!Rejected
  <2>2. row \notin messages /\ row.msg = stream[i + 1]
    BY <2>1 DEF Conn!SameKey
  <2> HIDE DEF row
  <2>3. IsFiniteSet(messages') /\ Cardinality(messages') = Cardinality(messages) + 1
    BY <1>4, <2>1, <2>2, FS_AddElement
  <2>4. L!Payloads(messages') \subseteq {stream'[n] : n \in 1 .. i'}
    <3>1. L!Payloads(messages') = L!Payloads(messages) \cup {stream[i + 1]}
      BY <2>1, <2>2 DEF L!Payloads
    <3>2. 1 .. i \subseteq 1 .. (i + 1) /\ i + 1 \in 1 .. (i + 1)
      BY <1>2
    <3> QED BY <1>4, <2>1, <3>1, <3>2
  <2>5. accepted' + duplicates' = i' /\ accepted' = Cardinality(messages')
    BY <1>2, <1>4, <2>1, <2>3
  <2>6. Progress'
    BY <1>1, <1>3, <2>1 DEF Progress
  <2>7. Loaded'
    <3>1. (L!Payloads(messages) \subseteq {stream[n] : n \in 1 .. i})'
      BY <2>4 DEF L!Payloads
    <3>2. IsFiniteSet(messages)' /\ (accepted = Cardinality(messages) /\ accepted + duplicates = i)'
      BY <2>3, <2>5
    <3>3. pc' = "ingest" /\ Len(stats') # conns' /\ stream' = inputs'[conns']
      BY <1>1, <1>2, <1>3, <1>4, <2>1
    <3> QED BY <3>1, <3>2, <3>3 DEF Loaded
  <2> QED BY <2>6, <2>7
<1>6. CASE Conn!RejectMessage
  <2>1. /\ messages' = messages /\ accepted' = accepted /\ i' = i + 1
        /\ pc' = "ingest" /\ stream' = stream /\ duplicates' = duplicates + 1 /\ stats' = stats
    BY <1>1, <1>6 DEF Conn!RejectMessage, Conn!tables
  <2>2. L!Payloads(messages') \subseteq {stream'[n] : n \in 1 .. i'}
    <3>1. 1 .. i \subseteq 1 .. (i + 1)
      BY <1>2
    <3> QED BY <1>4, <2>1, <3>1 DEF L!Payloads
  <2>3. accepted' + duplicates' = i'
    BY <1>2, <1>4, <2>1
  <2>4. Progress'
    BY <1>1, <1>3, <2>1 DEF Progress
  <2>5. Loaded'
    BY <1>1, <1>2, <1>3, <1>4, <2>1, <2>2, <2>3 DEF Loaded, L!Payloads
  <2> QED BY <2>4, <2>5
<1>7. CASE Conn!CommitStream
  <2> DEFINE counts == [accepted |-> accepted, duplicates |-> duplicates]
  <2>1. /\ i = Len(stream) /\ messages' = messages /\ pc' = "idle"
        /\ stats' = Append(stats, counts)
    BY <1>1, <1>7 DEF Conn!CommitStream
  <2>2. L!Payloads(messages) = Range(stream)
    <3>1. \A n \in 1 .. i : stream[n] \in L!Payloads(messages)
      BY <1>2, AllFillsComplete DEF L!IInv, L!DeliveredIsStored
    <3>2. DOMAIN stream = 1 .. i
      BY <1>2, <2>1
    <3> QED BY <1>4, <3>1, <3>2 DEF Range
  <2>3. counts = Counts(stream)
    <3>1. accepted = Cardinality(Range(stream))
      BY <1>4, <2>2, RowsAreMessages
    <3>2. duplicates = Len(stream) - Cardinality(Range(stream))
      BY <1>2, <1>4, <2>1, <3>1
    <3> QED BY <3>1, <3>2 DEF Counts
  <2>4. counts \in [accepted : Nat, duplicates : Nat]
    BY <1>2
  <2> HIDE DEF counts
  <2>5. /\ stats' \in Seq([accepted : Nat, duplicates : Nat]) /\ Len(stats') = conns
        /\ \A k \in 1 .. Len(stats) : stats'[k] = stats[k]
        /\ stats'[conns] = counts
    BY <1>3, <2>1, <2>4 DEF Progress
  <2>6. \A k \in 1 .. Len(stats') : stats'[k] = Counts(inputs'[k])
    <3> SUFFICES ASSUME NEW k \in 1 .. conns PROVE stats'[k] = Counts(inputs[k])
      BY <1>1, <2>5
    <3>1. CASE k = conns
      BY <1>4, <2>3, <2>5, <3>1
    <3>2. CASE k # conns
      <4>1. k \in 1 .. Len(stats)
        BY <1>2, <1>3, <3>2
      <4> QED BY <2>5, <4>1 DEF Progress
    <3> QED BY <3>1, <3>2
  <2>7. Progress'
    BY <1>1, <1>2, <1>3, <2>1, <2>5, <2>6 DEF Progress
  <2>8. Loaded'
    BY <1>1, <1>2, <1>3, <1>4, <2>1, <2>2, <2>5 DEF Loaded, L!Payloads
  <2> QED BY <2>7, <2>8
<1> QED BY <1>5, <1>6, <1>7 DEF Ingest, Conn!IngestStep

\* A rebuild that commits reports the table its stream stands for.
LEMMA RebuildKeeps ==
  ASSUME ScriptInv, Rebuild
  PROVE  Progress' /\ Loaded'
<1> USE DEF ScriptInv
<1>1. /\ Len(results) < Len(stats) /\ messages' = messages
      /\ conns' = conns /\ inputs' = inputs /\ stats' = stats
      /\ results' = IF pc' = "idle" THEN Append(results, Conn!FinalPositions) ELSE results
      /\ pc' \in {"idle", "rebuild", "fold"}
  BY DEF Rebuild, Conn!Rebuild, Conn!BeginRebuild, Conn!SelectInstrument, Conn!FoldRow,
         Conn!InsertPosition, Conn!CommitRebuild, Conn!tables
<1>2. /\ Len(inputs) \in Nat /\ Len(stats) \in Nat /\ Len(results) \in Nat /\ conns \in Nat
  BY DEF InputsInv, Progress
<1>3. Len(stats) = conns /\ conns = Len(results) + 1 /\ conns \in 1 .. Len(inputs)
  BY <1>1, <1>2 DEF Progress
<1>4. Loaded'
  <2>1. L!Payloads(messages) = Range(inputs[conns]) /\ IsFiniteSet(messages)
    BY <1>2, <1>3 DEF Loaded
  <2> QED BY <1>1, <1>2, <1>3, <2>1 DEF Loaded, L!Payloads
<1>5. CASE pc' # "idle"
  BY <1>1, <1>2, <1>3, <1>4, <1>5 DEF Progress
<1>6. CASE pc' = "idle"
  <2>1. pc = "rebuild" /\ todo = {}
    BY <1>6 DEF Rebuild, Conn!Rebuild, Conn!BeginRebuild, Conn!SelectInstrument, Conn!FoldRow,
                Conn!InsertPosition, Conn!CommitRebuild
  <2> DEFINE F == Range(inputs[conns])
  <2>2. positions = L!Rebuilt(F)
    <3>1. L!RebuildIsReference
      BY L!RebuiltWhenDone, LedgerStreams, LedgerMessages, LedgerMaxSequence
    <3>2. L!Payloads(messages) = F
      BY <1>2, <1>3 DEF Loaded
    <3> QED BY <2>1, <3>1, <3>2 DEF L!RebuildIsReference
  <2>3. results' = Append(results, Reported(F))
    BY <1>1, <1>6, <2>2 DEF Reported, Conn!FinalPositions
  <2>4. F \in SUBSET AllFills
    <3>1. inputs[conns] \in Seq(AllFills)
      BY <1>3 DEF InputsInv
    <3> QED BY <3>1 DEF Range
  <2>5. Reported(F) \in {Reported(G) : G \in SUBSET AllFills}
    BY <2>4
  <2> DEFINE R == {Reported(G) : G \in SUBSET AllFills}
             new == Reported(F)
  <2>6. results \in Seq(R) /\ new \in R
    BY <2>5 DEF Progress
  <2> HIDE DEF R, new
  <2>7. /\ results' \in Seq(R) /\ Len(results') = conns /\ results'[conns] = new
        /\ \A k \in 1 .. Len(results) : results'[k] = results[k]
    BY <1>3, <2>3, <2>6 DEF new
  <2>8. \A k \in 1 .. Len(results') : results'[k] = Reported(Range(inputs'[k]))
    <3> SUFFICES ASSUME NEW k \in 1 .. conns PROVE results'[k] = Reported(Range(inputs[k]))
      BY <1>1, <2>7
    <3>1. CASE k = conns
      BY <2>7, <3>1 DEF new
    <3>2. CASE k # conns
      <4>1. k \in 1 .. Len(results)
        BY <1>2, <1>3, <3>2
      <4> QED BY <2>7, <4>1 DEF Progress
    <3> QED BY <3>1, <3>2
  <2>9. results' \in Seq({Reported(G) : G \in SUBSET AllFills})
    BY <2>7 DEF R
  <2>10. Progress'
    BY <1>1, <1>2, <1>3, <1>6, <2>7, <2>8, <2>9 DEF Progress
  <2> QED BY <1>4, <2>10
<1> QED BY <1>4, <1>5, <1>6

\* Elsewhere the ledger and the results stay as they are; before the streams
\* are there no connection was opened.
LEMMA OtherKeeps ==
  ASSUME ScriptInv, UNCHANGED <<ledger, conns, stats, results>>,
         \/ inputs' = inputs
         \/ inputs = << >> /\ inputs' \in Seq(Seq(AllFills))
  PROVE  Progress' /\ Loaded' /\ L!IInv'
<1> USE DEF ScriptInv
<1>1. /\ UNCHANGED <<savedMessages, savedPositions, messages, positions, pc, stream, i, accepted,
                     duplicates, todo, inst, rows, acc>>
      /\ UNCHANGED <<conns, stats, results>>
  BY DEF ledger, cursor
<1>2. UNCHANGED L!vars
  BY <1>1 DEF L!vars, L!tables, L!batch, L!cursor
<1>3. L!IInv'
  BY <1>2, L!StutterInv, LedgerStreams, LedgerMessages, LedgerMaxSequence
<1>4. CASE inputs' = inputs
  <2>1. Progress'
    BY <1>1, <1>4 DEF Progress
  <2>2. Loaded'
    BY <1>1, <1>4 DEF Loaded, L!Payloads
  <2> QED BY <1>3, <2>1, <2>2
<1>5. CASE inputs = << >> /\ inputs' \in Seq(Seq(AllFills))
  <2>1. conns = 0 /\ Len(stats) = 0 /\ Len(results) = 0 /\ Len(inputs') \in Nat
    <3>1. Len(inputs) = 0
      BY <1>5
    <3>2. Len(stats) \in Nat /\ Len(results) \in Nat /\ conns \in 0 .. 0
      BY <3>1 DEF Progress
    <3> QED BY <1>5, <3>2 DEF Progress
  <2>2. pc = "idle"
    <3>1. pc \in {"idle", "ingest", "rebuild", "fold"}
      BY DEF L!IInv, L!TypeOK
    <3> QED BY <2>1, <3>1 DEF Progress
  <2>3. Progress'
    BY <1>1, <2>1, <2>2 DEF Progress
  <2>4. Loaded'
    BY <1>1, <2>1, <2>2 DEF Loaded
  <2> QED BY <1>3, <2>3, <2>4
<1> QED BY <1>4, <1>5

LEMMA StepKeepsScript ==
  ASSUME SourceInv, ReplayInv, ScriptInv, [Next]_vars
  PROVE  ScriptInv'
<1>1. InputsInv'
  BY StepKeepsInputs DEF ScriptInv
<1>2. CASE Connect
  BY <1>1, <1>2, ConnectKeeps DEF ScriptInv
<1>3. CASE StartIngest
  BY <1>1, <1>3, StartIngestKeeps DEF ScriptInv
<1>4. CASE Ingest
  BY <1>1, <1>4, LedgerKeeps, IngestKeeps DEF ScriptInv
<1>5. CASE Rebuild
  BY <1>1, <1>5, LedgerKeeps, RebuildKeeps DEF ScriptInv
<1>6. CASE Generate \/ StartPerturbing \/ Perturb \/ Demonstrate \/ UNCHANGED vars
  <2>1. UNCHANGED <<ledger, conns, stats, results>>
    BY <1>6 DEF Generate, StartPerturbing, Perturb, Demonstrate, vars, script
  <2>2. inputs' = inputs \/ inputs = << >>
    BY <1>6 DEF Generate, StartPerturbing, Perturb, Demonstrate, vars, script, ScriptInv, InputsInv
  <2>3. inputs' \in Seq(Seq(AllFills))
    BY <1>1 DEF InputsInv
  <2> QED BY <1>1, <2>1, <2>2, <2>3, OtherKeeps DEF ScriptInv
<1> QED BY <1>2, <1>3, <1>4, <1>5, <1>6 DEF Next

LEMMA ScriptInit == Init => ScriptInv
<1> SUFFICES ASSUME Init PROVE ScriptInv
  OBVIOUS
<1>1. L!Init
  BY DEF Init, Conn!Init, Conn!StoreInit, Conn!Start, Conn!Flat, L!Init, L!StoreInit, L!Start, L!Flat
<1>2. L!IInv
  BY <1>1, L!InitInv, LedgerStreams, LedgerMessages, LedgerMaxSequence
<1>3. /\ stage = "generate" /\ inputs = << >> /\ conns = 0 /\ stats = << >> /\ results = << >>
      /\ phase = "waiting" /\ messages = {} /\ pc = "idle"
  BY DEF Init, Perturbation!Init, Conn!Init, Conn!StoreInit
<1>4. Len(inputs) = 0 /\ Len(stats) = 0 /\ Len(results) = 0
  BY <1>3
<1>5. inputs \in Seq(Seq(AllFills)) /\ stats \in Seq([accepted : Nat, duplicates : Nat])
      /\ results \in Seq({Reported(F) : F \in SUBSET AllFills})
  BY <1>3
<1>6. InputsInv
  BY <1>3, <1>4, <1>5 DEF InputsInv
<1>7. Progress
  BY <1>3, <1>4, <1>5 DEF Progress
<1>8. Loaded
  BY <1>3, <1>4, FS_EmptySet DEF Loaded
<1> QED BY <1>2, <1>6, <1>7, <1>8 DEF ScriptInv

\* The invariant of the whole script: the generator's, the perturbation's, and
\* that of the ledger on the connection at hand with what it was given so far.
LEMMA ScriptInvariance == Spec => [](ReplayInv /\ ScriptInv)
<1>1. Init => SourceInv /\ ReplayInv /\ ScriptInv
  BY SourceInit, ReplayInit, ScriptInit DEF Init
<1>2. SourceInv /\ ReplayInv /\ ScriptInv /\ [Next]_vars => SourceInv' /\ ReplayInv' /\ ScriptInv'
  BY StepKeepsSource, StepKeepsReplay, StepKeepsScript
<1> QED BY <1>1, <1>2, PTL DEF Spec

\* Two streams with the same messages leave exactly the same quantities and the
\* same fractions of average prices, whatever the order and the copies.
THEOREM SameFillsSamePositions == Spec => []BitIdentical
<1>1. ScriptInv => BitIdentical
  <2> SUFFICES ASSUME ScriptInv, Compared, NEW j \in DOMAIN inputs, NEW k \in DOMAIN inputs,
                      Range(inputs[j]) = Range(inputs[k])
               PROVE  results[j] = results[k]
    BY DEF BitIdentical
  <2>1. j \in 1 .. Len(results) /\ k \in 1 .. Len(results)
    BY DEF ScriptInv, InputsInv, Compared
  <2> QED BY <2>1 DEF ScriptInv, Progress
<1> QED BY <1>1, ScriptInvariance, PTL

\* Each message of a stream is accepted once and every other copy is counted as
\* a duplicate: in the replay, exactly the copies that were drawn.
THEOREM CountsMatchTheDraw == Spec => []StatsMatch
<1>1. ReplayInv /\ ScriptInv => StatsMatch
  <2> SUFFICES ASSUME ReplayInv, ScriptInv, Compared PROVE StatsMatch
    BY DEF StatsMatch
  <2> USE DEF ScriptInv
  <2>1. Len(stats) = Len(inputs) /\ Len(inputs) \in Nat
    BY DEF InputsInv, Progress, Compared
  <2>2. ASSUME NEW k \in DOMAIN inputs PROVE stats[k] = Counts(inputs[k])
    BY <2>1 DEF InputsInv, Progress
  <2>3. ASSUME inputs[1] = canonical PROVE stats[2].duplicates = Cardinality(dupIndices)
    <3>1. WellNumbered(canonical)
      BY DEF ReplayInv
    <3>2. ~(Len(inputs[1]) = 1 /\ phase = "waiting")
      BY <2>3 DEF ReplayInv
    <3>3. inputs = <<canonical, perturbed>> /\ phase = "perturbed"
      BY <3>2 DEF InputsInv, Compared
    <3>4. Range(perturbed) = Range(canonical)
          /\ Len(perturbed) = Len(canonical) + Perturbation!RoundedShare(Len(canonical))
      BY <3>3, AllAreDelivered DEF FullyDelivered
    <3>5. Cardinality(dupIndices) = Perturbation!RoundedShare(Len(canonical))
      BY <3>3 DEF ReplayInv
    <3>6. Cardinality(Range(perturbed)) = Len(canonical) /\ Len(canonical) \in Nat
      BY <3>1, <3>4, NumberedIsCanonical DEF WellNumbered
    <3>7. /\ IsFiniteSet(1 .. Len(canonical)) /\ dupIndices \in SUBSET (1 .. Len(canonical))
      BY <3>6, FS_Interval DEF ReplayInv
    <3>8. Cardinality(dupIndices) \in Nat
      BY <3>7, FS_Subset, FS_CardinalityType
    <3>9. 2 \in DOMAIN inputs /\ inputs[2] = perturbed
      BY <3>3
    <3>10. stats[2].duplicates = Len(perturbed) - Cardinality(Range(perturbed))
      <4>1. stats[2] = Counts(perturbed)
        BY <2>2, <3>9
      <4> QED BY <4>1 DEF Counts
    <3> QED BY <3>4, <3>5, <3>6, <3>8, <3>10
  <2> QED BY <2>2, <2>3, ReplayNames DEF StatsMatch, Counts
<1> QED BY <1>1, ScriptInvariance, PTL
=============================================================================
