-------------------------- MODULE DealReplayProofs --------------------------
(***************************************************************************)
(* DealReplay for any universe, any number of sessions and actions, any    *)
(* volumes and changes, any share of duplicates and any window: the        *)
(* blotter is numbered as the ledger needs, amends and cancels concern     *)
(* open deals, two streams of the same deals come out equal, and what they *)
(* come out as is the book the generator still holds open.                 *)
(***************************************************************************)
EXTENDS DealReplay, RecursionAndSums

L == INSTANCE DealLedgerProofs WITH
       Messages <- AllDeals, Streams <- Seq(AllDeals), Required <- Columns

-----------------------------------------------------------------------------
(* The instruments and their numbers.                                      *)

LEMMA UniverseType ==
  /\ Len(Universe) \in Nat /\ Len(Universe) > 0 /\ DOMAIN Universe = 1 .. Len(Universe)
  /\ \A k \in 1 .. Len(Universe) : Universe[k] \in Range(Universe)
  /\ \A j, k \in 1 .. Len(Universe) : Universe[j] = Universe[k] => j = k
  /\ Source!Instruments = Range(Universe)
<1>1. Len(Universe) \in Nat /\ Len(Universe) > 0 /\ DOMAIN Universe = 1 .. Len(Universe)
  BY UniverseAssumption
<1>2. \A k \in 1 .. Len(Universe) : Universe[k] \in Range(Universe)
  BY <1>1 DEF Range
<1>3. \A j, k \in 1 .. Len(Universe) : Universe[j] = Universe[k] => j = k
  BY <1>1, UniverseAssumption DEF IsInjective
<1>4. Source!Instruments = Range(Universe)
  BY DEF Source!Instruments, Range
<1> QED BY <1>1, <1>2, <1>3, <1>4

LEMMA MaxSequenceType == MaxSequence \in Nat /\ MaxSequence > 1
<1>1. \A m, n \in Nat : m > 0 /\ n > 1 => m * n \in Nat /\ m * n > 1
  BY SMTT(30)
<1> QED BY <1>1, UniverseAssumption DEF MaxSequence

LEMMA AllowanceFits ==
  ASSUME NEW n \in Nat, n < NSessions
  PROVE  /\ MaxActions * n \in Nat
         /\ MaxActions * (n + 1) = MaxActions * n + MaxActions
         /\ MaxActions * (n + 1) <= MaxSequence
<1>1. \A a, b, c \in Nat : b < c => a * b \in Nat /\ a * (b + 1) = a * b + a /\ a * (b + 1) <= c * a
  <2> SUFFICES ASSUME NEW a \in Nat, NEW b \in Nat, NEW c \in Nat, b < c
               PROVE  a * b \in Nat /\ a * (b + 1) = a * b + a /\ a * (b + 1) <= c * a
    OBVIOUS
  <2>1. c - (b + 1) \in Nat
    OBVIOUS
  <2>2. \A d \in Nat : a * d \in Nat
    BY SMTT(30)
  <2>3. c * a = a * (b + 1) + a * (c - (b + 1))
    BY SMTT(30)
  <2>4. a * (b + 1) = a * b + a
    BY SMTT(30)
  <2>5. a * b \in Nat /\ a * (c - (b + 1)) \in Nat /\ a * (b + 1) \in Nat
    BY <2>1, <2>2
  <2> QED BY <2>3, <2>4, <2>5
<1>2. MaxActions \in Nat /\ NSessions \in Nat
  BY UniverseAssumption
<1> QED BY <1>1, <1>2 DEF MaxSequence

\* The numbers the k-th instrument has got, and will get in this turn, are at
\* most MaxActions for every session it has had a turn in, and not none.
WithinBudget(k) ==
  /\ k < turn => numbered[Universe[k]] <= MaxActions * (session + 1)
  /\ k = turn /\ left > 0 => numbered[Universe[k]] + left <= MaxActions * (session + 1)
  /\ k = turn /\ left = 0 => numbered[Universe[k]] <= MaxActions * session
  /\ k > turn => numbered[Universe[k]] <= MaxActions * session
  /\ k < turn \/ session > 0 => numbered[Universe[k]] > 0

Turns ==
  /\ session \in 0 .. NSessions /\ turn \in 1 .. Len(Universe) /\ left \in 0 .. MaxActions
  /\ left > 0 => session < NSessions
  /\ session = NSessions => turn = 1
  /\ numbered \in [Range(Universe) -> Nat]
  /\ \A k \in 1 .. Len(Universe) : WithinBudget(k)

LEMMA DrawCountKeeps ==
  ASSUME Turns, Source!DrawCount
  PROVE  Turns' /\ numbered' = numbered /\ deals' = deals /\ openDeals' = openDeals
         /\ session' = session
<1>1. /\ session < NSessions /\ session \in Nat /\ left = 0 /\ left' \in 1 .. MaxActions
      /\ session' = session /\ turn' = turn /\ numbered' = numbered /\ deals' = deals
      /\ openDeals' = openDeals
  BY UniverseAssumption DEF Source!DrawCount, Source!Finished, Turns
<1>2. ASSUME NEW k \in 1 .. Len(Universe) PROVE WithinBudget(k)'
  <2> DEFINE m == numbered[Universe[k]]
             b == MaxActions * session
             n == left'
  <2>0. MaxActions * (session + 1) = b + MaxActions
    BY <1>1, AllowanceFits
  <2>1. /\ m \in Nat /\ b \in Nat /\ MaxActions \in Nat
        /\ turn \in Nat /\ k \in Nat /\ n \in Nat /\ n <= MaxActions /\ n > 0
    BY <1>1, <1>2, UniverseType, UniverseAssumption, AllowanceFits DEF Turns
  <2>2. /\ k < turn => m <= b + MaxActions
        /\ k >= turn => m <= b
        /\ k < turn \/ session > 0 => m > 0
    BY <1>1, <1>2, <2>0, <2>1 DEF Turns, WithinBudget
  <2> HIDE DEF m, b, n
  <2>3. /\ k < turn => m <= b + MaxActions
        /\ k = turn => m + n <= b + MaxActions
        /\ k > turn => m <= b
    BY ONLY <2>1, <2>2
  <2> QED BY <1>1, <2>0, <2>1, <2>2, <2>3 DEF WithinBudget, m, b, n
<1>3. Turns'
  BY <1>1, <1>2, UniverseAssumption DEF Turns
<1> QED BY <1>1, <1>3

\* What the step that ends an action does to the counters.
LEMMA AdvanceKeeps ==
  ASSUME Turns, left > 0, Source!Advance
  PROVE  /\ Turns' /\ Source!Current \in Range(Universe)
         /\ numbered[Source!Current] \in Nat
         /\ numbered[Source!Current] + 1 \in 1 .. MaxSequence
         /\ numbered' = [numbered EXCEPT ![Source!Current] = @ + 1]
         /\ session \in 0 .. NSessions - 1 /\ session' \in Nat /\ session' >= session
<1> DEFINE x == Universe[turn]
           last == left = 1
<1>0. Source!Current = x
  BY DEF Source!Current
<1>1. /\ left > 0 /\ left \in Nat /\ left <= MaxActions /\ session < NSessions /\ session \in Nat
      /\ turn \in 1 .. Len(Universe) /\ turn \in Nat /\ turn <= Len(Universe)
      /\ x \in Range(Universe) /\ numbered[x] \in Nat /\ MaxActions \in Nat
      /\ NSessions \in Nat
  <2>1. left > 0 /\ MaxActions \in Nat /\ NSessions \in Nat
    BY UniverseAssumption
  <2>2. /\ session \in 0 .. NSessions /\ turn \in 1 .. Len(Universe) /\ left \in 0 .. MaxActions
        /\ session < NSessions /\ numbered \in [Range(Universe) -> Nat]
    BY <2>1 DEF Turns
  <2>3. x \in Range(Universe) /\ turn <= Len(Universe) /\ turn \in Nat
    BY <2>2, UniverseType
  <2> QED BY <2>1, <2>2, <2>3
<1>3. /\ numbered' = [numbered EXCEPT ![x] = @ + 1]
      /\ turn' = IF last THEN (turn % Len(Universe)) + 1 ELSE turn
      /\ session' = IF last /\ turn = Len(Universe) THEN session + 1 ELSE session
      /\ left' = left - 1
  BY DEF Source!Advance, Source!Current
<1>4. /\ numbered' \in [Range(Universe) -> Nat] /\ numbered'[x] = numbered[x] + 1
      /\ \A y \in Range(Universe) : /\ numbered[y] \in Nat /\ numbered'[y] \in Nat
                                    /\ y # x => numbered'[y] = numbered[y]
  BY <1>1, <1>3 DEF Turns
<1> DEFINE b == MaxActions * session
<1>5. b \in Nat /\ MaxActions * (session + 1) = b + MaxActions /\ b + MaxActions <= MaxSequence
  BY <1>1, AllowanceFits
<1>6. numbered[x] + left <= b + MaxActions
  BY <1>1, <1>5 DEF Turns, WithinBudget
<1>7. numbered[x] + 1 \in 1 .. MaxSequence
  <2> HIDE DEF x, b
  <2> QED BY <1>1, <1>5, <1>6, MaxSequenceType
<1> HIDE DEF x, b
<1>8. session \in 0 .. NSessions - 1 /\ session' \in Nat /\ session' >= session
  BY <1>1, <1>3
<1>9. ASSUME NEW k \in 1 .. Len(Universe) PROVE WithinBudget(k)'
  <2> DEFINE y == Universe[k]
             was == numbered[y]
             now == numbered'[y]
             rest == left - 1
  <2>1. /\ y \in Range(Universe) /\ was \in Nat /\ now \in Nat /\ k \in Nat
        /\ rest \in Nat /\ left = rest + 1
        /\ k = turn => y = x /\ now = was + 1
        /\ k # turn => now = was
    BY <1>1, <1>4, UniverseType DEF x
  <2>2. /\ k < turn => was <= b + MaxActions
        /\ k = turn => was + left <= b + MaxActions
        /\ k > turn => was <= b
        /\ k < turn \/ session > 0 => was > 0
    BY <1>1, <1>5, <1>9 DEF Turns, WithinBudget, b
  <2>3. session' = session => MaxActions * session' = b /\ MaxActions * (session' + 1) = b + MaxActions
    BY <1>5 DEF b
  <2>4. session' = session + 1 => MaxActions * session' = b + MaxActions
    BY <1>5 DEF b
  <2> HIDE DEF y, was, now, rest
  <2>5. /\ k < turn => now <= b + MaxActions
        /\ k = turn => now + rest <= b + MaxActions /\ now <= b + MaxActions
        /\ k > turn => now <= b
        /\ k <= turn \/ session > 0 => now > 0
    BY <1>1, <1>5, <2>1, <2>2
  <2>6. CASE ~last
    <3>1. turn' = turn /\ session' = session /\ left' = rest /\ rest > 0
      BY <1>1, <1>3, <2>1, <2>6 DEF rest
    <3>2. k < turn' \/ session' > 0 => now > 0
      BY <1>1, <2>1, <2>5, <3>1
    <3> QED BY <2>1, <2>3, <2>5, <3>1, <3>2 DEF WithinBudget, now, y
  <2>7. CASE last /\ turn < Len(Universe)
    <3>1. turn' = turn + 1 /\ session' = session /\ left' = 0
      <4>1. \A a, c \in Nat : a < c => a % c = a
        BY SMTT(30)
      <4> QED BY <1>1, <1>3, <2>7, <4>1, UniverseType
    <3>2. k < turn' => k < turn \/ k = turn
      BY <1>1, <2>1, <3>1
    <3>3. k >= turn' => k > turn
      BY <1>1, <2>1, <3>1
    <3>4. k < turn' \/ session' > 0 => now > 0
      BY <1>1, <2>1, <2>5, <3>1, <3>2
    <3> QED BY <1>1, <2>1, <2>3, <2>5, <3>1, <3>2, <3>3, <3>4 DEF WithinBudget, now, y
  <2>8. CASE last /\ turn = Len(Universe)
    <3>1. turn' = 1 /\ session' = session + 1 /\ left' = 0
      <4>1. \A c \in Nat : c > 0 => c % c = 0
        BY SMTT(30)
      <4> QED BY <1>1, <1>3, <2>8, <4>1, UniverseType
    <3>2. k <= turn /\ ~(k < turn')
      BY <1>1, <2>1, <2>8, <3>1
    <3>3. now <= b + MaxActions /\ now > 0
      BY <1>1, <2>1, <2>5, <3>2
    <3> QED BY <2>4, <3>1, <3>2, <3>3 DEF WithinBudget, now, y
  <2>9. turn < Len(Universe) \/ turn = Len(Universe)
    BY <1>1
  <2> QED BY <2>6, <2>7, <2>8, <2>9
<1>10. Turns'
  <2>1. (turn % Len(Universe)) + 1 \in 1 .. Len(Universe)
    <3>1. \A n, k \in Nat : n > 0 => (k % n) + 1 \in 1 .. n
      BY SMTT(30)
    <3> QED BY <1>1, <3>1, UniverseType
  <2>2. turn' \in 1 .. Len(Universe) /\ session' \in 0 .. NSessions /\ left' \in 0 .. MaxActions
    BY <1>1, <1>3, <2>1
  <2>3. (left' > 0 => session' < NSessions) /\ (session' = NSessions => turn' = 1)
    <3>1. \A c \in Nat : c > 0 => c % c = 0
      BY SMTT(30)
    <3>2. Len(Universe) % Len(Universe) = 0 /\ NSessions \in Nat
      BY <3>1, UniverseType, UniverseAssumption
    <3>3. CASE last
      BY <1>1, <1>3, <3>2, <3>3
    <3>4. CASE ~last
      BY <1>1, <1>3, <3>2, <3>4
    <3> QED BY <3>3, <3>4
  <2> QED BY <1>4, <1>9, <2>2, <2>3 DEF Turns
<1> QED BY <1>0, <1>1, <1>3, <1>7, <1>8, <1>10

LEMMA TurnsInit ==
  ASSUME session = 0, turn = 1, left = 0, numbered = [x \in Range(Universe) |-> 0]
  PROVE  Turns
<1>1. /\ 0 \in 0 .. NSessions /\ 1 \in 1 .. Len(Universe) /\ 0 \in 0 .. MaxActions
      /\ MaxActions * 0 = 0 /\ NSessions # 0
  BY UniverseType, UniverseAssumption
<1>2. \A k \in 1 .. Len(Universe) : WithinBudget(k)
  <2> SUFFICES ASSUME NEW k \in 1 .. Len(Universe) PROVE WithinBudget(k)
    OBVIOUS
  <2>1. numbered[Universe[k]] = 0 /\ ~(k < turn)
    BY UniverseType
  <2> QED BY <1>1, <2>1 DEF WithinBudget
<1> QED BY <1>1, <1>2 DEF Turns

-----------------------------------------------------------------------------
(* The blotter and the open book.                                          *)

\* Numbers grow and sessions never go back.
InOrder(list) ==
  \A j, k \in 1 .. Len(list) : j < k /\ list[j].instrument = list[k].instrument =>
    list[j].sequence < list[k].sequence /\ list[j].session <= list[k].session

WellNumbered(list) ==
  /\ list \in Seq(AllDeals)
  /\ \A k \in 1 .. Len(list) : list[k].id[1] = list[k].instrument
  /\ InOrder(list)

\* Deal d of instrument x was opened in the list, and not cancelled since.
StillOpen(list, x, d) ==
  \E j \in 1 .. Len(list) :
    /\ list[j].action = "new" /\ list[j].id = d /\ list[j].instrument = x
    /\ \A n \in j .. Len(list) : list[n].id = d => list[n].action # "cancel"

ConcernsOpen(list, k) ==
  \E j \in 1 .. (k - 1) :
    /\ list[j].action = "new" /\ list[j].id = list[k].id
    /\ list[j].instrument = list[k].instrument
    /\ \A n \in j .. (k - 1) : list[n].id = list[k].id => list[n].action # "cancel"

Own(list, x) == L!DealsOf(Range(list), x)

\* The volumes of the open deals, and none for those that were cancelled.
Words(open, F) == [d \in {m.id : m \in F} |-> IF d \in DOMAIN open THEN open[d] ELSE 0]

OpenBook(list, x, open) ==
  /\ \A d \in DOMAIN open : StillOpen(list, x, d)
  /\ L!LastWords(Words(open, Own(list, x)), Own(list, x))

Drawn ==
  /\ WellNumbered(deals)
  /\ \A k \in 1 .. Len(deals) :
       /\ deals[k].sequence <= numbered[deals[k].instrument]
       /\ deals[k].session <= session
       /\ deals[k].action # "new" => ConcernsOpen(deals, k)
  /\ \A x \in Range(Universe) :
       numbered[x] > 0 => \E k \in 1 .. Len(deals) : deals[k].instrument = x

Book ==
  /\ DOMAIN openDeals = Range(Universe)
  /\ \A x \in Range(Universe) : OpenBook(deals, x, openDeals[x])

SourceInv == Turns /\ Drawn /\ Book

LEMMA DealType ==
  ASSUME NEW m \in AllDeals
  PROVE  /\ m.instrument \in Range(Universe) /\ m.sequence \in Nat /\ m.session \in Nat
         /\ m.sequence \in 1 .. MaxSequence /\ m.volume \in Int
         /\ m.action \in {"new", "amend", "cancel"}
         /\ L!Storable(m) /\ m.session # NoValue
<1>1. 1 .. MaxSequence \subseteq Nat /\ 0 .. NSessions - 1 \subseteq Nat /\ NoValue \notin Nat
  BY MaxSequenceType, UniverseAssumption, CompleteAssumption
<1>2. /\ m.id \in Range(Universe) \X (1 .. MaxSequence) /\ m.sequence \in 1 .. MaxSequence
      /\ m.action \in {"new", "amend", "cancel"} /\ m.instrument \in Range(Universe)
      /\ m.volume \in Int /\ m.session \in 0 .. NSessions - 1
  BY DEF AllDeals
<1>3. L!Storable(m)
  BY <1>1, <1>2, CompleteAssumption DEF L!Storable, Columns
<1> QED BY <1>1, <1>2, <1>3

\* What the theorems about the ledger assume of their constants holds here.
LEMMA LedgerStreams == L!StreamsAssumption
BY DEF L!StreamsAssumption

LEMMA LedgerMessages == L!MessagesAssumption
<1> SUFFICES ASSUME NEW m \in AllDeals
             PROVE  /\ m.volume \in Int /\ m.session \in Nat /\ m.sequence \in Int
                    /\ m.instrument # NoValue
  BY DEF L!MessagesAssumption
<1> QED BY DealType, CompleteAssumption

LEMMA LedgerDeals == L!Deals = AllDeals
BY DealType DEF L!Deals

LEMMA AppendFacts ==
  ASSUME NEW list \in Seq(AllDeals), NEW m \in AllDeals
  PROVE  /\ Len(list) \in Nat /\ Append(list, m) \in Seq(AllDeals)
         /\ Len(Append(list, m)) = Len(list) + 1 /\ Append(list, m)[Len(list) + 1] = m
         /\ \A k \in 1 .. Len(list) : Append(list, m)[k] = list[k] /\ list[k] \in AllDeals
         /\ \A k \in 1 .. (Len(list) + 1) : k \in 1 .. Len(list) \/ k = Len(list) + 1
         /\ Range(Append(list, m)) = Range(list) \cup {m}
<1> DEFINE n == Len(list)
           more == Append(list, m)
<1>1. /\ n \in Nat /\ more \in Seq(AllDeals) /\ Len(more) = n + 1 /\ more[n + 1] = m
      /\ \A k \in 1 .. n : more[k] = list[k] /\ list[k] \in AllDeals
      /\ DOMAIN list = 1 .. n /\ DOMAIN more = 1 .. (n + 1)
  OBVIOUS
<1> HIDE DEF n, more
<1>2. \A k \in 1 .. (n + 1) : k \in 1 .. n \/ k = n + 1
  BY <1>1
<1>3. 1 .. n \subseteq 1 .. (n + 1) /\ n + 1 \in 1 .. (n + 1)
  BY <1>1
<1>4. Range(more) = Range(list) \cup {m}
  BY <1>1, <1>2, <1>3 DEF Range
<1> QED BY <1>1, <1>2, <1>4 DEF n, more

\* A message numbered above all of its instrument's goes to the end of its list.
NumberedAbove(list, m) ==
  /\ m \in AllDeals /\ m.id[1] = m.instrument
  /\ \A k \in 1 .. Len(list) : list[k].instrument = m.instrument =>
       list[k].sequence < m.sequence /\ list[k].session <= m.session

LEMMA AppendNumbered ==
  ASSUME NEW list, WellNumbered(list), NEW m, NumberedAbove(list, m)
  PROVE  WellNumbered(Append(list, m))
<1> DEFINE more == Append(list, m)
           n == Len(list)
<1>1. /\ n \in Nat /\ Len(more) = n + 1 /\ more[n + 1] = m /\ more \in Seq(AllDeals)
      /\ \A k \in 1 .. n : more[k] = list[k]
      /\ \A k \in 1 .. (n + 1) : k \in 1 .. n \/ k = n + 1
  BY AppendFacts DEF WellNumbered, NumberedAbove
<1> HIDE DEF more, n
<1>2. \A j, k \in 1 .. (n + 1) : j < k => j \in 1 .. n
  BY <1>1
<1>3. ASSUME NEW j \in 1 .. (n + 1), NEW k \in 1 .. (n + 1), j < k,
             more[j].instrument = more[k].instrument
      PROVE  more[j].sequence < more[k].sequence /\ more[j].session <= more[k].session
  <2>1. j \in 1 .. n /\ more[j] = list[j]
    BY <1>1, <1>2, <1>3
  <2>2. CASE k \in 1 .. n
    BY <1>1, <1>3, <2>1, <2>2 DEF WellNumbered, InOrder, n
  <2>3. CASE k = n + 1
    BY <1>1, <1>3, <2>1, <2>3 DEF NumberedAbove, n
  <2> QED BY <1>1, <1>3, <2>2, <2>3
<1>4. InOrder(more)
  BY <1>1, <1>3 DEF InOrder
<1>5. \A k \in 1 .. Len(more) : more[k].id[1] = more[k].instrument
  BY <1>1 DEF WellNumbered, NumberedAbove, n
<1> QED BY <1>1, <1>4, <1>5 DEF WellNumbered, more

\* What comes after a deal was opened leaves it open unless it cancels it.
LEMMA OpenStays ==
  ASSUME NEW list \in Seq(AllDeals), NEW m \in AllDeals, NEW x, NEW d, StillOpen(list, x, d),
         m.id = d => m.action # "cancel"
  PROVE  StillOpen(Append(list, m), x, d)
<1> DEFINE more == Append(list, m)
           n == Len(list)
<1>1. /\ n \in Nat /\ Len(more) = n + 1 /\ more[n + 1] = m
      /\ \A k \in 1 .. n : more[k] = list[k]
  BY AppendFacts
<1> HIDE DEF more, n
<1>2. PICK j \in 1 .. n :
    /\ list[j].action = "new" /\ list[j].id = d /\ list[j].instrument = x
    /\ \A k \in j .. n : list[k].id = d => list[k].action # "cancel"
  BY DEF StillOpen, n
<1>3. j \in 1 .. (n + 1) /\ \A k \in j .. (n + 1) : (k \in 1 .. n /\ k \in j .. n) \/ k = n + 1
  BY <1>1
<1>4. \A k \in j .. (n + 1) : more[k].id = d => more[k].action # "cancel"
  BY <1>1, <1>2, <1>3
<1> QED BY <1>1, <1>2, <1>3, <1>4 DEF StillOpen, more

LEMMA NewIsOpen ==
  ASSUME NEW list \in Seq(AllDeals), NEW m \in AllDeals, m.action = "new"
  PROVE  StillOpen(Append(list, m), m.instrument, m.id)
<1> DEFINE more == Append(list, m)
           n == Len(list)
<1>1. n \in Nat /\ Len(more) = n + 1 /\ more[n + 1] = m
  BY AppendFacts
<1> HIDE DEF more, n
<1>2. n + 1 \in 1 .. (n + 1) /\ \A k \in (n + 1) .. (n + 1) : k = n + 1
  BY <1>1
<1>3. \A k \in (n + 1) .. (n + 1) : more[k].id = m.id => more[k].action # "cancel"
  BY <1>1, <1>2
<1> QED BY <1>1, <1>2, <1>3 DEF StillOpen, more

\* An amend or cancel of an open deal concerns one.
LEMMA ConcernStays ==
  ASSUME NEW list \in Seq(AllDeals), NEW m \in AllDeals,
         \A k \in 1 .. Len(list) : list[k].action # "new" => ConcernsOpen(list, k),
         m.action # "new" => StillOpen(list, m.instrument, m.id),
         NEW k \in 1 .. Len(Append(list, m)), Append(list, m)[k].action # "new"
  PROVE  ConcernsOpen(Append(list, m), k)
<1> DEFINE more == Append(list, m)
           n == Len(list)
<1>1. /\ n \in Nat /\ Len(more) = n + 1 /\ more[n + 1] = m
      /\ \A l \in 1 .. n : more[l] = list[l]
      /\ \A l \in 1 .. (n + 1) : l \in 1 .. n \/ l = n + 1
  BY AppendFacts
<1> HIDE DEF more, n
<1>2. CASE k \in 1 .. n
  <2>1. ConcernsOpen(list, k) /\ more[k] = list[k]
    BY <1>1, <1>2 DEF more, n
  <2>2. \A l \in 1 .. (k - 1) : more[l] = list[l]
    BY <1>1, <1>2
  <2>3. PICK j \in 1 .. (k - 1) :
    /\ list[j].action = "new" /\ list[j].id = list[k].id
    /\ list[j].instrument = list[k].instrument
    /\ \A l \in j .. (k - 1) : list[l].id = list[k].id => list[l].action # "cancel"
    BY <2>1 DEF ConcernsOpen
  <2>4. j .. (k - 1) \subseteq 1 .. (k - 1)
    BY <1>2
  <2>5. \A l \in j .. (k - 1) : more[l].id = more[k].id => more[l].action # "cancel"
    BY <2>1, <2>2, <2>3, <2>4
  <2> QED BY <2>1, <2>2, <2>3, <2>5 DEF ConcernsOpen, more
<1>3. CASE k = n + 1
  <2>1. more[k] = m /\ m.action # "new" /\ k - 1 = n
    BY <1>1, <1>3 DEF more
  <2>2. PICK j \in 1 .. n :
    /\ list[j].action = "new" /\ list[j].id = m.id /\ list[j].instrument = m.instrument
    /\ \A l \in j .. n : list[l].id = m.id => list[l].action # "cancel"
    BY <2>1 DEF StillOpen, n
  <2>3. j .. n \subseteq 1 .. n
    BY <1>1
  <2>4. \A l \in j .. n : more[l].id = m.id => more[l].action # "cancel"
    BY <1>1, <2>2, <2>3
  <2> QED BY <1>1, <2>1, <2>2, <2>4 DEF ConcernsOpen, more
<1> QED BY <1>1, <1>2, <1>3 DEF more

\* What a message makes of its instrument's open deals.
Becomes(open, m, next) ==
  IF m.action = "cancel"
  THEN DOMAIN next = DOMAIN open \ {m.id} /\ \A d \in DOMAIN next : next[d] = open[d]
  ELSE /\ DOMAIN next = DOMAIN open \cup {m.id}
       /\ \A d \in DOMAIN next : next[d] = IF d = m.id THEN m.volume ELSE open[d]

LEMMA OwnType ==
  ASSUME NEW list \in Seq(AllDeals), NEW x
  PROVE  Own(list, x) \in SUBSET L!Deals /\ Own(list, x) \in SUBSET Range(list)
<1>1. \A m \in Range(list) : m \in AllDeals
  BY DEF Range
<1> QED BY <1>1, LedgerDeals DEF Own, L!DealsOf

\* The open deals keep the volumes that the last words on them left.
LEMMA BookGrows ==
  ASSUME NEW list, WellNumbered(list), NEW m, NumberedAbove(list, m), NEW open,
         OpenBook(list, m.instrument, open), m.action # "new" => m.id \in DOMAIN open,
         NEW next, Becomes(open, m, next)
  PROVE  OpenBook(Append(list, m), m.instrument, next)
<1> DEFINE more == Append(list, m)
           x == m.instrument
           F == Own(list, x)
           G == Own(more, x)
           v == Words(open, F)
           w == Words(next, G)
<1>1. list \in Seq(AllDeals) /\ m \in AllDeals /\ Range(more) = Range(list) \cup {m}
  BY AppendFacts DEF WellNumbered, NumberedAbove
<1>2. G = F \cup {m} /\ F \in SUBSET L!Deals /\ F \in SUBSET Range(list) /\ m \in L!Deals
  BY <1>1, OwnType, LedgerDeals DEF Own, L!DealsOf
<1>3. \A n \in F : n.sequence < m.sequence
  <2> SUFFICES ASSUME NEW n \in F PROVE n.sequence < m.sequence
    OBVIOUS
  <2>1. n.instrument = x
    BY DEF Own, L!DealsOf
  <2>2. PICK k \in 1 .. Len(list) : list[k] = n
    BY <1>1, <1>2 DEF Range
  <2> QED BY <2>1, <2>2 DEF NumberedAbove
<1>4. L!LastWords(v, F)
  BY DEF OpenBook
<1>5. L!LastWords(L!With(v, m.id, L!VolumeSet(m)), F \cup {m})
  BY <1>2, <1>3, <1>4, L!LastWordsExtend, LedgerStreams, LedgerMessages
<1>6. \A d \in DOMAIN next : StillOpen(more, x, d)
  <2> SUFFICES ASSUME NEW d \in DOMAIN next PROVE StillOpen(more, x, d)
    OBVIOUS
  <2>1. CASE m.action = "new" /\ d = m.id
    BY <1>1, <2>1, NewIsOpen
  <2>2. CASE m.action = "amend" /\ d = m.id
    <3>1. StillOpen(list, x, d)
      BY <2>2 DEF OpenBook, Becomes
    <3> QED BY <1>1, <2>2, <3>1, OpenStays
  <2>3. CASE d # m.id
    <3>1. StillOpen(list, x, d)
      BY <2>3 DEF OpenBook, Becomes
    <3> QED BY <1>1, <2>3, <3>1, OpenStays
  <2>4. CASE m.action = "cancel" /\ d = m.id
    BY <2>4 DEF Becomes
  <2>5. m.action \in {"new", "amend", "cancel"}
    BY <1>1, DealType
  <2> QED BY <2>1, <2>2, <2>3, <2>4, <2>5
<1>7. w = L!With(v, m.id, L!VolumeSet(m))
  <2> DEFINE u == L!With(v, m.id, L!VolumeSet(m))
             ids == {n.id : n \in F}
  <2>1. {n.id : n \in G} = ids \cup {m.id}
    BY <1>2
  <2> HIDE DEF G, F
  <2>2. DOMAIN w = ids \cup {m.id} /\ DOMAIN u = ids \cup {m.id} /\ DOMAIN v = ids
    BY <2>1 DEF L!With, Words
  <2>3. ASSUME NEW d \in ids \cup {m.id} PROVE w[d] = u[d]
    <3>1. w[d] = IF d \in DOMAIN next THEN next[d] ELSE 0
      BY <2>1 DEF Words
    <3>2. u[d] = IF d = m.id THEN L!VolumeSet(m) ELSE v[d]
      BY <2>2 DEF L!With
    <3>3. CASE d = m.id
      BY <3>1, <3>2, <3>3 DEF Becomes, L!VolumeSet
    <3>4. CASE d # m.id
      <4>1. v[d] = IF d \in DOMAIN open THEN open[d] ELSE 0
        BY <3>4 DEF Words
      <4>2. (d \in DOMAIN next <=> d \in DOMAIN open) /\ (d \in DOMAIN next => next[d] = open[d])
        BY <3>4 DEF Becomes
      <4> QED BY <3>1, <3>2, <3>4, <4>1, <4>2
    <3> QED BY <3>3, <3>4
  <2>4. w = [d \in DOMAIN w |-> w[d]] /\ u = [d \in DOMAIN u |-> u[d]]
    BY DEF Words, L!With
  <2> HIDE DEF w, u, ids
  <2> QED BY <2>2, <2>3, <2>4 DEF u
<1>8. L!LastWords(w, G)
  <2> HIDE DEF w, v, F, G
  <2> QED BY <1>2, <1>5, <1>7
<1> QED BY <1>6, <1>8 DEF OpenBook

\* The other instruments' books are not concerned.
LEMMA OtherBooksStay ==
  ASSUME NEW list, WellNumbered(list), NEW m, NumberedAbove(list, m), NEW x, x # m.instrument,
         NEW open, OpenBook(list, x, open)
  PROVE  OpenBook(Append(list, m), x, open)
<1>1. list \in Seq(AllDeals) /\ m \in AllDeals
      /\ Range(Append(list, m)) = Range(list) \cup {m}
  BY AppendFacts DEF WellNumbered, NumberedAbove
<1>2. Own(Append(list, m), x) = Own(list, x)
  BY <1>1 DEF Own, L!DealsOf
<1>3. ASSUME NEW d \in DOMAIN open PROVE StillOpen(Append(list, m), x, d)
  <2>1. StillOpen(list, x, d)
    BY DEF OpenBook
  <2>2. d[1] = x
    BY <2>1 DEF StillOpen, WellNumbered
  <2>3. m.id # d
    BY <2>2 DEF NumberedAbove
  <2> QED BY <1>1, <2>1, <2>3, OpenStays
<1> QED BY <1>2, <1>3 DEF OpenBook

\* An action of a turn: the message goes to the end of the blotter, the open
\* deals become what it makes of them, and the counters move on.
LEMMA LogKeeps ==
  ASSUME SourceInv, left > 0, Source!Advance,
         NEW id, NEW action \in {"new", "amend", "cancel"}, NEW v \in Int,
         NEW price \in {SomePrice, NoValue}, NEW next, Source!Append1(id, action, v, price, next),
         action = "new" => id = <<Source!Current, numbered[Source!Current] + 1>>,
         action # "new" => id \in DOMAIN openDeals[Source!Current],
         Becomes(openDeals[Source!Current], [id |-> id, action |-> action, volume |-> v], next)
  PROVE  SourceInv'
<1> DEFINE x == Source!Current
           m == [id |-> id, sequence |-> numbered[x] + 1, action |-> action, instrument |-> x,
                 volume |-> v, trade_price |-> price, session |-> session]
           n == Len(deals)
<1>1. /\ Turns' /\ x \in Range(Universe) /\ numbered[x] \in Nat
      /\ numbered[x] + 1 \in 1 .. MaxSequence /\ numbered' = [numbered EXCEPT ![x] = @ + 1]
      /\ session \in 0 .. NSessions - 1 /\ session' \in Nat /\ session' >= session
  BY AdvanceKeeps DEF SourceInv
<1>2. deals' = Append(deals, m) /\ openDeals' = [openDeals EXCEPT ![x] = next]
  BY DEF Source!Append1
<1>3. /\ deals \in Seq(AllDeals) /\ WellNumbered(deals) /\ DOMAIN openDeals = Range(Universe)
      /\ \A y \in Range(Universe) : OpenBook(deals, y, openDeals[y])
      /\ \A k \in 1 .. n : /\ deals[k].sequence <= numbered[deals[k].instrument]
                           /\ deals[k].session <= session
                           /\ deals[k].action # "new" => ConcernsOpen(deals, k)
  BY DEF SourceInv, Drawn, Book, WellNumbered
<1>4. id \in Range(Universe) \X (1 .. MaxSequence) /\ id[1] = x
  <2>1. CASE action = "new"
    <3>1. id = <<x, numbered[x] + 1>>
      BY <2>1
    <3> HIDE DEF x
    <3> QED BY <1>1, <3>1
  <2>2. CASE action # "new"
    <3>1. StillOpen(deals, x, id)
      BY <1>1, <1>3, <2>2 DEF OpenBook
    <3>2. PICK j \in 1 .. n : deals[j].id = id /\ deals[j].instrument = x
      BY <3>1 DEF StillOpen
    <3>3. deals[j] \in AllDeals /\ deals[j].id[1] = deals[j].instrument
      BY <1>3 DEF WellNumbered
    <3> QED BY <3>2, <3>3 DEF AllDeals
  <2> QED BY <2>1, <2>2
<1>5. m \in AllDeals /\ m.id = id /\ m.action = action /\ m.volume = v /\ m.instrument = x
      /\ m.sequence = numbered[x] + 1 /\ m.session = session
  <2> HIDE DEF x
  <2> QED BY <1>1, <1>4 DEF AllDeals
<1> HIDE DEF m, x
<1>6. \A y \in Range(Universe) : /\ numbered[y] \in Nat /\ numbered'[y] \in Nat
                                 /\ y = x => numbered'[y] = numbered[y] + 1
                                 /\ y # x => numbered'[y] = numbered[y]
                                 /\ numbered'[y] >= numbered[y]
  BY <1>1 DEF SourceInv, Turns
<1>7. NumberedAbove(deals, m)
  <2> SUFFICES ASSUME NEW k \in 1 .. n, deals[k].instrument = m.instrument
               PROVE  deals[k].sequence < m.sequence /\ deals[k].session <= m.session
    BY <1>4, <1>5 DEF NumberedAbove
  <2>1. deals[k].sequence \in Nat /\ deals[k].sequence <= numbered[x]
    BY <1>3, <1>5, DealType
  <2> QED BY <1>1, <1>3, <1>5, <2>1
<1>8. /\ n \in Nat /\ deals' \in Seq(AllDeals) /\ Len(deals') = n + 1 /\ deals'[n + 1] = m
      /\ \A k \in 1 .. n : deals'[k] = deals[k] /\ deals[k] \in AllDeals
      /\ \A k \in 1 .. (n + 1) : k \in 1 .. n \/ k = n + 1
      /\ n + 1 \in 1 .. (n + 1) /\ 1 .. n \subseteq 1 .. (n + 1)
  <2>1. n \in Nat
    BY <1>3
  <2>2. n + 1 \in 1 .. (n + 1) /\ 1 .. n \subseteq 1 .. (n + 1)
    BY <2>1
  <2> QED BY <1>2, <1>3, <1>5, <2>2, AppendFacts
<1>9. WellNumbered(deals)'
  <2>1. WellNumbered(Append(deals, m))
    BY <1>3, <1>7, AppendNumbered
  <2> QED BY <1>2, <2>1 DEF WellNumbered, InOrder
<1>10. Becomes(openDeals[x], m, next) /\ (m.action # "new" => m.id \in DOMAIN openDeals[x])
  BY <1>5 DEF Becomes, x
<1>11. Book'
  <2>1. DOMAIN openDeals' = Range(Universe)
    BY <1>2, <1>3
  <2>2. ASSUME NEW y \in Range(Universe) PROVE OpenBook(deals', y, openDeals'[y])
    <3>1. CASE y = x
      <4>1. OpenBook(Append(deals, m), x, next)
        BY <1>1, <1>3, <1>5, <1>7, <1>10, BookGrows
      <4> QED BY <1>2, <1>3, <3>1, <4>1
    <3>2. CASE y # x
      <4>1. OpenBook(Append(deals, m), y, openDeals[y])
        BY <1>3, <1>5, <1>7, <3>2, OtherBooksStay
      <4> QED BY <1>2, <1>3, <3>2, <4>1
    <3> QED BY <3>1, <3>2
  <2>3. \A y \in Range(Universe) : OpenBook(deals, y, openDeals[y])'
    BY <2>2 DEF OpenBook, StillOpen, Words, Own
  <2> QED BY <2>1, <2>3 DEF Book
<1>12. m.action # "new" => StillOpen(deals, m.instrument, m.id)
  BY <1>1, <1>3, <1>5, <1>10 DEF OpenBook
<1>13. ASSUME NEW k \in 1 .. Len(deals')
       PROVE  /\ deals'[k].sequence <= numbered'[deals'[k].instrument]
              /\ deals'[k].session <= session'
              /\ deals'[k].action # "new" => ConcernsOpen(deals, k)'
  <2>1. deals'[k].action # "new" => ConcernsOpen(Append(deals, m), k)
    BY <1>2, <1>3, <1>5, <1>12, ConcernStays
  <2>2. deals'[k].action # "new" => ConcernsOpen(deals, k)'
    BY <1>2, <2>1 DEF ConcernsOpen
  <2>3. CASE k = n + 1
    BY <1>1, <1>5, <1>6, <1>8, <2>2, <2>3
  <2>4. CASE k \in 1 .. n
    <3> DEFINE d == deals[k]
    <3>1. /\ deals'[k] = d /\ d.instrument \in Range(Universe) /\ d.sequence \in Nat
          /\ d.session \in Nat /\ d.sequence <= numbered[d.instrument] /\ d.session <= session
      BY <1>3, <1>8, <2>4, DealType
    <3> HIDE DEF d
    <3>2. /\ numbered'[d.instrument] >= numbered[d.instrument]
          /\ numbered[d.instrument] \in Nat /\ numbered'[d.instrument] \in Nat
          /\ session \in Nat
      BY <1>1, <1>6, <3>1, UniverseAssumption
    <3> QED BY <1>1, <2>2, <3>1, <3>2
  <2> QED BY <1>8, <2>3, <2>4
<1>14. ASSUME NEW y \in Range(Universe), numbered'[y] > 0
       PROVE  \E k \in 1 .. Len(deals') : deals'[k].instrument = y
  <2>1. CASE y = x
    BY <1>5, <1>8, <2>1
  <2>2. CASE y # x
    <3>1. numbered[y] > 0
      BY <1>6, <1>14, <2>2
    <3>2. PICK k \in 1 .. n : deals[k].instrument = y
      BY <3>1 DEF SourceInv, Drawn
    <3> QED BY <1>8, <3>2
  <2> QED BY <2>1, <2>2
<1>15. Drawn'
  BY <1>9, <1>13, <1>14 DEF Drawn
<1> QED BY <1>1, <1>11, <1>15 DEF SourceInv

LEMMA NewDealKeeps ==
  ASSUME SourceInv, Source!NewDeal(SomePrice)
  PROVE  SourceInv'
<1> DEFINE open == openDeals[Source!Current]
           id == <<Source!Current, numbered[Source!Current] + 1>>
           next(v) == [d \in DOMAIN open \cup {id} |-> IF d = id THEN v ELSE open[d]]
<1>1. PICK v \in Volumes : Source!Append1(id, "new", v, SomePrice, next(v))
  BY DEF Source!NewDeal
<1>2. Becomes(open, [id |-> id, action |-> "new", volume |-> v], next(v))
  BY DEF Becomes
<1>3. v \in Int /\ left > 0 /\ Source!Advance
  BY UniverseAssumption DEF Source!NewDeal
<1> HIDE DEF next
<1> QED BY <1>1, <1>2, <1>3, LogKeeps

LEMMA OpenVolumes ==
  ASSUME SourceInv, NEW x \in Range(Universe), NEW d \in DOMAIN openDeals[x]
  PROVE  openDeals[x][d] \in Int
<1> DEFINE F == Own(deals, x)
           w == Words(openDeals[x], F)
<1>1. StillOpen(deals, x, d) /\ L!LastWords(w, F)
  BY DEF SourceInv, Book, OpenBook
<1>2. PICK j \in 1 .. Len(deals) : deals[j].id = d /\ deals[j].instrument = x
  BY <1>1 DEF StillOpen
<1>3. deals[j] \in F
  BY <1>2 DEF Own, L!DealsOf, Range, SourceInv, Drawn, WellNumbered
<1>4. d \in {m.id : m \in F}
  BY <1>2, <1>3
<1>5. w[d] = openDeals[x][d]
  BY <1>4 DEF Words
<1>6. w \in [{m.id : m \in F} -> Int]
  BY <1>1 DEF L!LastWords
<1> HIDE DEF w, F
<1> QED BY <1>4, <1>5, <1>6

LEMMA AmendKeeps ==
  ASSUME SourceInv, Source!AmendDeal(NoValue)
  PROVE  SourceInv'
<1> DEFINE open == openDeals[Source!Current]
           next(id, change) == [open EXCEPT ![id] = @ + change]
<1>1. PICK id \in DOMAIN open, change \in Changes :
        Source!Append1(id, "amend", open[id] + change, NoValue, next(id, change))
  BY DEF Source!AmendDeal
<1>2. left > 0 /\ Source!Advance
  BY DEF Source!AmendDeal
<1>3. Source!Current \in Range(Universe)
  BY <1>2, AdvanceKeeps DEF SourceInv
<1>4. open[id] + change \in Int
  <2>1. open[id] \in Int
    BY <1>3, OpenVolumes
  <2>2. change \in Int
    BY UniverseAssumption
  <2> QED BY <2>1, <2>2
<1>5. Becomes(open, [id |-> id, action |-> "amend", volume |-> open[id] + change], next(id, change))
  BY DEF Becomes
<1> HIDE DEF next
<1> QED BY <1>1, <1>2, <1>4, <1>5, LogKeeps

LEMMA CancelKeeps ==
  ASSUME SourceInv, Source!CancelDeal(NoValue)
  PROVE  SourceInv'
<1> DEFINE open == openDeals[Source!Current]
           next(id) == [d \in DOMAIN open \ {id} |-> open[d]]
<1>1. PICK id \in DOMAIN open : Source!Append1(id, "cancel", 0, NoValue, next(id))
  BY DEF Source!CancelDeal
<1>2. left > 0 /\ Source!Advance
  BY DEF Source!CancelDeal
<1>3. Becomes(open, [id |-> id, action |-> "cancel", volume |-> 0], next(id))
  BY DEF Becomes
<1> HIDE DEF next
<1> QED BY <1>1, <1>2, <1>3, LogKeeps

LEMMA SourceInit == Source!Init => SourceInv
<1> SUFFICES ASSUME Source!Init PROVE SourceInv
  OBVIOUS
<1>1. /\ session = 0 /\ turn = 1 /\ left = 0 /\ deals = << >>
      /\ numbered = [x \in Range(Universe) |-> 0]
      /\ openDeals = [x \in Range(Universe) |-> Source!Empty]
  BY UniverseType DEF Source!Init
<1>2. Turns
  BY <1>1, TurnsInit
<1>3. deals \in Seq(AllDeals) /\ Len(deals) = 0 /\ Range(deals) = {}
  BY <1>1 DEF Range
<1>4. Drawn
  BY <1>1, <1>3 DEF Drawn, WellNumbered, InOrder
<1>5. ASSUME NEW x \in Range(Universe) PROVE OpenBook(deals, x, openDeals[x])
  <2>1. DOMAIN openDeals[x] = {} /\ Own(deals, x) = {}
    BY <1>1, <1>3 DEF Source!Empty, Own, L!DealsOf
  <2>2. L!LastWords(Words(openDeals[x], {}), {})
    BY DEF L!LastWords, Words
  <2> QED BY <2>1, <2>2 DEF OpenBook
<1> QED BY <1>1, <1>2, <1>4, <1>5 DEF SourceInv, Book

LEMMA StepKeepsSource ==
  ASSUME SourceInv, [Next]_vars
  PROVE  SourceInv' /\ (stage # "generate" \/ session = NSessions => UNCHANGED blotter)
<1>1. CASE Source!DrawCount /\ stage = "generate"
  <2>1. /\ Turns' /\ numbered' = numbered /\ deals' = deals /\ openDeals' = openDeals
        /\ session' = session /\ session # NSessions
    BY <1>1, DrawCountKeeps DEF SourceInv, Source!DrawCount, Source!Finished
  <2>2. Drawn'
    BY <2>1 DEF SourceInv, Drawn, WellNumbered, InOrder, ConcernsOpen
  <2>3. Book'
    BY <2>1 DEF SourceInv, Book, OpenBook, StillOpen, Words, Own
  <2> QED BY <1>1, <2>1, <2>2, <2>3 DEF SourceInv
<1>2. CASE /\ Source!NewDeal(SomePrice) \/ Source!AmendDeal(NoValue) \/ Source!CancelDeal(NoValue)
           /\ stage = "generate"
  <2>1. left > 0
    BY <1>2 DEF Source!NewDeal, Source!AmendDeal, Source!CancelDeal
  <2>2. session # NSessions
    BY <2>1, UniverseAssumption DEF SourceInv, Turns
  <2> QED BY <1>2, <2>2, NewDealKeeps, AmendKeeps, CancelKeeps
<1>3. CASE UNCHANGED blotter
  <2>1. UNCHANGED <<session, turn, left, numbered, openDeals, deals>>
    BY <1>3 DEF blotter
  <2>2. Turns'
    BY <2>1 DEF SourceInv, Turns, WithinBudget
  <2>3. Drawn'
    BY <2>1 DEF SourceInv, Drawn, WellNumbered, InOrder, ConcernsOpen
  <2>4. Book'
    BY <2>1 DEF SourceInv, Book, OpenBook, StillOpen, Words, Own
  <2> QED BY <1>3, <2>2, <2>3, <2>4 DEF SourceInv
<1> QED BY <1>1, <1>2, <1>3 DEF Next, Generate, StartPerturbing, Perturb, Demonstrate, Connect,
                                StartIngest, Ingest, Rebuild, vars

\* Two places of a well-numbered list hold messages of different keys.
LEMMA PlacesDiffer ==
  ASSUME NEW list, WellNumbered(list), NEW j \in 1 .. Len(list), NEW k \in 1 .. Len(list),
         \/ list[j].id = list[k].id
         \/ list[j].instrument = list[k].instrument,
         list[j].sequence = list[k].sequence
  PROVE  j = k
<1>1. list \in Seq(AllDeals) /\ Len(list) \in Nat /\ list[j] \in AllDeals /\ list[k] \in AllDeals
  BY DEF WellNumbered
<1>2. list[j].instrument = list[k].instrument
  BY DEF WellNumbered
<1>3. list[j].sequence \in Nat /\ list[k].sequence \in Nat
  BY <1>1, DealType
<1>4. ~(j < k)
  BY <1>2, <1>3 DEF WellNumbered, InOrder
<1>5. ~(k < j)
  BY <1>2, <1>3 DEF WellNumbered, InOrder
<1> QED BY <1>1, <1>4, <1>5

LEMMA BlotterIsNumbered ==
  ASSUME SourceInv
  PROVE  BlotterIsCanonical
<1>1. /\ WellNumbered(deals) /\ DOMAIN deals = 1 .. Len(deals) /\ Len(deals) \in Nat
      /\ \A k \in 1 .. Len(deals) : deals[k].action # "new" => ConcernsOpen(deals, k)
  BY DEF SourceInv, Drawn, WellNumbered
<1>2. ASSUME NEW k \in 1 .. Len(deals), deals[k].action # "new" PROVE Source!ConcernsOpenDeal(k)
  BY <1>1, <1>2 DEF Source!ConcernsOpenDeal, ConcernsOpen
<1>3. ASSUME NEW k \in 1 .. Len(deals), NEW j \in 1 .. (k - 1)
      PROVE  /\ <<deals[j].id, deals[j].sequence>> # <<deals[k].id, deals[k].sequence>>
             /\ deals[j].instrument = deals[k].instrument =>
                  /\ deals[j].sequence < deals[k].sequence
                  /\ deals[j].session <= deals[k].session
  <2>1. j \in 1 .. Len(deals) /\ j < k /\ j # k
    BY <1>1
  <2>2. ~(deals[j].id = deals[k].id /\ deals[j].sequence = deals[k].sequence)
    BY <1>1, <2>1, PlacesDiffer
  <2> QED BY <1>1, <2>1, <2>2 DEF WellNumbered, InOrder
<1> QED BY <1>1, <1>2, <1>3 DEF BlotterIsCanonical, Source!BlotterIsCanonical

\* build_deal_blotter gives every message a key of its own although a deal_id
\* comes back, numbers an instrument's messages upwards while its sessions never
\* go back, and never amends or cancels a deal that is not open.
THEOREM GeneratorNumbersItsDeals == Spec => []BlotterIsCanonical
<1>1. Init => SourceInv
  BY SourceInit DEF Init
<1>2. SourceInv /\ [Next]_vars => SourceInv'
  BY StepKeepsSource
<1> QED BY <1>1, <1>2, BlotterIsNumbered, PTL DEF Spec

-----------------------------------------------------------------------------
(* The perturbed blotter.                                                  *)

\* perm in Shuffled says which place of the working list each delivered message
\* had.
ReplayInv ==
  /\ phase \in {"waiting", "copy", "shuffle", "perturbed"}
  /\ WellNumbered(canonical) /\ dupIndices \in SUBSET (1 .. Len(canonical))
  /\ copied \in 0 .. Len(canonical) /\ Expanded(AllDeals, canonical, dupIndices, copied, withDups)
  /\ perturbed \in Seq(AllDeals) /\ Len(perturbed) <= Len(withDups)
  /\ \E perm : Shuffled(Window, withDups, perturbed, perm)
  /\ phase = "waiting" => canonical = << >>
  /\ phase # "waiting" => Cardinality(dupIndices) = Perturbation!RoundedShare(Len(canonical))
  /\ phase \in {"waiting", "copy"} => perturbed = << >>
  /\ phase \in {"shuffle", "perturbed"} => copied = Len(canonical)
  /\ phase = "perturbed" => Len(perturbed) = Len(withDups)

LEMMA ReplayNames ==
  /\ \A S : Perturbation!Cardinality(S) = Cardinality(S)
  /\ \A S : Perturbation!Min(S) = Min(S)
  /\ \A S : Perturbation!SetToSeqs(S) = SetToSeqs(S)
  /\ \A f : Perturbation!Range(f) = Range(f)
BY DEF Perturbation!Cardinality, Cardinality, Perturbation!Min, Min, Perturbation!SetToSeqs,
       SetToSeqs, Perturbation!Range, Range

\* Drawing the indices leaves the working list and the output empty.
LEMMA StartKeeps ==
  ASSUME ReplayInv, NEW list, WellNumbered(list), Perturbation!Start(list)
  PROVE  ReplayInv'
<1> USE DEF ReplayInv, Perturbation!Start
<1>1. /\ canonical' = list /\ phase' = "copy" /\ list \in Seq(AllDeals)
      /\ withDups' = withDups /\ copied' = copied /\ perturbed' = perturbed
  BY DEF WellNumbered
<1>2. dupIndices' \in SUBSET (1 .. Len(list))
      /\ Cardinality(dupIndices') = Perturbation!RoundedShare(Len(list))
  BY <1>1, ReplayNames
<1>3. copied = 0 /\ Len(list) \in Nat /\ Reached(dupIndices, 0) = 0
  <2>1. dupIndices \in SUBSET Nat
    BY DEF WellNumbered
  <2> QED BY <1>1, <2>1, ReachedGrows
<1>4. withDups \in Seq(AllDeals) /\ Len(withDups) = 0
  BY <1>3 DEF Expanded
<1>5. Reached(dupIndices', 0) = 0
  <2>1. dupIndices' \in SUBSET Nat
    BY <1>2
  <2> QED BY <2>1, ReachedGrows
<1>6. Expanded(AllDeals, list, dupIndices', 0, withDups)
  BY <1>4, <1>5 DEF Expanded
<1>7. Expanded(AllDeals, canonical, dupIndices, copied, withDups)'
  BY <1>1, <1>3, <1>6 DEF Expanded, Span, Reached
<1>8. WellNumbered(canonical)'
  BY <1>1 DEF WellNumbered, InOrder
<1>9. (\E perm : Shuffled(Window, withDups, perturbed, perm))'
  BY <1>1 DEF Shuffled
<1> QED BY <1>1, <1>2, <1>3, <1>7, <1>8, <1>9

\* Copying a message, once or twice.
LEMMA CopyKeeps ==
  ASSUME ReplayInv, Perturbation!Copy
  PROVE  ReplayInv'
<1> DEFINE n == copied + 1
           m == canonical[n]
           more == IF n \in dupIndices THEN <<m, m>> ELSE <<m>>
<1>1. /\ phase = "copy" /\ copied < Len(canonical) /\ withDups' = withDups \o more
      /\ copied' = n /\ phase' \in {"copy", "shuffle"}
      /\ phase' = "shuffle" => n = Len(canonical)
      /\ canonical' = canonical /\ dupIndices' = dupIndices /\ perturbed' = perturbed
  BY DEF Perturbation!Copy
<1>2. /\ canonical \in Seq(AllDeals) /\ Len(canonical) \in Nat /\ copied \in Nat
      /\ n \in 1 .. Len(canonical) /\ dupIndices \in SUBSET Nat
      /\ Expanded(AllDeals, canonical, dupIndices, copied, withDups)
  BY <1>1 DEF ReplayInv, WellNumbered
<1>3. Expanded(AllDeals, canonical, dupIndices, n, withDups \o more)
  BY <1>1, <1>2, CopyExpands
<1> HIDE DEF more, n
<1>4. Expanded(AllDeals, canonical, dupIndices, copied, withDups)' /\ Len(withDups') \in Nat
  <2>1. Expanded(AllDeals, canonical, dupIndices, copied, withDups)'
    BY <1>1, <1>3 DEF Expanded, Span, Reached
  <2>2. withDups' \in Seq(AllDeals)
    BY <1>1, <1>3 DEF Expanded
  <2> QED BY <2>1, <2>2
<1>5. perturbed = << >> /\ perturbed' = << >>
  BY <1>1 DEF ReplayInv
<1>6. (\E perm : Shuffled(Window, withDups, perturbed, perm))'
  <2>1. Shuffled(Window, withDups', << >>, << >>)
    BY NothingShuffled
  <2> QED BY <1>5, <2>1 DEF Shuffled
<1>7. WellNumbered(canonical)'
  BY <1>1 DEF ReplayInv, WellNumbered, InOrder
<1> QED BY <1>1, <1>2, <1>4, <1>5, <1>6, <1>7 DEF ReplayInv

\* One window goes from the working list to the output.
LEMMA ShuffleKeeps ==
  ASSUME ReplayInv, Perturbation!Shuffle
  PROVE  ReplayInv'
<1> DEFINE start == Len(perturbed)
           e == Min({start + Window, Len(withDups)})
           n == e - start
           block == SubSeq(withDups, start + 1, e)
<1>1. /\ phase = "shuffle" /\ start < Len(withDups)
      /\ phase' = IF Len(perturbed') = Len(withDups) THEN "perturbed" ELSE "shuffle"
      /\ canonical' = canonical /\ dupIndices' = dupIndices
      /\ withDups' = withDups /\ copied' = copied
  BY DEF Perturbation!Shuffle
<1>2. PICK order \in SetToSeqs(DOMAIN block) :
        perturbed' = perturbed \o [k \in DOMAIN block |-> block[order[k]]]
  BY ReplayNames DEF Perturbation!Shuffle
<1>3. /\ withDups \in Seq(AllDeals) /\ perturbed \in Seq(AllDeals)
      /\ start \in Nat /\ Len(withDups) \in Nat /\ Window \in Nat /\ Window > 0
  BY ReplayAssumption DEF ReplayInv, Expanded
<1>4. e \in {start + Window, Len(withDups)} /\ e <= start + Window /\ e <= Len(withDups)
  <2> DEFINE b == start + Window
             c == Len(withDups)
  <2>1. b \in Nat /\ c \in Nat
    BY <1>3
  <2> HIDE DEF b, c
  <2>2. \E x \in {b, c} : \A y \in {b, c} : x <= y
    BY <2>1
  <2>3. Min({b, c}) \in {b, c} /\ Min({b, c}) <= b /\ Min({b, c}) <= c
    BY <2>2 DEF Min
  <2> QED BY <2>3 DEF b, c
<1> HIDE DEF e
<1>5. e \in Nat /\ n \in 1 .. Window /\ start + n = e /\ e <= Len(withDups)
  BY <1>1, <1>3, <1>4
<1>6. /\ DOMAIN block = 1 .. n /\ block \in Seq(AllDeals) /\ Len(block) = n
      /\ \A k \in 1 .. n : block[k] = withDups[start + k]
  BY <1>3, <1>5
<1> HIDE DEF block, n
<1>7. n \in Nat /\ IsFiniteSet(1 .. n) /\ Cardinality(1 .. n) = n
  BY <1>5, FS_Interval
<1>8. order \in Injection(1 .. n, 1 .. n)
  BY <1>2, <1>6, <1>7 DEF SetToSeqs, Injection, IsInjective
<1>9. PICK perm : Shuffled(Window, withDups, perturbed, perm)
  BY DEF ReplayInv
<1>10. /\ perturbed' \in Seq(AllDeals) /\ Len(perturbed') = start + n
       /\ \E q : Shuffled(Window, withDups, perturbed', q)
  <2> DEFINE next == perturbed \o [k \in 1 .. n |-> block[order[k]]]
  <2>1. perturbed' = next
    BY <1>2, <1>6
  <2>2. NextWindow(AllDeals, Window, withDups, perturbed, n, order, block, next)
    BY <1>3, <1>5, <1>6, <1>8 DEF NextWindow
  <2> HIDE DEF next, start
  <2>3. next \in Seq(AllDeals) /\ Len(next) = Len(perturbed) + n
        /\ \E q : Shuffled(Window, withDups, next, q)
    BY ONLY <1>9, <2>2, WindowShuffles
  <2> QED BY <2>1, <2>3 DEF start
<1>11. (\E q : Shuffled(Window, withDups, perturbed, q))'
  BY <1>1, <1>10 DEF Shuffled
<1>12. WellNumbered(canonical)' /\ Expanded(AllDeals, canonical, dupIndices, copied, withDups)'
  <2>1. WellNumbered(canonical)
    BY DEF ReplayInv
  <2>2. Expanded(AllDeals, canonical, dupIndices, copied, withDups)
    BY DEF ReplayInv
  <2>3. /\ canonical' = canonical /\ dupIndices' = dupIndices /\ copied' = copied
        /\ withDups' = withDups
    BY <1>1
  <2>4. WellNumbered(canonical)'
    BY ONLY <2>1, <2>3 DEF WellNumbered, InOrder
  <2>5. Expanded(AllDeals, canonical, dupIndices, copied, withDups)'
    BY ONLY <2>2, <2>3 DEF Expanded, Span, Reached
  <2> QED BY <2>4, <2>5
<1>13. Len(perturbed') <= Len(withDups')
  BY <1>1, <1>5, <1>10
<1> QED BY <1>1, <1>10, <1>11, <1>12, <1>13 DEF ReplayInv

\* The harness perturbs the blotter once it is complete, and it stays as it is.
LEMMA StepKeepsReplay ==
  ASSUME SourceInv, ReplayInv, [Next]_vars
  PROVE  ReplayInv'
<1>1. CASE Perturbation!Start(deals)
  <2>1. WellNumbered(deals)
    BY DEF SourceInv, Drawn
  <2> QED BY <1>1, <2>1, StartKeeps
<1>2. CASE Perturbation!Next
  BY <1>2, CopyKeeps, ShuffleKeeps DEF Perturbation!Next
<1>3. CASE UNCHANGED replay
  <2>1. UNCHANGED <<canonical, dupIndices, withDups, copied, perturbed, phase>>
    BY <1>3 DEF replay
  <2>2. WellNumbered(canonical)'
    BY <2>1 DEF ReplayInv, WellNumbered, InOrder
  <2>3. Expanded(AllDeals, canonical, dupIndices, copied, withDups)'
    BY <2>1 DEF ReplayInv, Expanded, Span, Reached
  <2>4. (\E perm : Shuffled(Window, withDups, perturbed, perm))'
    <3>1. PICK perm : Shuffled(Window, withDups, perturbed, perm)
      BY DEF ReplayInv
    <3>2. Shuffled(Window, withDups, perturbed, perm)'
      BY <2>1, <3>1 DEF Shuffled
    <3> QED BY <3>2
  <2> QED BY <2>1, <2>2, <2>3, <2>4 DEF ReplayInv
<1> QED BY <1>1, <1>2, <1>3 DEF Next, Generate, StartPerturbing, Perturb, Demonstrate, Connect,
                        StartIngest, Ingest, Rebuild, vars

LEMMA ReplayInit == Perturbation!Init => ReplayInv
<1> SUFFICES ASSUME Perturbation!Init PROVE ReplayInv
  OBVIOUS
<1>1. /\ canonical = << >> /\ dupIndices = {} /\ withDups = << >> /\ copied = 0
      /\ perturbed = << >> /\ phase = "waiting"
  BY DEF Perturbation!Init
<1>2. << >> \in Seq(AllDeals) /\ Len(<< >>) = 0 /\ 1 .. 0 = {}
  OBVIOUS
<1>3. Reached({}, 0) = 0
  BY ReachedGrows
<1>4. Shuffled(Window, << >>, << >>, << >>)
  BY NothingShuffled
<1> QED BY <1>1, <1>2, <1>3, <1>4 DEF ReplayInv, WellNumbered, InOrder, Expanded

\* At the end everything has been copied and delivered.
LEMMA ReplayDelivers ==
  ASSUME ReplayInv, phase = "perturbed"
  PROVE  \E perm : Delivered(AllDeals, Window, canonical, dupIndices, withDups, perturbed, perm)
<1>1. PICK perm : Shuffled(Window, withDups, perturbed, perm)
  BY DEF ReplayInv
<1>2. canonical \in Seq(AllDeals)
      /\ \A j, k \in 1 .. Len(canonical) : canonical[j] = canonical[k] => j = k
  BY PlacesDiffer DEF ReplayInv, WellNumbered
<1> QED BY <1>1, <1>2 DEF ReplayInv, Delivered

FullyDelivered ==
  phase = "perturbed" => /\ Range(perturbed) = Range(canonical)
                         /\ Len(perturbed) = Len(canonical) + Cardinality(dupIndices)

LEMMA ReplayIsPermutation == ReplayInv => FullyDelivered
BY ReplayDelivers, AllDelivered DEF FullyDelivered

\* What is perturbed is the blotter of all sessions.
Sent == canonical # << >> => canonical = deals /\ session = NSessions

LEMMA StepKeepsSent ==
  ASSUME SourceInv, Sent, [Next]_vars
  PROVE  Sent'
<1>1. CASE StartPerturbing
  BY <1>1 DEF StartPerturbing, Source!Finished, Perturbation!Start, Sent, blotter
<1>2. CASE canonical' = canonical
  <2> SUFFICES ASSUME canonical # << >> PROVE canonical' = deals' /\ session' = NSessions
    BY <1>2 DEF Sent
  <2>1. UNCHANGED blotter /\ canonical = deals /\ session = NSessions
    BY StepKeepsSource DEF Sent
  <2> QED BY <1>2, <2>1 DEF blotter
<1> QED BY <1>1, <1>2 DEF Next, Generate, Perturb, Demonstrate, Connect, StartIngest, Ingest, Rebuild,
                        vars, replay, Perturbation!Next, Perturbation!Copy, Perturbation!Shuffle

-----------------------------------------------------------------------------
(* The ledger on the fresh connections.                                    *)

LEMMA LedgerFinite == \A S : L!IsFiniteSet(S) <=> IsFiniteSet(S)
BY Zenon DEF IsFiniteSet, L!IsFiniteSet

LEMMA LedgerSums == \A f : L!SumFunction(f) = SumFunction(f) /\ Conn!SumFunction(f) = SumFunction(f)
BY Zenon DEF SumFunction, SumFunctionOnSet, FoldFunctionOnSet, MapThenFoldSet,
             L!SumFunction, L!SumFunctionOnSet, L!FoldFunctionOnSet, L!MapThenFoldSet,
             Conn!SumFunction, Conn!SumFunctionOnSet, Conn!FoldFunctionOnSet, Conn!MapThenFoldSet

\* A well-numbered list has one content per key, and so have its parts.
LEMMA NumberedIsCanonical ==
  ASSUME NEW list, WellNumbered(list)
  PROVE  L!Canonical(Range(list)) /\ Cardinality(Range(list)) = Len(list)
<1>1. Len(list) \in Nat /\ DOMAIN list = 1 .. Len(list) /\ IsFiniteSet(1 .. Len(list))
      /\ Cardinality(1 .. Len(list)) = Len(list)
  <2>1. Len(list) \in Nat /\ DOMAIN list = 1 .. Len(list)
    BY DEF WellNumbered
  <2> DEFINE n == Len(list)
  <2>2. n \in Nat /\ 1 \in Int /\ n \in Int
    BY <2>1
  <2> HIDE DEF n
  <2>3. IsFiniteSet(1 .. n) /\ Cardinality(1 .. n) = n
    BY <2>2, FS_Interval
  <2> QED BY <2>1, <2>3 DEF n
<1>2. \A m \in Range(list) : \E k \in 1 .. Len(list) : list[k] = m
  BY <1>1 DEF Range
<1>3. L!KeysIdentify(Range(list))
  BY <1>2, PlacesDiffer DEF L!KeysIdentify, L!SameKey
<1>4. L!SequencesOrder(Range(list))
  <2> SUFFICES ASSUME NEW m \in Range(list), NEW n \in Range(list), m.instrument = n.instrument
               PROVE  /\ m.sequence = n.sequence => m = n
                      /\ m.sequence < n.sequence => m.session <= n.session
    BY DEF L!SequencesOrder
  <2>1. PICK j \in 1 .. Len(list) : list[j] = m
    BY <1>2
  <2>2. PICK k \in 1 .. Len(list) : list[k] = n
    BY <1>2
  <2>3. m.sequence = n.sequence => m = n
    BY <2>1, <2>2, PlacesDiffer
  <2>4. m.sequence \in Nat /\ n.sequence \in Nat
    BY <2>1, <2>2, DealType DEF WellNumbered
  <2>5. j < k => m.session <= n.session
    BY <2>1, <2>2 DEF WellNumbered, InOrder
  <2>6. k < j => n.sequence < m.sequence
    BY <2>1, <2>2 DEF WellNumbered, InOrder
  <2>7. j < k \/ k < j \/ m = n
    BY <1>1, <2>1, <2>2
  <2> QED BY <2>3, <2>4, <2>5, <2>6, <2>7
<1>5. list \in Injection(1 .. Len(list), Range(list))
  <2>1. \A j, k \in 1 .. Len(list) : list[j] = list[k] => j = k
    BY PlacesDiffer
  <2>2. list \in [1 .. Len(list) -> Range(list)]
    BY <1>1 DEF Range, WellNumbered
  <2> QED BY <2>1, <2>2 DEF Injection, IsInjective
<1>6. list \in Surjection(1 .. Len(list), Range(list))
  BY <1>2, <1>5 DEF Surjection, Injection
<1>7. Cardinality(Range(list)) = Len(list)
  BY <1>1, <1>5, <1>6, FS_Surjection
<1> QED BY <1>3, <1>4, <1>7 DEF L!Canonical

LEMMA PartIsCanonical ==
  ASSUME NEW F, L!Canonical(F), NEW G \in SUBSET F
  PROVE  L!Canonical(G)
BY DEF L!Canonical, L!KeysIdentify, L!SequencesOrder

\* What final_positions returns of a table rebuilt from F.
Reported(F) == L!FinalPositions(L!Rebuilt(F))

Counts(list) ==
  [accepted |-> Cardinality(Range(list)), duplicates |-> Len(list) - Cardinality(Range(list))]

InputsInv ==
  /\ stage \in {"generate", "perturb", "compare"}
  /\ inputs \in Seq(Seq(AllDeals))
  /\ \A k \in 1 .. Len(inputs) : L!Canonical(Range(inputs[k]))
  /\ stage # "compare" => inputs = << >>
  /\ stage = "generate" => phase = "waiting"
  /\ stage = "compare" => \/ inputs = <<canonical, perturbed>> /\ phase = "perturbed"
                          \/ Len(inputs[1]) = 1 /\ phase = "waiting"

\* How far the script is: a connection gets its stream, then its rebuild.
Progress ==
  /\ conns \in 0 .. Len(inputs)
  /\ stats \in Seq([accepted : Nat, duplicates : Nat])
  /\ results \in Seq({Reported(F) : F \in SUBSET AllDeals})
  /\ Len(results) <= Len(stats) /\ Len(stats) <= conns /\ conns <= Len(results) + 1
  /\ pc = "ingest" => Len(stats) < conns
  /\ pc \in {"rebuild", "fold"} => Len(results) < Len(stats)
  /\ \A k \in 1 .. Len(stats) : stats[k] = Counts(inputs[k])
  /\ \A k \in 1 .. Len(results) : results[k] = Reported(Range(inputs[k]))

\* What the connection's table of deals has of its stream.
Loaded ==
  /\ IsFiniteSet(messages)
  /\ pc = "idle" /\ Len(stats) < conns => messages = {}
  /\ pc = "ingest" => /\ stream = inputs[conns]
                      /\ L!Payloads(messages) \subseteq {stream[n] : n \in 1 .. i}
                      /\ accepted \in Nat /\ duplicates \in Nat
                      /\ accepted = Cardinality(messages) /\ accepted + duplicates = i
  /\ Len(stats) = conns /\ conns > 0 => L!Payloads(messages) = Range(inputs[conns])

ScriptInv == InputsInv /\ Progress /\ Loaded /\ L!IInv

LEMMA GivenType ==
  ASSUME NEW n \in 1 .. 2, NEW v \in Volumes
  PROVE  Given(n, v) \in AllDeals
<1>1. Universe[1] \in Range(Universe)
  BY UniverseType
<1>2. n \in 1 .. MaxSequence /\ 0 \in 0 .. NSessions - 1 /\ v \in Int
  BY MaxSequenceType, UniverseAssumption
<1>3. <<Universe[1], n>> \in Range(Universe) \X (1 .. MaxSequence)
  BY <1>1, <1>2
<1> QED BY <1>1, <1>2, <1>3 DEF Given, AllDeals

\* The streams of the other script are of two deals with keys of their own.
LEMMA DemonstrateInputs ==
  ASSUME InputsInv, Demonstrate
  PROVE  InputsInv'
<1>1. stage = "generate" /\ stage' = "compare" /\ phase = "waiting" /\ phase' = "waiting"
  BY DEF InputsInv, Demonstrate, replay
<1>2. PICK v \in Volumes, w \in Volumes, n \in Repeats :
        inputs' = <<<<Given(1, v)>>, [k \in 1 .. n |-> Given(1, v)],
                    <<Given(1, v), Given(2, w), Given(1, v), Given(1, v), Given(2, w)>>>>
  BY DEF Demonstrate
<1> DEFINE deal == Given(1, v)
           other == Given(2, w)
           again == [k \in 1 .. n |-> deal]
           mixed == <<deal, other, deal, deal, other>>
<1>3. deal \in AllDeals /\ other \in AllDeals
  BY GivenType
<1>4. L!Canonical({deal, other})
  <2>1. /\ deal.id = <<Universe[1], 1>> /\ other.id = <<Universe[1], 2>>
        /\ deal.sequence = 1 /\ other.sequence = 2 /\ deal.session = 0 /\ other.session = 0
    BY DEF Given
  <2> HIDE DEF deal, other
  <2>2. deal.id # other.id /\ deal.sequence # other.sequence
        /\ \A a, b \in {deal, other} : a.session <= b.session
    BY <2>1
  <2> QED BY <2>2 DEF L!Canonical, L!KeysIdentify, L!SequencesOrder, L!SameKey
<1> HIDE DEF deal, other
<1>5. /\ <<deal>> \in Seq(AllDeals) /\ again \in Seq(AllDeals) /\ mixed \in Seq(AllDeals)
      /\ Range(<<deal>>) \in SUBSET {deal, other} /\ Range(again) \in SUBSET {deal, other}
      /\ Range(mixed) \in SUBSET {deal, other} /\ Len(<<deal>>) = 1
  <2>1. n \in Nat
    BY UniverseAssumption
  <2>2. again \in Seq(AllDeals)
    BY <1>3, <2>1
  <2>3. <<deal>> \in Seq(AllDeals) /\ mixed \in Seq(AllDeals) /\ Len(<<deal>>) = 1
    BY <1>3
  <2>4. Range(<<deal>>) \subseteq {deal, other} /\ Range(again) \subseteq {deal, other}
    BY DEF Range
  <2>5. DOMAIN mixed = 1 .. 5
    OBVIOUS
  <2>6. \A k \in 1 .. 5 : mixed[k] \in {deal, other}
    OBVIOUS
  <2>7. Range(mixed) \subseteq {deal, other}
    BY <2>5, <2>6 DEF Range
  <2> QED BY <2>2, <2>3, <2>4, <2>7
<1> HIDE DEF again, mixed
<1>6. inputs' = <<<<deal>>, again, mixed>>
  BY <1>2 DEF deal, other, again, mixed
<1>7. /\ inputs' \in Seq(Seq(AllDeals)) /\ Len(inputs') = 3
      /\ inputs'[1] = <<deal>> /\ inputs'[2] = again /\ inputs'[3] = mixed
  BY <1>5, <1>6
<1>8. \A k \in 1 .. 3 : L!Canonical(Range(inputs'[k]))
  <2>1. L!Canonical(Range(<<deal>>)) /\ L!Canonical(Range(again)) /\ L!Canonical(Range(mixed))
    BY <1>4, <1>5, PartIsCanonical
  <2> QED BY <1>7, <2>1
<1> QED BY <1>1, <1>5, <1>7, <1>8 DEF InputsInv, L!Canonical, L!KeysIdentify, L!SequencesOrder, L!SameKey

\* So are the stream and its replay.
LEMMA PerturbInputs ==
  ASSUME InputsInv, ReplayInv, ReplayInv', Perturb
  PROVE  InputsInv'
<1>1. stage = "perturb" /\ inputs = << >>
  BY DEF InputsInv, Perturb
<1>2. CASE phase' # "perturbed"
  BY <1>1, <1>2 DEF InputsInv, Perturb
<1>3. CASE phase' = "perturbed"
  <2>1. stage' = "compare" /\ inputs' = <<canonical', perturbed'>>
    <3>1. canonical' = canonical
      BY DEF Perturb, Perturbation!Next, Perturbation!Copy, Perturbation!Shuffle
    <3> QED BY <1>3, <3>1 DEF Perturb
  <2>2. WellNumbered(canonical') /\ perturbed' \in Seq(AllDeals)
    BY DEF ReplayInv, WellNumbered, InOrder
  <2>3. canonical' \in Seq(AllDeals)
    BY <2>2 DEF WellNumbered
  <2>4. FullyDelivered'
    BY ReplayIsPermutation, PTL
  <2>5. Range(perturbed') = Range(canonical')
    BY <1>3, <2>4 DEF FullyDelivered
  <2>6. L!Canonical(Range(canonical'))
    BY <2>2, NumberedIsCanonical
  <2>7. /\ inputs' \in Seq(Seq(AllDeals)) /\ Len(inputs') = 2
        /\ inputs'[1] = canonical' /\ inputs'[2] = perturbed'
    BY <2>1, <2>2, <2>3
  <2>8. \A k \in 1 .. 2 : L!Canonical(Range(inputs'[k]))
    BY <2>5, <2>6, <2>7
  <2> QED BY <1>3, <2>1, <2>7, <2>8 DEF InputsInv
<1> QED BY <1>2, <1>3

LEMMA StepKeepsInputs ==
  ASSUME SourceInv, ReplayInv, InputsInv, [Next]_vars
  PROVE  InputsInv'
<1>1. CASE Demonstrate
  BY <1>1, DemonstrateInputs
<1>2. CASE Perturb
  BY <1>2, StepKeepsReplay, PerturbInputs
<1>3. CASE StartPerturbing
  BY <1>3 DEF InputsInv, StartPerturbing
<1>4. CASE UNCHANGED <<replay, stage, inputs>>
  BY <1>4 DEF InputsInv, replay
<1> QED BY <1>1, <1>2, <1>3, <1>4 DEF Next, Generate, Connect, StartIngest, Ingest, Rebuild, vars, script

\* A new database in memory is an empty ledger.
LEMMA ConnectKeeps ==
  ASSUME ScriptInv, Connect
  PROVE  Progress' /\ Loaded' /\ L!IInv'
<1> USE DEF ScriptInv
<1>1. /\ pc = "idle" /\ pc' = "idle" /\ conns < Len(inputs) /\ Len(results) = conns
      /\ conns' = conns + 1 /\ inputs' = inputs /\ stats' = stats /\ results' = results
      /\ messages' = {} /\ savedMessages' = {} /\ positions' = {} /\ savedPositions' = {}
      /\ UNCHANGED <<stream, i, accepted, duplicates, todo, inst, rows, dealVolume, snapshot, s, running>>
  BY DEF Connect, Conn!ConnectInMemory, cursor, Conn!batch
<1>2. Len(inputs) \in Nat /\ Len(stats) \in Nat /\ conns \in Nat
  BY DEF InputsInv, Progress
<1>3. Len(stats) = conns
  BY <1>1, <1>2 DEF Progress
<1>4. Progress'
  BY <1>1, <1>2 DEF Progress
<1>5. Loaded'
  BY <1>1, <1>2, <1>3, FS_EmptySet DEF Loaded
<1>6. L!StoredDeals' = {}
  BY <1>1 DEF L!StoredDeals, L!Payloads
<1>7. L!TypeOK' /\ L!OneRowPerSession'
  <2>1. rows = {}
    BY <1>1 DEF L!IInv, L!NoRebuild
  <2> QED BY <1>1, <2>1 DEF L!IInv, L!TypeOK, L!OneRowPerSession, L!IsInjective
<1>8. L!OneRowPerKey' /\ L!DeliveredIsStored' /\ L!NoStream' /\ L!NoRebuild'
  BY <1>1 DEF L!IInv, L!OneRowPerKey, L!DeliveredIsStored, L!NoStream, L!NoRebuild
<1>9. L!Between' /\ L!IngestOnly' /\ L!RebuildOnly' /\ L!TablePart' /\ L!FoldPart' /\ L!FillPart'
  BY <1>1 DEF L!Between, L!IngestOnly, L!RebuildOnly, L!TablePart, L!FoldPart, L!FillPart
<1>10. stream' \in Seq(AllDeals) /\ L!IsFiniteSet(messages') /\ \A m \in L!StoredDeals' : L!Storable(m)
  BY <1>1, <1>6, FS_EmptySet, LedgerFinite DEF L!IInv
<1>11. (\A m \in L!StoredDeals : L!Storable(m))'
  BY <1>6
<1> QED BY <1>4, <1>5, <1>7, <1>8, <1>9, <1>10, <1>11 DEF L!IInv

\* Each stream goes into a database nothing was put into before.
LEMMA StartIngestKeeps ==
  ASSUME ScriptInv, StartIngest
  PROVE  Progress' /\ Loaded' /\ L!IInv'
<1> USE DEF ScriptInv
<1>1. /\ pc = "idle" /\ pc' = "ingest" /\ Len(stats) < conns
      /\ stream' = inputs[conns] /\ i' = 0 /\ accepted' = 0 /\ duplicates' = 0
      /\ messages' = messages /\ conns' = conns /\ inputs' = inputs
      /\ stats' = stats /\ results' = results
  BY DEF StartIngest, Conn!BeginIngest, Conn!BeginStream, Conn!tables, script
<1>2. Len(inputs) \in Nat /\ Len(stats) \in Nat /\ conns \in Nat /\ conns \in 1 .. Len(inputs)
  BY <1>1 DEF InputsInv, Progress
<1>3. messages = {} /\ Cardinality({}) = 0 /\ IsFiniteSet({})
  BY <1>1, FS_EmptySet DEF Loaded
<1>4. Progress'
  BY <1>1, <1>2 DEF Progress
<1>5. Loaded'
  BY <1>1, <1>2, <1>3 DEF Loaded, L!Payloads
<1>6. inputs[conns] \in Seq(AllDeals)
  BY <1>2 DEF InputsInv
<1>7. L!BeginIngest(inputs[conns])
  BY DEF StartIngest, Conn!BeginIngest, Conn!BeginStream, Conn!tables, Conn!cursor,
         L!BeginIngest, L!BeginStream, L!tables, L!cursor
<1>8. L!IInv'
  BY <1>6, <1>7, L!BeginIngestInv, LedgerStreams, LedgerMessages
<1> QED BY <1>4, <1>5, <1>8

\* Whatever has arrived on a connection is of its stream.
LEMMA ArrivedOfInput ==
  ASSUME ScriptInv, \/ pc = "ingest"
                    \/ Len(results) < Len(stats)
  PROVE  L!Canonical(L!Arrived)
<1> USE DEF ScriptInv
<1>1. /\ Len(inputs) \in Nat /\ Len(stats) \in Nat /\ Len(results) \in Nat /\ conns \in Nat
      /\ conns <= Len(inputs)
  BY DEF InputsInv, Progress
<1>2. conns \in 1 .. Len(inputs)
  BY <1>1 DEF Progress
<1>3. L!Arrived \in SUBSET Range(inputs[conns])
  <2>1. CASE pc = "ingest"
    <3>1. stream = inputs[conns] /\ L!StoredDeals \subseteq {stream[n] : n \in 1 .. i}
      BY <2>1 DEF Loaded, L!StoredDeals
    <3>2. stream \in Seq(AllDeals) /\ i \in 0 .. Len(stream)
      BY DEF L!IInv, L!TypeOK
    <3>3. 1 .. i \subseteq DOMAIN stream
      BY <3>2
    <3> QED BY <3>1, <3>3 DEF L!Arrived, Range
  <2>2. CASE pc # "ingest"
    <3>1. Len(results) < Len(stats)
      BY <2>2
    <3>2. Len(stats) = conns /\ conns > 0
      BY <1>1, <3>1 DEF Progress
    <3>3. L!StoredDeals = Range(inputs[conns])
      BY <3>2 DEF Loaded, L!StoredDeals
    <3>4. stream = << >>
      BY <2>2 DEF L!IInv, L!NoStream
    <3> QED BY <3>3, <3>4 DEF L!Arrived
  <2> QED BY <2>1, <2>2
<1>4. L!Canonical(Range(inputs[conns]))
  BY <1>2 DEF InputsInv
<1> QED BY <1>3, <1>4, PartIsCanonical

\* A call that runs on a connection keeps the ledger's own invariant.
LEMMA LedgerKeeps ==
  ASSUME ScriptInv, Ingest \/ Rebuild
  PROVE  L!IInv'
<1> USE DEF ScriptInv
<1>1. CASE Ingest
  <2>1. L!IngestStep
    BY <1>1 DEF Ingest, Conn!IngestStep, Conn!AcceptMessage, Conn!RejectMessage, Conn!CommitStream,
                Conn!Rejected, Conn!SameKey, Conn!Storable, Conn!Commit, Conn!EndBatch, Conn!tables,
                Conn!cursor, L!IngestStep, L!AcceptMessage, L!RejectMessage, L!CommitStream,
                L!Rejected, L!SameKey, L!Storable, L!Commit, L!EndBatch, L!tables, L!cursor
  <2>2. pc = "ingest"
    BY <2>1 DEF L!IngestStep, L!AcceptMessage, L!RejectMessage, L!CommitStream
  <2> QED BY <2>1, <2>2, ArrivedOfInput, L!CallsKeep, LedgerStreams, LedgerMessages
<1>2. CASE Rebuild
  <2>1. Conn!Rebuild => L!Rebuild
    <3>1. Conn!BeginRebuild => L!BeginRebuild
      BY DEF Conn!BeginRebuild, Conn!Payloads, Conn!batch, L!BeginRebuild, L!Payloads, L!batch
    <3>2. Conn!SelectInstrument => L!SelectInstrument
      BY DEF Conn!SelectInstrument, Conn!FreshFold, Conn!Empty, Conn!tables, Conn!batch,
             L!SelectInstrument, L!FreshFold, L!Empty, L!tables, L!batch
    <3>3. Conn!FoldRow => L!FoldRow
      <4>1. /\ \A f, x, v : Conn!With(f, x, v) = L!With(f, x, v)
            /\ \A m : Conn!VolumeSet(m) = L!VolumeSet(m)
        BY Zenon DEF Conn!With, L!With, Conn!VolumeSet, L!VolumeSet
      <4> QED BY <4>1, LedgerSums DEF Conn!FoldRow, Conn!tables, Conn!batch, L!FoldRow, L!tables, L!batch
    <3>4. Conn!InsertSession => L!InsertSession
      BY DEF Conn!InsertSession, Conn!SessionRow, Conn!batch, L!InsertSession, L!SessionRow, L!batch
    <3>5. Conn!FinishInstrument => L!FinishInstrument
      BY DEF Conn!FinishInstrument, Conn!FreshFold, Conn!Empty, Conn!tables, Conn!batch,
             L!FinishInstrument, L!FreshFold, L!Empty, L!tables, L!batch
    <3>6. Conn!CommitRebuild => L!CommitRebuild
      BY DEF Conn!CommitRebuild, Conn!Commit, Conn!batch, Conn!cursor,
             L!CommitRebuild, L!Commit, L!batch, L!cursor
    <3> QED BY <3>1, <3>2, <3>3, <3>4, <3>5, <3>6 DEF Conn!Rebuild, L!Rebuild
  <2>2. Len(results) < Len(stats) /\ L!Rebuild
    BY <1>2, <2>1 DEF Rebuild
  <2> QED BY <2>2, ArrivedOfInput, L!CallsKeep, LedgerStreams, LedgerMessages
<1> QED BY <1>1, <1>2

\* With one row per key, there are as many rows as messages stored.
LEMMA RowsAreMessages ==
  ASSUME L!IInv, IsFiniteSet(messages)
  PROVE  Cardinality(messages) = Cardinality(L!Payloads(messages))
<1> DEFINE f == [r \in messages |-> r.msg]
           P == L!Payloads(messages)
<1>1. \A r, u \in messages : r.msg = u.msg => r = u
  BY DEF L!IInv, L!OneRowPerKey, L!SameKey
<1>2. f \in Injection(messages, P) /\ f \in Surjection(messages, P)
  BY <1>1 DEF Injection, Surjection, IsInjective, L!Payloads
<1> HIDE DEF f, P
<1>3. Cardinality(messages) = Cardinality(P)
  BY <1>2, FS_Surjection
<1> QED BY <1>3 DEF P

\* A message is taken in, or the stream is at its end and its counts are final.
LEMMA IngestKeeps ==
  ASSUME ScriptInv, Ingest, L!IInv'
  PROVE  Progress' /\ Loaded'
<1> USE DEF ScriptInv
<1>1. /\ pc = "ingest" /\ conns' = conns /\ inputs' = inputs /\ results' = results
      /\ stats' = IF pc' = "idle"
                  THEN Append(stats, [accepted |-> accepted, duplicates |-> duplicates])
                  ELSE stats
  BY DEF Ingest, Conn!IngestStep, Conn!AcceptMessage, Conn!RejectMessage, Conn!CommitStream
<1>2. /\ Len(inputs) \in Nat /\ Len(stats) \in Nat /\ Len(results) \in Nat /\ conns \in Nat
      /\ stream \in Seq(AllDeals) /\ i \in 0 .. Len(stream) /\ i \in Nat /\ Len(stream) \in Nat
      /\ accepted \in Nat /\ duplicates \in Nat
  <2>1. stream \in Seq(AllDeals) /\ i \in 0 .. Len(stream)
    BY DEF L!IInv, L!TypeOK
  <2>2. /\ Len(inputs) \in Nat /\ Len(stats) \in Nat /\ Len(results) \in Nat /\ conns \in Nat
    BY DEF InputsInv, Progress
  <2> QED BY <1>1, <2>1, <2>2 DEF Loaded
<1>3. /\ Len(stats) < conns /\ conns = Len(stats) + 1 /\ Len(results) = Len(stats)
      /\ conns \in 1 .. Len(inputs)
  BY <1>1, <1>2 DEF Progress
<1>4. /\ stream = inputs[conns] /\ L!Payloads(messages) \subseteq {stream[n] : n \in 1 .. i}
      /\ accepted = Cardinality(messages) /\ accepted + duplicates = i /\ IsFiniteSet(messages)
  BY <1>1 DEF Loaded
<1>5. CASE Conn!AcceptMessage
  <2> DEFINE row == [msg |-> stream[i + 1], received_at |-> i]
  <2>1. /\ messages' = messages \cup {row} /\ accepted' = accepted + 1 /\ i' = i + 1
        /\ pc' = "ingest" /\ stream' = stream /\ duplicates' = duplicates /\ stats' = stats
        /\ \A r \in messages : ~Conn!SameKey(r.msg, stream[i + 1])
    BY <1>1, <1>5 DEF Conn!AcceptMessage, Conn!Rejected
  <2>2. row \notin messages /\ row.msg = stream[i + 1]
    BY <2>1 DEF Conn!SameKey
  <2> HIDE DEF row
  <2>3. IsFiniteSet(messages') /\ Cardinality(messages') = Cardinality(messages) + 1
    BY <1>4, <2>1, <2>2, FS_AddElement
  <2>4. L!Payloads(messages') \subseteq {stream'[n] : n \in 1 .. i'}
    <3>1. L!Payloads(messages') = L!Payloads(messages) \cup {stream[i + 1]}
      BY <2>1, <2>2 DEF L!Payloads
    <3>2. 1 .. i \subseteq 1 .. (i + 1) /\ i + 1 \in 1 .. (i + 1)
      BY <1>2
    <3> QED BY <1>4, <2>1, <3>1, <3>2
  <2>5. accepted' + duplicates' = i' /\ accepted' = Cardinality(messages')
    BY <1>2, <1>4, <2>1, <2>3
  <2>6. Progress'
    BY <1>1, <1>3, <2>1 DEF Progress
  <2>7. Loaded'
    <3>1. (L!Payloads(messages) \subseteq {stream[n] : n \in 1 .. i})'
      BY <2>4 DEF L!Payloads
    <3>2. IsFiniteSet(messages)' /\ (accepted = Cardinality(messages) /\ accepted + duplicates = i)'
         /\ (accepted \in Nat /\ duplicates \in Nat)'
      BY <1>2, <2>1, <2>3, <2>5
    <3>3. pc' = "ingest" /\ Len(stats') # conns' /\ stream' = inputs'[conns']
      BY <1>1, <1>2, <1>3, <1>4, <2>1
    <3> QED BY <3>1, <3>2, <3>3 DEF Loaded
  <2> QED BY <2>6, <2>7
<1>6. CASE Conn!RejectMessage
  <2>1. /\ messages' = messages /\ accepted' = accepted /\ i' = i + 1
        /\ pc' = "ingest" /\ stream' = stream /\ duplicates' = duplicates + 1 /\ stats' = stats
    BY <1>1, <1>6 DEF Conn!RejectMessage, Conn!tables
  <2>2. L!Payloads(messages') \subseteq {stream'[n] : n \in 1 .. i'}
    <3>1. 1 .. i \subseteq 1 .. (i + 1)
      BY <1>2
    <3> QED BY <1>4, <2>1, <3>1 DEF L!Payloads
  <2>3. accepted' + duplicates' = i' /\ accepted' \in Nat /\ duplicates' \in Nat
    BY <1>2, <1>4, <2>1
  <2>4. Progress'
    BY <1>1, <1>3, <2>1 DEF Progress
  <2>5. Loaded'
    BY <1>1, <1>2, <1>3, <1>4, <2>1, <2>2, <2>3 DEF Loaded, L!Payloads
  <2> QED BY <2>4, <2>5
<1>7. CASE Conn!CommitStream
  <2> DEFINE counts == [accepted |-> accepted, duplicates |-> duplicates]
  <2>1. /\ i = Len(stream) /\ messages' = messages /\ pc' = "idle"
        /\ stats' = Append(stats, counts)
    BY <1>1, <1>7 DEF Conn!CommitStream
  <2>2. L!Payloads(messages) = Range(stream)
    <3>1. \A n \in 1 .. i : stream[n] \in L!Payloads(messages)
      <4> SUFFICES ASSUME NEW n \in 1 .. i PROVE stream[n] \in L!Payloads(messages)
        OBVIOUS
      <4>1. stream[n] \in AllDeals
        BY <1>2
      <4>2. L!Storable(stream[n])
        BY <4>1, DealType
      <4> QED BY <4>2 DEF L!IInv, L!DeliveredIsStored, L!Payloads
    <3>2. DOMAIN stream = 1 .. i
      BY <1>2, <2>1
    <3> QED BY <1>4, <3>1, <3>2 DEF Range
  <2>3. counts = Counts(stream)
    <3>1. accepted = Cardinality(Range(stream))
      BY <1>4, <2>2, RowsAreMessages
    <3>2. duplicates = Len(stream) - Cardinality(Range(stream))
      BY <1>2, <1>4, <2>1, <3>1
    <3> QED BY <3>1, <3>2 DEF Counts
  <2>4. counts \in [accepted : Nat, duplicates : Nat]
    BY <1>2
  <2> HIDE DEF counts
  <2>5. /\ stats' \in Seq([accepted : Nat, duplicates : Nat]) /\ Len(stats') = conns
        /\ \A k \in 1 .. Len(stats) : stats'[k] = stats[k]
        /\ stats'[conns] = counts
    BY <1>3, <2>1, <2>4 DEF Progress
  <2>6. \A k \in 1 .. Len(stats') : stats'[k] = Counts(inputs'[k])
    <3> SUFFICES ASSUME NEW k \in 1 .. conns PROVE stats'[k] = Counts(inputs[k])
      BY <1>1, <2>5
    <3>1. CASE k = conns
      BY <1>4, <2>3, <2>5, <3>1
    <3>2. CASE k # conns
      <4>1. k \in 1 .. Len(stats)
        BY <1>2, <1>3, <3>2
      <4> QED BY <2>5, <4>1 DEF Progress
    <3> QED BY <3>1, <3>2
  <2>7. Progress'
    BY <1>1, <1>2, <1>3, <2>1, <2>5, <2>6 DEF Progress
  <2>8. Loaded'
    BY <1>1, <1>2, <1>3, <1>4, <2>1, <2>2, <2>5 DEF Loaded, L!Payloads
  <2> QED BY <2>7, <2>8
<1> QED BY <1>5, <1>6, <1>7 DEF Ingest, Conn!IngestStep

\* A rebuild that commits reports the table its stream stands for.
LEMMA RebuildKeeps ==
  ASSUME ScriptInv, Rebuild
  PROVE  Progress' /\ Loaded'
<1> USE DEF ScriptInv
<1>1. /\ Len(results) < Len(stats) /\ messages' = messages
      /\ conns' = conns /\ inputs' = inputs /\ stats' = stats
      /\ results' = IF pc' = "idle" THEN Append(results, Conn!FinalPositions(positions)) ELSE results
      /\ pc' \in {"idle", "rebuild", "fold"}
  BY DEF Rebuild, Conn!Rebuild, Conn!BeginRebuild, Conn!SelectInstrument, Conn!FoldRow,
         Conn!InsertSession, Conn!FinishInstrument, Conn!CommitRebuild, Conn!tables
<1>2. /\ Len(inputs) \in Nat /\ Len(stats) \in Nat /\ Len(results) \in Nat /\ conns \in Nat
  BY DEF InputsInv, Progress
<1>3. Len(stats) = conns /\ conns = Len(results) + 1 /\ conns \in 1 .. Len(inputs)
  BY <1>1, <1>2 DEF Progress
<1>4. Loaded'
  <2>1. L!Payloads(messages) = Range(inputs[conns]) /\ IsFiniteSet(messages)
    BY <1>2, <1>3 DEF Loaded
  <2> QED BY <1>1, <1>2, <1>3, <2>1 DEF Loaded, L!Payloads
<1>5. CASE pc' # "idle"
  BY <1>1, <1>2, <1>3, <1>4, <1>5 DEF Progress
<1>6. CASE pc' = "idle"
  <2>1. pc = "rebuild" /\ todo = {}
    BY <1>6 DEF Rebuild, Conn!Rebuild, Conn!BeginRebuild, Conn!SelectInstrument, Conn!FoldRow,
                Conn!InsertSession, Conn!FinishInstrument, Conn!CommitRebuild
  <2> DEFINE F == Range(inputs[conns])
  <2>2. positions = L!Rebuilt(F)
    <3>1. L!RebuildIsReference
      BY L!RebuiltTable, LedgerStreams, LedgerMessages
    <3>2. L!Payloads(messages) = F
      BY <1>2, <1>3 DEF Loaded
    <3> QED BY <2>1, <3>1, <3>2 DEF L!RebuildIsReference
  <2>3. results' = Append(results, Reported(F))
    BY <1>1, <1>6, <2>2 DEF Reported, Conn!FinalPositions, L!FinalPositions
  <2>4. F \in SUBSET AllDeals
    <3>1. inputs[conns] \in Seq(AllDeals)
      BY <1>3 DEF InputsInv
    <3> QED BY <3>1 DEF Range
  <2>5. Reported(F) \in {Reported(G) : G \in SUBSET AllDeals}
    BY <2>4
  <2> DEFINE R == {Reported(G) : G \in SUBSET AllDeals}
             new == Reported(F)
  <2>6. results \in Seq(R) /\ new \in R
    BY <2>5 DEF Progress
  <2> HIDE DEF R, new
  <2>7. /\ results' \in Seq(R) /\ Len(results') = conns /\ results'[conns] = new
        /\ \A k \in 1 .. Len(results) : results'[k] = results[k]
    BY <1>3, <2>3, <2>6 DEF new
  <2>8. \A k \in 1 .. Len(results') : results'[k] = Reported(Range(inputs'[k]))
    <3> SUFFICES ASSUME NEW k \in 1 .. conns PROVE results'[k] = Reported(Range(inputs[k]))
      BY <1>1, <2>7
    <3>1. CASE k = conns
      BY <2>7, <3>1 DEF new
    <3>2. CASE k # conns
      <4>1. k \in 1 .. Len(results)
        BY <1>2, <1>3, <3>2
      <4> QED BY <2>7, <4>1 DEF Progress
    <3> QED BY <3>1, <3>2
  <2>9. results' \in Seq({Reported(G) : G \in SUBSET AllDeals})
    BY <2>7 DEF R
  <2>10. Progress'
    BY <1>1, <1>2, <1>3, <1>6, <2>7, <2>8, <2>9 DEF Progress
  <2> QED BY <1>4, <2>10
<1> QED BY <1>4, <1>5, <1>6

\* Elsewhere the ledger and the results stay as they are; before the streams
\* are there no connection was opened.
LEMMA OtherKeeps ==
  ASSUME ScriptInv, UNCHANGED <<ledger, conns, stats, results>>,
         \/ inputs' = inputs
         \/ inputs = << >> /\ inputs' \in Seq(Seq(AllDeals))
  PROVE  Progress' /\ Loaded' /\ L!IInv'
<1> USE DEF ScriptInv
<1>1. /\ UNCHANGED <<savedMessages, savedPositions, messages, positions, pc, stream, i, accepted,
                     duplicates, todo, inst, rows, dealVolume, snapshot, s, running>>
      /\ UNCHANGED <<conns, stats, results>>
  BY DEF ledger, cursor
<1>2. UNCHANGED L!vars
  BY <1>1 DEF L!vars, L!tables, L!batch, L!cursor
<1>3. L!IInv'
  BY <1>2, L!StutterInv, LedgerStreams, LedgerMessages
<1>4. CASE inputs' = inputs
  <2>1. Progress'
    BY <1>1, <1>4 DEF Progress
  <2>2. Loaded'
    BY <1>1, <1>4 DEF Loaded, L!Payloads
  <2> QED BY <1>3, <2>1, <2>2
<1>5. CASE inputs = << >> /\ inputs' \in Seq(Seq(AllDeals))
  <2>1. conns = 0 /\ Len(stats) = 0 /\ Len(results) = 0 /\ Len(inputs') \in Nat
    <3>1. Len(inputs) = 0
      BY <1>5
    <3>2. Len(stats) \in Nat /\ Len(results) \in Nat /\ conns \in 0 .. 0
      BY <3>1 DEF Progress
    <3> QED BY <1>5, <3>2 DEF Progress
  <2>2. pc = "idle"
    <3>1. pc \in {"idle", "ingest", "rebuild", "fold"}
      BY DEF L!IInv, L!TypeOK
    <3> QED BY <2>1, <3>1 DEF Progress
  <2>3. Progress'
    BY <1>1, <2>1, <2>2 DEF Progress
  <2>4. Loaded'
    BY <1>1, <2>1, <2>2 DEF Loaded
  <2> QED BY <1>3, <2>3, <2>4
<1> QED BY <1>4, <1>5

LEMMA StepKeepsScript ==
  ASSUME SourceInv, ReplayInv, ScriptInv, [Next]_vars
  PROVE  ScriptInv'
<1>1. InputsInv'
  BY StepKeepsInputs DEF ScriptInv
<1>2. CASE Connect
  BY <1>1, <1>2, ConnectKeeps DEF ScriptInv
<1>3. CASE StartIngest
  BY <1>1, <1>3, StartIngestKeeps DEF ScriptInv
<1>4. CASE Ingest
  BY <1>1, <1>4, LedgerKeeps, IngestKeeps DEF ScriptInv
<1>5. CASE Rebuild
  BY <1>1, <1>5, LedgerKeeps, RebuildKeeps DEF ScriptInv
<1>6. CASE Generate \/ StartPerturbing \/ Perturb \/ Demonstrate \/ UNCHANGED vars
  <2>1. UNCHANGED <<ledger, conns, stats, results>>
    BY <1>6 DEF Generate, StartPerturbing, Perturb, Demonstrate, vars, script
  <2>2. inputs' = inputs \/ inputs = << >>
    BY <1>6 DEF Generate, StartPerturbing, Perturb, Demonstrate, vars, script, ScriptInv, InputsInv
  <2>3. inputs' \in Seq(Seq(AllDeals))
    BY <1>1 DEF InputsInv
  <2> QED BY <1>1, <2>1, <2>2, <2>3, OtherKeeps DEF ScriptInv
<1> QED BY <1>2, <1>3, <1>4, <1>5, <1>6 DEF Next

LEMMA ScriptInit == Init => ScriptInv
<1> SUFFICES ASSUME Init PROVE ScriptInv
  OBVIOUS
<1>1. L!Init
  BY DEF Init, Conn!Init, Conn!StoreInit, Conn!Empty, L!Init, L!StoreInit, L!Empty
<1>2. L!IInv
  BY <1>1, L!InitInv, LedgerStreams, LedgerMessages
<1>3. /\ stage = "generate" /\ inputs = << >> /\ conns = 0 /\ stats = << >> /\ results = << >>
      /\ phase = "waiting" /\ messages = {} /\ pc = "idle"
  BY DEF Init, Perturbation!Init, Conn!Init, Conn!StoreInit
<1>4. Len(inputs) = 0 /\ Len(stats) = 0 /\ Len(results) = 0
  BY <1>3
<1>5. inputs \in Seq(Seq(AllDeals)) /\ stats \in Seq([accepted : Nat, duplicates : Nat])
      /\ results \in Seq({Reported(F) : F \in SUBSET AllDeals})
  BY <1>3
<1>6. InputsInv
  BY <1>3, <1>4, <1>5 DEF InputsInv
<1>7. Progress
  BY <1>3, <1>4, <1>5 DEF Progress
<1>8. Loaded
  BY <1>3, <1>4, FS_EmptySet DEF Loaded
<1> QED BY <1>2, <1>6, <1>7, <1>8 DEF ScriptInv

\* The invariant of the whole script: the generator's, the perturbation's, and
\* that of the ledger on the connection at hand with what it was given so far.
LEMMA ScriptInvariance == Spec => [](SourceInv /\ ReplayInv /\ Sent /\ ScriptInv)
<1>1. Init => SourceInv /\ ReplayInv /\ Sent /\ ScriptInv
  BY SourceInit, ReplayInit, ScriptInit DEF Init, Sent, Perturbation!Init
<1>2. SourceInv /\ ReplayInv /\ Sent /\ ScriptInv /\ [Next]_vars
        => SourceInv' /\ ReplayInv' /\ Sent' /\ ScriptInv'
  BY StepKeepsSource, StepKeepsReplay, StepKeepsSent, StepKeepsScript
<1> QED BY <1>1, <1>2, PTL DEF Spec

\* Two streams with the same messages leave exactly the same book, whatever the
\* order and the copies, amends and cancels that overtake their deal included.
THEOREM SameDealsSameBook == Spec => []BitIdentical
<1>1. ScriptInv => BitIdentical
  <2> SUFFICES ASSUME ScriptInv, Compared, NEW j \in DOMAIN inputs, NEW k \in DOMAIN inputs,
                      Range(inputs[j]) = Range(inputs[k])
               PROVE  results[j] = results[k]
    BY DEF BitIdentical
  <2>1. j \in 1 .. Len(results) /\ k \in 1 .. Len(results)
    BY DEF ScriptInv, InputsInv, Compared
  <2> QED BY <2>1 DEF ScriptInv, Progress
<1> QED BY <1>1, ScriptInvariance, PTL

\* Each message of a stream is accepted once and every other copy is counted as
\* a duplicate: in the replay, exactly the copies that were drawn.
THEOREM CountsMatchTheDraw == Spec => []StatsMatch
<1>1. ReplayInv /\ ScriptInv => StatsMatch
  <2> SUFFICES ASSUME ReplayInv, ScriptInv, Compared PROVE StatsMatch
    BY DEF StatsMatch
  <2> USE DEF ScriptInv
  <2>1. Len(stats) = Len(inputs) /\ Len(inputs) \in Nat
    BY DEF InputsInv, Progress, Compared
  <2>2. ASSUME NEW k \in DOMAIN inputs PROVE stats[k] = Counts(inputs[k])
    BY <2>1 DEF InputsInv, Progress
  <2>3. ASSUME inputs[1] = canonical PROVE stats[2].duplicates = Cardinality(dupIndices)
    <3>1. WellNumbered(canonical)
      BY DEF ReplayInv
    <3>2. ~(Len(inputs[1]) = 1 /\ phase = "waiting")
      BY <2>3 DEF ReplayInv
    <3>3. inputs = <<canonical, perturbed>> /\ phase = "perturbed"
      BY <3>2 DEF InputsInv, Compared
    <3>4. Range(perturbed) = Range(canonical)
          /\ Len(perturbed) = Len(canonical) + Perturbation!RoundedShare(Len(canonical))
      BY <3>3, ReplayIsPermutation DEF ReplayInv, FullyDelivered
    <3>5. Cardinality(dupIndices) = Perturbation!RoundedShare(Len(canonical))
      BY <3>3 DEF ReplayInv
    <3>6. Cardinality(Range(perturbed)) = Len(canonical) /\ Len(canonical) \in Nat
      BY <3>1, <3>4, NumberedIsCanonical DEF WellNumbered
    <3>7. /\ IsFiniteSet(1 .. Len(canonical)) /\ dupIndices \in SUBSET (1 .. Len(canonical))
      BY <3>6, FS_Interval DEF ReplayInv
    <3>8. Cardinality(dupIndices) \in Nat
      BY <3>7, FS_Subset, FS_CardinalityType
    <3>9. 2 \in DOMAIN inputs /\ inputs[2] = perturbed
      BY <3>3
    <3>10. stats[2].duplicates = Len(perturbed) - Cardinality(Range(perturbed))
      <4>1. stats[2] = Counts(perturbed)
        BY <2>2, <3>9
      <4> QED BY <4>1 DEF Counts
    <3> QED BY <3>4, <3>5, <3>6, <3>8, <3>10
  <2> QED BY <2>2, <2>3, ReplayNames DEF StatsMatch, Counts
<1> QED BY <1>1, ScriptInvariance, PTL

-----------------------------------------------------------------------------
(* The book that comes out.                                                *)

\* The last words on an instrument's deals add up to what is held open.
LEMMA NetIsOpen ==
  ASSUME SourceInv, NEW x \in Range(Universe)
  PROVE  L!NetVolume(Own(deals, x)) = SumFunction(openDeals[x])
<1> DEFINE F == Own(deals, x)
           open == openDeals[x]
           ids == {m.id : m \in F}
           words == Words(open, F)
<1>1. /\ WellNumbered(deals) /\ deals \in Seq(AllDeals)
      /\ \A d \in DOMAIN open : StillOpen(deals, x, d)
      /\ L!LastWords(words, F)
  BY DEF SourceInv, Drawn, Book, OpenBook, WellNumbered
<1>2. F \in SUBSET L!Deals /\ F \in SUBSET Range(deals) /\ \A m \in F : m.instrument = x
  BY <1>1, OwnType DEF Own, L!DealsOf
<1>3. IsFiniteSet(Range(deals)) /\ IsFiniteSet(F) /\ IsFiniteSet(ids)
  <2>1. DOMAIN deals = 1 .. Len(deals) /\ Len(deals) \in Nat
    BY <1>1
  <2>2. IsFiniteSet(1 .. Len(deals))
    BY <2>1, FS_Interval
  <2>3. Range(deals) = {deals[k] : k \in 1 .. Len(deals)}
    BY <2>1 DEF Range
  <2>4. IsFiniteSet(Range(deals))
    BY <2>2, <2>3, ImageIsFinite
  <2>5. IsFiniteSet(F)
    BY <1>2, <2>4, FS_Subset
  <2> DEFINE idOf == [m \in F |-> m.id]
  <2>6. ids = {idOf[m] : m \in F}
    OBVIOUS
  <2> HIDE DEF F, ids, idOf
  <2>7. IsFiniteSet(ids)
    BY <2>5, <2>6, ImageIsFinite
  <2> QED BY <2>4, <2>5, <2>7
<1>4. L!SequencesOrder(F)
  BY <1>1, <1>2, NumberedIsCanonical, PartIsCanonical DEF L!Canonical
<1>5. L!SumFunction(words) = L!NetVolume(F)
  <2> HIDE DEF words, F
  <2>1. L!IsFiniteSet(F)
    BY <1>3, LedgerFinite
  <2> QED BY <1>1, <1>2, <1>4, <2>1, L!LastWordsAddUp, LedgerStreams, LedgerMessages
<1>6. DOMAIN open \in SUBSET ids
  <2> SUFFICES ASSUME NEW d \in DOMAIN open PROVE d \in ids
    OBVIOUS
  <2>1. PICK k \in 1 .. Len(deals) : deals[k].id = d /\ deals[k].instrument = x
    BY <1>1 DEF StillOpen
  <2>2. deals[k] \in F
    BY <1>1, <2>1 DEF Own, L!DealsOf, Range
  <2> QED BY <2>1, <2>2
<1>7. \A d \in ids : words[d] \in Int /\ words[d] = IF d \in DOMAIN open THEN open[d] ELSE 0
  BY <1>1 DEF L!LastWords, Words
<1>8. DOMAIN words = ids
  BY DEF Words
<1> HIDE DEF words, F, ids, open
<1>9. SumFunctionOnSet(words, ids) = SumFunctionOnSet(open, DOMAIN open)
  BY <1>3, <1>6, <1>7, SumOverZeros
<1>10. SumFunction(words) = SumFunction(open)
  BY <1>8, <1>9 DEF SumFunction
<1> QED BY <1>5, <1>10, LedgerSums DEF F, open

\* A ledger fed with the whole blotter reports the open book.
LEMMA BookComesOut ==
  ASSUME SourceInv, session = NSessions
  PROVE  {<<p.instrument, p.quantity>> : p \in Reported(Range(deals))} =
         {<<x, SumFunction(openDeals[x])>> : x \in Range(Universe)}
<1> DEFINE F == Range(deals)
           net(x) == SumFunction(openDeals[x])
<1>1. deals \in Seq(AllDeals)
  BY DEF SourceInv, Drawn, WellNumbered
<1>2. F \in SUBSET L!Deals /\ L!IsFiniteSet(F) /\ F = {deals[k] : k \in 1 .. Len(deals)}
  <2>1. DOMAIN deals = 1 .. Len(deals) /\ Len(deals) \in Nat
    BY <1>1
  <2>2. IsFiniteSet(1 .. Len(deals))
    BY <2>1, FS_Interval
  <2>3. F = {deals[k] : k \in 1 .. Len(deals)}
    BY <2>1 DEF Range
  <2>4. IsFiniteSet(F)
    BY <2>2, <2>3, ImageIsFinite
  <2>5. F \in SUBSET AllDeals
    BY <1>1, <2>3
  <2> QED BY <2>3, <2>4, <2>5, LedgerFinite, LedgerDeals
<1>3. ASSUME NEW x \in Range(Universe)
      PROVE  /\ \E p \in Reported(F) : p.instrument = x
             /\ \A p \in Reported(F) : p.instrument = x => p.quantity = net(x)
  <2>1. x \in {m.instrument : m \in F}
    <3>1. PICK k \in 1 .. Len(Universe) : Universe[k] = x
      BY UniverseType DEF Range
    <3>2. session > 0
      BY UniverseAssumption
    <3>3. numbered[x] > 0
      BY <3>1, <3>2 DEF SourceInv, Turns, WithinBudget
    <3>4. PICK j \in 1 .. Len(deals) : deals[j].instrument = x
      BY <3>3 DEF SourceInv, Drawn
    <3> QED BY <1>2, <3>4
  <2>2. L!NetVolume(L!DealsOf(F, x)) = net(x)
    BY NetIsOpen DEF Own
  <2> HIDE DEF F, net
  <2>3. /\ \E p \in L!FinalPositions(L!Rebuilt(F)) : p.instrument = x
        /\ \A p \in L!FinalPositions(L!Rebuilt(F)) :
             p.instrument = x => p.quantity = L!NetVolume(L!DealsOf(F, x))
    BY <1>2, <2>1, L!FinalRow, LedgerStreams, LedgerMessages
  <2> QED BY <2>2, <2>3 DEF Reported
<1>4. ASSUME NEW p \in Reported(F) PROVE p.instrument \in Range(Universe)
  <2>1. p \in L!Rebuilt(F)
    BY DEF Reported, L!FinalPositions
  <2>2. PICK x \in {m.instrument : m \in F} : p \in L!RebuiltFor(F, x)
    BY <2>1 DEF L!Rebuilt
  <2>3. p.instrument = x
    <3> HIDE DEF F
    <3> QED BY <2>2, L!RowsAreOwn, LedgerStreams, LedgerMessages
  <2>4. \A m \in F : m.instrument \in Range(Universe)
    BY <1>2, LedgerDeals, DealType
  <2> QED BY <2>2, <2>3, <2>4
<1> HIDE DEF F, net
<1>5. {<<p.instrument, p.quantity>> : p \in Reported(F)} = {<<x, net(x)>> : x \in Range(Universe)}
  <2>1. ASSUME NEW p \in Reported(F)
        PROVE  <<p.instrument, p.quantity>> \in {<<x, net(x)>> : x \in Range(Universe)}
    BY <1>3, <1>4
  <2>2. ASSUME NEW x \in Range(Universe)
        PROVE  <<x, net(x)>> \in {<<p.instrument, p.quantity>> : p \in Reported(F)}
    BY <1>3
  <2> QED BY <2>1, <2>2
<1> QED BY <1>5 DEF F, net

\* final_positions reports of every instrument the volume that the deals still
\* open in the generator add up to, from the blotter and from its replay.
THEOREM ReplayReportsOpenBook == Spec => []ResultIsOpenBook
<1>1. SourceInv /\ ReplayInv /\ Sent /\ ScriptInv => ResultIsOpenBook
  <2> SUFFICES ASSUME SourceInv, ReplayInv, Sent, ScriptInv, canonical # << >>,
                      NEW k \in DOMAIN results
               PROVE  {<<p.instrument, p.quantity>> : p \in results[k]} =
                      {<<x, SumFunction(openDeals[x])>> : x \in Range(Universe)}
    BY DEF ResultIsOpenBook
  <2> USE DEF ScriptInv
  <2>1. /\ k \in 1 .. Len(results) /\ results[k] = Reported(Range(inputs[k]))
        /\ k \in Nat /\ k > 0 /\ k <= Len(inputs)
    <3>1. /\ inputs \in Seq(Seq(AllDeals)) /\ conns \in 0 .. Len(inputs)
          /\ stats \in Seq([accepted : Nat, duplicates : Nat])
          /\ results \in Seq({Reported(F) : F \in SUBSET AllDeals})
          /\ Len(results) <= Len(stats) /\ Len(stats) <= conns
          /\ \A j \in 1 .. Len(results) : results[j] = Reported(Range(inputs[j]))
      BY DEF Progress, InputsInv
    <3>2. DOMAIN results = 1 .. Len(results) /\ Len(results) \in Nat /\ Len(stats) \in Nat
      BY ONLY <3>1
    <3>3. Len(inputs) \in Nat
      BY ONLY <3>1
    <3>4. conns \in Nat /\ conns <= Len(inputs)
      BY ONLY <3>1, <3>3
    <3>5. k \in 1 .. Len(results)
      BY <3>2
    <3>6. k \in Nat /\ k > 0 /\ k <= Len(inputs)
      BY ONLY <3>1, <3>2, <3>3, <3>4, <3>5
    <3> QED BY ONLY <3>1, <3>5, <3>6
  <2>2. canonical = deals /\ session = NSessions /\ phase # "waiting"
    BY DEF Sent, ReplayInv
  <2>3. inputs = <<canonical, perturbed>> /\ phase = "perturbed"
    <3>1. inputs # << >>
      BY <2>1
    <3> QED BY <2>2, <3>1 DEF InputsInv
  <2>4. Range(perturbed) = Range(canonical)
    BY <2>3, ReplayIsPermutation DEF FullyDelivered
  <2>5. inputs[k] = canonical \/ inputs[k] = perturbed
    <3>1. Len(inputs) = 2
      BY <2>3
    <3>2. k = 1 \/ k = 2
      BY <2>1, <3>1
    <3> QED BY <2>3, <3>2
  <2>6. results[k] = Reported(Range(deals))
    BY <2>1, <2>2, <2>4, <2>5
  <2> QED BY <2>2, <2>6, BookComesOut
<1> QED BY <1>1, ScriptInvariance, PTL
=============================================================================
