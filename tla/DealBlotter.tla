---------------------------- MODULE DealBlotter ----------------------------
(***************************************************************************)
(* build_deal_blotter (pipeline/commodity_simulator.py): in every session  *)
(* each instrument gets one to MaxActions messages, each opening a deal,   *)
(* or resizing or cancelling one that is open.  deal_id is a function of   *)
(* the instrument and the opening sequence number, kept as that pair.      *)
(***************************************************************************)
EXTENDS Integers, Sequences, DealReference

CONSTANTS
  Universe,     \* the instruments, a sequence without repetitions
  NSessions,
  MaxActions,   \* 3 in the code
  Volumes,      \* signed volumes a new deal may have
  Changes       \* what an amend may add, within half the deal's size

VARIABLES
  session, turn,  \* the session and the index of the instrument in Universe
  left,           \* actions of this turn still to be drawn
  numbered,       \* per_instrument_sequence
  openDeals,      \* open_deals: instrument -> deal_id -> current volume
  deals

blotter == <<session, turn, left, numbered, openDeals, deals>>

Instruments == {Universe[k] : k \in DOMAIN Universe}
Empty == [d \in {} |-> 0]

Init ==
  /\ session = 0 /\ turn = 1 /\ left = 0
  /\ numbered = [x \in Instruments |-> 0]
  /\ openDeals = [x \in Instruments |-> Empty]
  /\ deals = << >>

Finished == session = NSessions

DrawCount ==
  /\ ~Finished /\ left = 0
  /\ left' \in 1 .. MaxActions
  /\ UNCHANGED <<session, turn, numbered, openDeals, deals>>

Current == Universe[turn]

\* The message, and the open deals of the instrument after it.
Append1(id, action, v, price, open) ==
  /\ deals' = Append(deals, [id |-> id, sequence |-> numbered[Current] + 1,
                             action |-> action, instrument |-> Current,
                             volume |-> v, trade_price |-> price, session |-> session])
  /\ openDeals' = [openDeals EXCEPT ![Current] = open]

\* Faulty: the numbers start again in every session.
AdvanceResettingNumbers ==
  /\ numbered' = [numbered EXCEPT ![Current] = IF left = 1 THEN 0 ELSE @ + 1]
  /\ left' = left - 1
  /\ turn' = IF left = 1 THEN (turn % Len(Universe)) + 1 ELSE turn
  /\ session' = IF left = 1 /\ turn = Len(Universe) THEN session + 1 ELSE session

\* The turn passes on with its last action, the session with its last turn.
Advance ==
  /\ numbered' = [numbered EXCEPT ![Current] = @ + 1]
  /\ left' = left - 1
  /\ turn' = IF left = 1 THEN (turn % Len(Universe)) + 1 ELSE turn
  /\ session' = IF left = 1 /\ turn = Len(Universe) THEN session + 1 ELSE session

NewDeal(price) ==
  /\ left > 0
  /\ \E v \in Volumes :
       LET id == <<Current, numbered[Current] + 1>>
           open == openDeals[Current]
       IN  Append1(id, "new", v, price,
                   [d \in DOMAIN open \cup {id} |-> IF d = id THEN v ELSE open[d]])
  /\ Advance

Magnitude(v) == IF v < 0 THEN -v ELSE v

\* Faulty: the message carries the change, not the new volume.
AmendByChange(none) ==
  /\ left > 0
  /\ \E id \in DOMAIN openDeals[Current], change \in Changes :
       LET open == openDeals[Current]
       IN  Append1(id, "amend", change, none, [open EXCEPT ![id] = @ + change])
  /\ Advance

AmendDeal(none) ==
  /\ left > 0
  /\ \E id \in DOMAIN openDeals[Current], change \in Changes :
       LET open == openDeals[Current]
       IN  /\ 2 * Magnitude(change) <= Max({Magnitude(open[id]), 3})
           /\ Append1(id, "amend", open[id] + change, none, [open EXCEPT ![id] = @ + change])
  /\ Advance

CancelDeal(none) ==
  /\ left > 0
  /\ \E id \in DOMAIN openDeals[Current] :
       LET open == openDeals[Current]
       IN  Append1(id, "cancel", 0, none, [d \in DOMAIN open \ {id} |-> open[d]])
  /\ Advance

-----------------------------------------------------------------------------

\* A message of the instrument's own earlier deal, not cancelled in between.
ConcernsOpenDeal(k) ==
  \E j \in 1 .. (k - 1) :
    /\ deals[j].action = "new" /\ deals[j].id = deals[k].id
    /\ deals[j].instrument = deals[k].instrument
    /\ \A n \in j .. (k - 1) : deals[n].id = deals[k].id => deals[n].action # "cancel"

\* Keys are unique, an instrument's sequence numbers grow while its sessions
\* never go back, although a deal_id comes back with every amend; and an amend
\* or cancel always concerns a deal of the same instrument that is still open.
BlotterIsCanonical ==
  \A k \in DOMAIN deals :
    /\ deals[k].action # "new" => ConcernsOpenDeal(k)
    /\ \A j \in 1 .. (k - 1) :
         /\ <<deals[j].id, deals[j].sequence>> # <<deals[k].id, deals[k].sequence>>
         /\ deals[j].instrument = deals[k].instrument =>
              /\ deals[j].sequence < deals[k].sequence
              /\ deals[j].session <= deals[k].session
=============================================================================
