----------------------------- MODULE FillStream -----------------------------
(***************************************************************************)
(* build_canonical_fill_stream (pipeline/simulator.py): session by session *)
(* and instrument by instrument, one to MaxFills fills each, numbered per  *)
(* instrument across the whole stream.  fill_id is a function of the       *)
(* instrument and the sequence number, and is kept as that pair.           *)
(***************************************************************************)
EXTENDS Integers, Sequences

CONSTANTS
  Universe,     \* the instruments, a sequence without repetitions
  NSessions,
  MaxFills,     \* 3 in the code
  Trades        \* the <<quantity, price>> pairs each instrument may draw

VARIABLES
  session, turn,  \* the session and the index of the instrument in Universe
  left,           \* fills of this turn still to be drawn
  numbered,       \* per_instrument_sequence
  fills

source == <<session, turn, left, numbered, fills>>

Init ==
  /\ session = 0 /\ turn = 1 /\ left = 0
  /\ numbered = [x \in {Universe[k] : k \in DOMAIN Universe} |-> 0]
  /\ fills = << >>

Finished == session = NSessions

DrawCount ==
  /\ ~Finished /\ left = 0
  /\ left' \in 1 .. MaxFills
  /\ UNCHANGED <<session, turn, numbered, fills>>

NewFill(x, n, q, price) ==
  [id |-> <<x, n>>, sequence |-> n, instrument |-> x,
   quantity |-> q, price |-> price, session |-> session]

\* Faulty: per_instrument_sequence is set up anew in every session.
EmitNumberingPerSession ==
  /\ left > 0
  /\ LET x == Universe[turn]
         lastOfTurn == left = 1
         lastTurn == turn = Len(Universe)
     IN  /\ numbered' = IF lastOfTurn /\ lastTurn THEN [y \in DOMAIN numbered |-> 0]
                        ELSE [numbered EXCEPT ![x] = @ + 1]
         /\ \E t \in Trades[x] :
              fills' = Append(fills, NewFill(x, numbered[x] + 1, t[1], t[2]))
         /\ turn' = IF lastOfTurn THEN (turn % Len(Universe)) + 1 ELSE turn
         /\ session' = IF lastOfTurn /\ lastTurn THEN session + 1 ELSE session
  /\ left' = left - 1

\* The turn passes on with its last fill, the session with its last turn.
Emit ==
  /\ left > 0
  /\ LET x == Universe[turn]
         lastOfTurn == left = 1
         lastTurn == turn = Len(Universe)
     IN  /\ numbered' = [numbered EXCEPT ![x] = @ + 1]
         /\ \E t \in Trades[x] :
              fills' = Append(fills, NewFill(x, numbered'[x], t[1], t[2]))
         /\ turn' = IF lastOfTurn THEN (turn % Len(Universe)) + 1 ELSE turn
         /\ session' = IF lastOfTurn /\ lastTurn THEN session + 1 ELSE session
  /\ left' = left - 1

Next == DrawCount \/ Emit

-----------------------------------------------------------------------------

\* What a rebuild relies on: keys are unique, an instrument's sequence numbers
\* grow in stream order, and its sessions never go back.
StreamIsCanonical ==
  \A j, k \in DOMAIN fills :
    j < k => /\ fills[j].id # fills[k].id
             /\ fills[j].instrument = fills[k].instrument =>
                  /\ fills[j].sequence < fills[k].sequence
                  /\ fills[j].session <= fills[k].session
=============================================================================
