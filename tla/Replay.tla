------------------------------- MODULE Replay -------------------------------
(***************************************************************************)
(* perturb_stream (pipeline/replay.py, and commodity_replay.py for deals): *)
(* duplicate a fixed share of a stream's messages in place, then shuffle   *)
(* the result window by window.  The seeded generator's draws are choices. *)
(***************************************************************************)
EXTENDS Integers, SequencesExt

CONSTANTS
  DupPercent,  \* dup_fraction, in percent
  Window       \* the shuffle window

VARIABLES
  canonical,   \* the stream to perturb
  dupIndices,  \* the indices drawn for duplication
  withDups,    \* the working list
  copied,      \* messages of canonical already copied into it
  perturbed,   \* the shuffled windows so far
  phase        \* "waiting", "copy", "shuffle", "perturbed"

replay == <<canonical, dupIndices, withDups, copied, perturbed, phase>>

\* Python's round(n * DupPercent / 100): ties go to the even neighbour.
RoundedShare(n) ==
  LET scaled == n * DupPercent
      down == scaled \div 100
      rest == scaled % 100
  IN  IF 2 * rest > 100 \/ (2 * rest = 100 /\ down % 2 = 1) THEN down + 1 ELSE down

Init ==
  /\ canonical = << >> /\ dupIndices = {}
  /\ withDups = << >> /\ copied = 0 /\ perturbed = << >>
  /\ phase = "waiting"

\* rng.sample: any set of RoundedShare(n) distinct indices.
Start(list) ==
  /\ phase = "waiting"
  /\ canonical' = list
  /\ dupIndices' \in {d \in SUBSET DOMAIN list : Cardinality(d) = RoundedShare(Len(list))}
  /\ phase' = "copy"
  /\ UNCHANGED <<withDups, copied, perturbed>>

\* Faulty: the index is one behind the message.
CopyOffByOne ==
  /\ phase = "copy" /\ copied < Len(canonical)
  /\ LET m == canonical[copied + 1]
     IN  withDups' = withDups \o (IF copied \in dupIndices THEN <<m, m>> ELSE <<m>>)
  /\ copied' = copied + 1
  /\ phase' = IF copied' = Len(canonical) THEN "shuffle" ELSE "copy"
  /\ UNCHANGED <<canonical, dupIndices, perturbed>>

Copy ==
  /\ phase = "copy" /\ copied < Len(canonical)
  /\ LET m == canonical[copied + 1]
     IN  withDups' = withDups \o (IF copied + 1 \in dupIndices THEN <<m, m>> ELSE <<m>>)
  /\ copied' = copied + 1
  /\ phase' = IF copied' = Len(canonical) THEN "shuffle" ELSE "copy"
  /\ UNCHANGED <<canonical, dupIndices, perturbed>>

\* Faulty: the block does not end with the window.
ShuffleRest ==
  /\ phase = "shuffle" /\ Len(perturbed) < Len(withDups)
  /\ LET block == SubSeq(withDups, Len(perturbed) + 1, Len(withDups))
     IN  \E order \in SetToSeqs(DOMAIN block) :
           perturbed' = perturbed \o [k \in DOMAIN block |-> block[order[k]]]
  /\ phase' = "perturbed"
  /\ UNCHANGED <<canonical, dupIndices, withDups, copied>>

\* The window that starts where perturbed ends, in any order.
Shuffle ==
  /\ phase = "shuffle" /\ Len(perturbed) < Len(withDups)
  /\ LET start == Len(perturbed)
         block == SubSeq(withDups, start + 1, Min({start + Window, Len(withDups)}))
     IN  \E order \in SetToSeqs(DOMAIN block) :
           perturbed' = perturbed \o [k \in DOMAIN block |-> block[order[k]]]
  /\ phase' = IF Len(perturbed') = Len(withDups) THEN "perturbed" ELSE "shuffle"
  /\ UNCHANGED <<canonical, dupIndices, withDups, copied>>

Next == Copy \/ Shuffle

-----------------------------------------------------------------------------

Positions(list, m) == {k \in DOMAIN list : list[k] = m}

Copies(list, m) == Cardinality(Positions(list, m))

\* Nothing is invented or dropped: every message occurs once or twice, and no
\* number of second copies is nearer to the requested share of the stream.
MultisetPreserved ==
  phase = "perturbed" =>
    /\ Range(perturbed) = Range(canonical)
    /\ \A m \in Range(canonical) : Copies(perturbed, m) \in 1 .. 2
    /\ 100 * (Len(perturbed) - Len(canonical)) - DupPercent * Len(canonical) \in -50 .. 50

\* Reordering is bounded: a message sent at least Window places after another
\* one is never delivered before it, whichever copies are compared.
OvertakingIsBounded ==
  phase = "perturbed" =>
    \A j, k \in DOMAIN canonical :
      k - j >= Window =>
        \A a \in Positions(perturbed, canonical[j]) :
          \A b \in Positions(perturbed, canonical[k]) : a < b
=============================================================================
