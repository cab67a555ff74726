--------------------------- MODULE DealReference ---------------------------
(***************************************************************************)
(* What commodity_positions must hold for a given set of accepted deal     *)
(* messages: at each session, the volume its last message gave each deal,  *)
(* added up.  Nothing here walks the messages in any order.                *)
(***************************************************************************)
EXTENDS Integers, FiniteSetsExt, Functions

\* The volume a message leaves its deal with (_fold_last_write_wins).
VolumeSet(m) == IF m.action = "cancel" THEN 0 ELSE m.volume

\* The last word on deal d among the messages ms.
LatestOf(ms, d) ==
  CHOOSE m \in ms : m.id = d /\ \A n \in ms : n.id = d => n.sequence <= m.sequence

NetVolume(ms) ==
  SumFunction([d \in {m.id : m \in ms} |-> VolumeSet(LatestOf(ms, d))])

DealsOf(ms, x) == {m \in ms : m.instrument = x}

SessionRow(x, s, q) == [instrument |-> x, session_id |-> s, quantity |-> q]

\* Every session up to the instrument's own last one has a row.
RebuiltFor(ms, x) ==
  LET own == DealsOf(ms, x)
  IN  {SessionRow(x, s, NetVolume({m \in own : m.session <= s})) :
         s \in 0 .. Max({m.session : m \in own})}

Rebuilt(ms) == UNION {RebuiltFor(ms, x) : x \in {m.instrument : m \in ms}}
=============================================================================
