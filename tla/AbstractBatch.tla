--------------------------- MODULE AbstractBatch ---------------------------
(***************************************************************************)
(* What the bridge promises the functions that call it: a batch is         *)
(* answered as a whole, every request at its own position, or there is an  *)
(* exception and no answer at all.  There is no process, no line and no    *)
(* partial output at this level.                                           *)
(***************************************************************************)
EXTENDS Sequences, Naturals

CONSTANTS
  Answer(_),      \* what the engine makes of one request
  Acceptable(_)   \* the requests it can make something of

VARIABLES
  call,     \* "none", "running", "exited" or "failed"
  asked,    \* the batch
  answers   \* what the caller gets

Init == call = "none" /\ asked = << >> /\ answers = << >>

\* Any batch may be asked for.
Ask ==
  /\ call = "none" /\ call' = "running"
  /\ answers' = << >>

\* A single request that is not acceptable spoils the batch.
Return ==
  /\ call = "running" /\ call' = "exited"
  /\ \A k \in 1 .. Len(asked) : Acceptable(asked[k])
  /\ answers' = [k \in 1 .. Len(asked) |-> Answer(asked[k])]
  /\ UNCHANGED asked

\* At any moment, with a call under way or about to be made.
Raise ==
  /\ call \in {"none", "running"} /\ call' = "failed"
  /\ UNCHANGED <<asked, answers>>

Take ==
  /\ call = "exited" /\ call' = "none"
  /\ UNCHANGED <<asked, answers>>

Next == Ask \/ Return \/ Raise \/ Take

Spec == Init /\ [][Next]_<<call, asked, answers>>
=============================================================================
