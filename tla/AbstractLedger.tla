--------------------------- MODULE AbstractLedger ---------------------------
(***************************************************************************)
(* What a ledger promises its callers: a set of accepted messages that     *)
(* only grows, and published positions that are, at every moment, some     *)
(* earlier accepted set pushed through one fixed function.  There is no    *)
(* arrival order, no duplicate, no transaction and no crash at this level. *)
(***************************************************************************)
CONSTANTS
  Messages,
  Rebuilt(_)   \* the positions that a set of accepted messages stands for

VARIABLES
  ledger,      \* the accepted messages
  published    \* the positions a reader sees

Init == ledger = {} /\ published = {}

\* A delivered batch becomes visible as a whole.
Deliver ==
  /\ \E batch \in SUBSET Messages : ledger' = ledger \cup batch
  /\ UNCHANGED published

\* A rebuild becomes visible as a whole.
Publish ==
  /\ published' = Rebuilt(ledger)
  /\ UNCHANGED ledger

Next == Deliver \/ Publish

Spec == Init /\ [][Next]_<<ledger, published>>
=============================================================================
