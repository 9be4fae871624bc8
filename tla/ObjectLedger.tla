---------------------------- MODULE ObjectLedger ----------------------------
(***************************************************************************)
(* What the evidence store promises to everybody who keeps a reference: a  *)
(* content-addressed set of objects that only grows, and references that   *)
(* are handed out only for objects the set holds.  "Retry is safe because  *)
(* graph objects are append-only" (local_workspace.py:63).                 *)
(***************************************************************************)
CONSTANT Objects

VARIABLES held, promised

Init == held \in SUBSET Objects /\ promised = {}

Append(S) == held' = held \cup S /\ UNCHANGED promised

Promise(S) == S \subseteq held /\ promised' = promised \cup S /\ UNCHANGED held

Next == \E S \in SUBSET Objects : Append(S) \/ Promise(S)

Spec == Init /\ [][Next]_<<held, promised>>
=============================================================================
