--------------------------- MODULE SessionLedger ---------------------------
(***************************************************************************)
(* What a store of sealed sessions promises: sessions are sealed in the    *)
(* order of their days, and what is sealed is never changed or withdrawn.  *)
(***************************************************************************)
EXTENDS Naturals

CONSTANT SessionDays    \* the days of sessions, a set of numbers

VARIABLE sealed         \* partial function: the content of each sealed day

Init == DOMAIN sealed = {}

Seal(d) ==
    /\ \A e \in DOMAIN sealed : e < d /\ sealed'[e] = sealed[e]
    /\ DOMAIN sealed' = DOMAIN sealed \cup {d}

Next == \E d \in SessionDays : Seal(d)

Spec == Init /\ [][Next]_sealed
=============================================================================
