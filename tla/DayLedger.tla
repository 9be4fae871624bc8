----------------------------- MODULE DayLedger -----------------------------
(***************************************************************************)
(* What a research archive promises to somebody who only looks at its      *)
(* receipts: an append-only ledger of days.  A day is promised once, for   *)
(* one request, and never renegotiated; it is settled after every day      *)
(* settled before it, for the promised request, and its entry names the    *)
(* entry it builds on; a caller is told of settled requests only.  Nothing *)
(* is said of processes, files, transactions or crashes: to the ledger     *)
(* they are stuttering steps.  Copies of the ledger may be given away.      *)
(***************************************************************************)
EXTENDS Integers, Sequences

CONSTANTS Days, Requests, None

VARIABLES
  promised, \* the request recorded for each day
  ledger,   \* the settled days in order, each with the entry it builds on
  told,     \* the requests callers were given a receipt for
  copies    \* the copies of the ledger given away

vars == <<promised, ledger, told, copies>>

Entry == [doc : Requests, prev : Requests \cup {None}]
LastEntryDay == IF ledger = <<>> THEN 0 ELSE ledger[Len(ledger)].doc.day
LastEntryDoc == IF ledger = <<>> THEN None ELSE ledger[Len(ledger)].doc

Init ==
  /\ promised = [d \in Days |-> None]
  /\ ledger = <<>>
  /\ told = {} /\ copies = {}

\* A ledger may start from an imported history.
Import ==
  /\ ledger = <<>> /\ \A d \in Days : promised[d] = None
  /\ ledger' \in Seq(Entry)
  /\ UNCHANGED <<promised, told, copies>>

Promise(doc) ==
  /\ promised[doc.day] = None
  /\ promised' = [promised EXCEPT ![doc.day] = doc]
  /\ UNCHANGED <<ledger, told, copies>>

Settle(d) ==
  /\ promised[d] # None
  /\ LastEntryDay < d
  /\ ledger' = Append(ledger, [doc |-> promised[d], prev |-> LastEntryDoc])
  /\ UNCHANGED <<promised, told, copies>>

Tell(doc) ==
  /\ \E i \in 1..Len(ledger) : ledger[i].doc = doc
  /\ told' = told \cup {doc}
  /\ UNCHANGED <<promised, ledger, copies>>

Copy ==
  /\ copies' = copies \cup {ledger}
  /\ UNCHANGED <<promised, ledger, told>>

Next ==
  \/ Import \/ Copy
  \/ \E doc \in Requests : Promise(doc) \/ Tell(doc)
  \/ \E d \in Days : Settle(d)

Spec == Init /\ [][Next]_vars
=============================================================================
