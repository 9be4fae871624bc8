--------------------------- MODULE MCResearchJob ---------------------------
(***************************************************************************)
(* Small instances of ResearchJob for TLC.                                 *)
(***************************************************************************)
EXTENDS ResearchJob

CONSTANTS v1, r1, i1

\* One imported v1 state: the session of day 1.
OneImport ==
  {<<[doc |-> [day |-> 1, inp |-> i1, ver |-> v1, replay |-> r1], prev |-> None]>>}

\* Every cut of run_day, _recover and export_bundle.
EveryPoint == Points

\* The interruptions that recovery is written for: none between the directory
\* and its request, no kill inside the SQLite commit.
MendableCrash == Points \ {"request", "commit"}
MendableRaise == Points \ {"request"}

\* A single cut, for the runs that show what it leads to.
AtRequest == {"request"}
AtRequestOrCommit == {"request", "commit"}
AtIntent == {"intent"}
AtCommit == {"commit"}

\* Every cut but the one between the intent and self.pending = cutoff.
PendingMarked == Points \ {"mark"}
=============================================================================
