--------------------------- MODULE MCFilingStore ---------------------------
(***************************************************************************)
(* Small instances of FilingStore for TLC.                                 *)
(***************************************************************************)
EXTENDS FilingStore, TLC

Symmetry == Permutations(Periods) \cup Permutations(Docs)
=============================================================================
