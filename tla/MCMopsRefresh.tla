--------------------------- MODULE MCMopsRefresh ---------------------------
(***************************************************************************)
(* Small instances of MopsRefresh for TLC.                                 *)
(***************************************************************************)
EXTENDS MopsRefresh

CONSTANTS s1, s2

TwoIssuers == <<s1, s2>>
=============================================================================
