-------------------------- MODULE MCEvidenceStore --------------------------
EXTENDS EvidenceStore, TLC

CONSTANTS plain, linked, shared

(* The second report shares the first one's node and an extracted one.      *)
SharedNodes == (plain :> {}) @@ (linked :> {plain, shared}) @@ (shared :> {})
AllNodes == (plain :> {plain}) @@ (linked :> {plain, linked, shared}) @@ (shared :> {shared})
OneReport == {{plain}, {linked}}
=============================================================================
