------------------------------- MODULE MCCalls -------------------------------
(***************************************************************************)
(* A small instance of Calls: calls of different INVITEs or of one that    *)
(* was repeated, and one search at a time.                                 *)
(***************************************************************************)
EXTENDS CallsProps, TLC

CONSTANTS call1, call2, invite1, invite2

Symmetry == Permutations({call1, call2}) \cup Permutations({invite1, invite2})
=============================================================================
