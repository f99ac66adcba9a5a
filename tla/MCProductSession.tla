-------------------------- MODULE MCProductSession --------------------------
(***************************************************************************)
(* Small instances of ProductSession for TLC.                              *)
(***************************************************************************)
EXTENDS ProductSession, TLC

(* Sessions, plans and runs are only compared for equality.                *)
Symmetry == Permutations(Session) \cup Permutations(Plan) \cup Permutations(Run)
=============================================================================
