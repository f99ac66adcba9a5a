---------------------------- MODULE MCStepsRunner ----------------------------
(***************************************************************************)
(* Small instances of StepsRunner for TLC.                                 *)
(***************************************************************************)
EXTENDS StepsRunner

(* Two finite steps of different kinds, and a jog.                         *)
MCPrograms == {<<"translate", "turn">>, <<"jog">>}
=============================================================================
