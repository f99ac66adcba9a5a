---------------------------- MODULE MCGameRound ----------------------------
(***************************************************************************)
(* Small instances of GameRound for TLC.                                   *)
(***************************************************************************)
EXTENDS GameRound
=============================================================================
