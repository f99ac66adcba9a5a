----------------------------- MODULE MCSimBoot -----------------------------
(* Two boots: the second one meets what the first has left behind.         *)
EXTENDS SimBoot
=============================================================================
