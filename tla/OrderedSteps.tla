---------------------------- MODULE OrderedSteps ----------------------------
(***************************************************************************)
(* What the executor of motion.py promises of a list of steps (its         *)
(* docstring, lines 3-5): the steps are driven one after the other, each   *)
(* in a bounded number of bursts; after every burst the robot is watched   *)
(* at rest before it is driven again, for this step or for the next; and   *)
(* a step that fails is the last one.                                      *)
(***************************************************************************)
EXTENDS Naturals

CONSTANT MaxBursts

VARIABLES total, step, stage, bursts

orderVars == <<total, step, stage, bursts>>

Init ==
    /\ total \in Nat \ {0}
    /\ step = 1 /\ stage = "waiting" /\ bursts = 0

Drive ==
    /\ stage = "waiting"
    /\ stage' = "driving" /\ bursts' = 1
    /\ UNCHANGED <<total, step>>

Release ==
    /\ stage = "driving"
    /\ stage' = "resting"
    /\ UNCHANGED <<total, step, bursts>>

DriveAgain ==
    /\ stage = "resting" /\ bursts < MaxBursts
    /\ stage' = "driving" /\ bursts' = bursts + 1
    /\ UNCHANGED <<total, step>>

NextStep ==
    /\ stage = "resting" /\ step < total
    /\ stage' = "waiting" /\ step' = step + 1 /\ bursts' = 0
    /\ UNCHANGED total

Finish ==
    /\ stage = "resting" /\ step = total
    /\ stage' = "done" /\ bursts' = 0
    /\ UNCHANGED <<total, step>>

Fail ==
    /\ stage \notin {"done", "failed"}
    /\ stage' = "failed" /\ bursts' = 0
    /\ UNCHANGED <<total, step>>

Next == Drive \/ Release \/ DriveAgain \/ NextStep \/ Finish \/ Fail

Spec == Init /\ [][Next]_orderVars
=============================================================================
