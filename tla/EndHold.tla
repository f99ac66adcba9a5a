------------------------------- MODULE EndHold -------------------------------
(***************************************************************************)
(* _verify_end_hold() of kotoba_game_controller.py, which every runner     *)
(* calls at its end: the robot first has to come to rest, and then to      *)
(* stand, on its spot, for END_HOLD_S of simulated time, without a gap in  *)
(* what is observed.  Heights, tilts and distances are left out: a sample  *)
(* is within the limits of its stage or it is not.                         *)
(***************************************************************************)
EXTENDS Integers

CONSTANTS
    Window,        \* END_SETTLE_WIN_S, in units of simulated time
    StableFor,     \* END_SETTLE_STABLE_S
    HoldFor,       \* END_HOLD_S
    SettleBudget,  \* END_SETTLE_S, in passes of the loop
    HoldBudget     \* END_HOLD_S * 4

ASSUME HoldAssumption ==
    {Window, StableFor, HoldFor, SettleBudget, HoldBudget} \subseteq Nat \ {0}

VARIABLES
    fallen,    \* FallLatch.fallen
    endStage,  \* off, settle, hold, and the result: verified or not
    window,    \* the time the window of positions covers
    stable,    \* sim_t - stable_since
    held,      \* sim_t - hold_start_sim
    gap,       \* an observation is missing
    budget,    \* passes to the deadline of the stage
    watched    \* history: simulated time within the limits and without a gap

holdVars == <<endStage, window, stable, held, gap, budget, watched>>

None == -1
Since(age, d) == IF age = None THEN 0 ELSE age + d

HoldTypeOK ==
    /\ fallen \in BOOLEAN
    /\ endStage \in {"off", "settle", "hold", "verified", "refused"}
    /\ window \in None..Window
    /\ stable \in None..StableFor
    /\ held \in 0..HoldFor
    /\ gap \in BOOLEAN
    /\ budget \in 0..(SettleBudget + HoldBudget)
    /\ watched \in None..HoldFor

HoldInit ==
    /\ fallen = FALSE /\ endStage = "off"
    /\ window = None /\ stable = None /\ held = 0 /\ gap = FALSE
    /\ budget = 0 /\ watched = None

EndHoldBegins ==
    /\ endStage' = "settle" /\ budget' = SettleBudget
    /\ UNCHANGED <<window, stable, held, gap, watched>>

(* The deadline of the stage: not settled, or observed too little.         *)
EndHoldTimeout ==
    /\ endStage \in {"settle", "hold"} /\ budget = 0
    /\ endStage' = "refused"
    /\ UNCHANGED <<fallen, window, stable, held, gap, budget, watched>>

-----------------------------------------------------------------------------
(* The sample is within the limits, its window is full, no fall was seen.  *)
Settled(d) ==
    /\ ~fallen' /\ Since(window, d) >= Window
    /\ IF Since(stable, d) >= StableFor
         THEN /\ endStage' = "hold" /\ stable' = None /\ held' = 0
              /\ gap' = FALSE /\ watched' = 0 /\ budget' = HoldBudget
         ELSE /\ stable' = Since(stable, d) /\ budget' = budget - 1
              /\ UNCHANGED <<endStage, held, gap, watched>>

Unsettled ==
    /\ stable' = None /\ budget' = budget - 1
    /\ UNCHANGED <<endStage, held, gap, watched>>

SettleSample(d) ==
    /\ endStage = "settle" /\ budget > 0
    /\ window' = IF Since(window, d) < Window THEN Since(window, d) ELSE Window
    /\ fallen' \in {fallen, TRUE}
    /\ Settled(d) \/ Unsettled

SettleGap ==
    /\ endStage = "settle" /\ budget > 0
    /\ stable' = None /\ window' = None /\ budget' = budget - 1
    /\ UNCHANGED <<fallen, endStage, held, gap, watched>>

-----------------------------------------------------------------------------
(* The first sample after a gap starts the hold anew.                      *)
HeldAcrossGap(d) == held + d  \* mutation: the gap counts
HeldTo(d) == IF gap THEN 0 ELSE held + d

Held(d) ==
    /\ ~fallen /\ UNCHANGED fallen
    /\ held' = IF HeldTo(d) < HoldFor THEN HeldTo(d) ELSE HoldFor
    /\ endStage' = IF HeldTo(d) >= HoldFor THEN "verified" ELSE "hold"
    /\ watched' = IF Since(watched, d) < HoldFor THEN Since(watched, d) ELSE HoldFor

(* Fallen, too low, too tilted or moved away.                              *)
Broken ==
    /\ fallen' \in {fallen, TRUE}
    /\ endStage' = "refused" /\ watched' = None
    /\ UNCHANGED held

HoldSample(d) ==
    /\ endStage = "hold" /\ budget > 0
    /\ Held(d) \/ Broken
    /\ gap' = FALSE /\ budget' = budget - 1
    /\ UNCHANGED <<window, stable>>

HoldGap ==
    /\ endStage = "hold" /\ budget > 0
    /\ gap' = TRUE /\ watched' = None /\ budget' = budget - 1
    /\ UNCHANGED <<fallen, endStage, window, stable, held>>

(* Between two samples simulated time may stand still.                     *)
EndHoldStep ==
    \/ \E d \in {0, 1} : SettleSample(d) \/ HoldSample(d)
    \/ SettleGap \/ HoldGap \/ EndHoldTimeout
=============================================================================
