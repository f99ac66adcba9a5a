---------------------------- MODULE StandManager ----------------------------
(***************************************************************************)
(* kotoba_stand_manager.py: the process that brings a boot to its feet and *)
(* watches it afterwards.  It holds the buttons of pd_stand for a while,   *)
(* verifies from the packets it receives that the robot stands, publishes  *)
(* boot-ready.json, and withdraws it when the robot falls or the clock     *)
(* stops.  A pass of its loops is one call of handle_timeout; time is      *)
(* counted in passes.                                                      *)
(***************************************************************************)
EXTENDS Naturals

CONSTANTS
    Hold,         \* passes the robot is seen standing before it is ready (5 s)
    Fresh,        \* passes a sample is fresh (0.2 s)
    Stall,        \* passes without progress of the clock that are forgiven (1 s)
    MaxApart,     \* passes one stream may fail while the other one arrives
    StreamsSplit  \* the stream of states may fail alone, for any time

ASSUME ManagerAssumption ==
    /\ Hold \in Nat \ {0} /\ Fresh \in Nat /\ Stall \in Nat
    /\ MaxApart \in Nat /\ StreamsSplit \in BOOLEAN

VARIABLES
    boot,         \* nonce of the simulator that is up, or was the last one
    sim,          \* container kotoba-mujoco: off, running, paused
    ctl,          \* container kotoba-ctl: off, starting, passive, pd
    posture,      \* of the robot: down, leaning (or moving), upright
    passiveFlag,  \* passive-detected exists
    ready,        \* boot_nonce of boot-ready.json, 0 when there is none
    stale,        \* its verified_at is older than an hour
    lost          \* boot-lost.json exists

fileVars == <<passiveFlag, ready, stale, lost>>
worldVars == <<boot, sim, ctl, posture>>

VARIABLES
    mg,        \* the manager: off, burst, verify, verified, monitor, losing
    seen,      \* posture in samples[-1], none before the first
    seenAge,   \* passes since it was received
    nonce,     \* clock_nonce, 0 before the first clock packet
    clockGap,  \* passes since clock_sim_t changed
    held       \* passes in the window without a break, since stand_since

mgVars == <<mg, seen, seenAge, nonce, clockGap, held>>

(* What was really seen, beside the manager's own account of it.           *)
VARIABLES
    watched,   \* passes on end with a fresh sample of an upright robot
    certified  \* the boots in which that went on for Hold passes

Postures == {"down", "leaning", "upright"}
SeenCap == Fresh + MaxApart + 1

MgTypeOK ==
    /\ mg \in {"off", "burst", "verify", "verified", "monitor", "losing"}
    /\ seen \in Postures \cup {"none"} /\ seenAge \in 0..SeenCap
    /\ nonce \in Nat /\ clockGap \in 0..(Stall + 1) /\ held \in 0..Hold

Capped(n, cap) == IF n < cap THEN n + 1 ELSE cap

-----------------------------------------------------------------------------
(* What one call of handle_timeout brings: a sample, a clock whose time    *)
(* has moved on, both, or nothing.  Both come from one process; unless     *)
(* StreamsSplit, a clock does not go on arriving without samples.          *)
Receives(s, c) ==
    /\ s \/ c => sim = "running"
    /\ c /\ ~s /\ ~StreamsSplit => seenAge < MaxApart
    /\ seen' = IF s THEN posture ELSE seen
    /\ seenAge' = IF s THEN 0 ELSE Capped(seenAge, SeenCap)
    /\ nonce' = IF c THEN boot ELSE nonce
    /\ clockGap' = IF c THEN 0 ELSE Capped(clockGap, Stall + 1)

SeesUpright == seen' = "upright" /\ seenAge' <= Fresh

Witnesses ==
    /\ watched' = IF SeesUpright THEN Capped(watched, Hold) ELSE 0
    /\ certified' = IF watched' = Hold THEN certified \cup {boot} ELSE certified

Stalled == nonce' # 0 /\ clockGap' > Stall
InWindow == SeesUpright /\ nonce' # 0

-----------------------------------------------------------------------------
(* The passive flag is there before the manager is started.  The buttons   *)
(* only take a controller that is passive to pd_stand.                     *)
Burst ==
    /\ mg = "burst" /\ passiveFlag
    /\ mg' = "verify"
    /\ ctl' = IF ctl = "passive" THEN "pd" ELSE ctl
    /\ UNCHANGED <<boot, sim, posture, fileVars, seen, seenAge, nonce, clockGap,
                   held, watched, certified>>

HeldAfterKeeps == IF InWindow THEN held + 1 ELSE held  \* mutation: no reset
HeldAfter == IF InWindow THEN held + 1 ELSE 0

(* A pass of the verification: CLOCK_STALLED ends the process, a complete  *)
(* hold ends the loop.                                                     *)
VerifyPass(s, c) ==
    /\ mg = "verify"
    /\ Receives(s, c) /\ Witnesses
    /\ held' = HeldAfter
    /\ mg' = IF seen' # "none" /\ Stalled THEN "off"
             ELSE IF HeldAfter = Hold THEN "verified" ELSE "verify"
    /\ UNCHANGED <<worldVars, fileVars>>

Publish ==
    /\ mg = "verified"
    /\ mg' = "monitor" /\ clockGap' = 0
    /\ ready' = nonce /\ stale' = FALSE
    /\ UNCHANGED <<worldVars, passiveFlag, lost, seen, seenAge, nonce, held,
                   watched, certified>>

(* STAND_VERIFY_TIMEOUT after 25 s.                                        *)
VerifyTimesOut ==
    /\ mg = "verify"
    /\ mg' = "off"
    /\ UNCHANGED <<worldVars, fileVars, seen, seenAge, nonce, clockGap, held,
                   watched, certified>>

(* What the monitor takes for the loss of the boot: last_recv is set only  *)
(* where the clock has moved on, so that observation_gap is a clock that   *)
(* stands, sim_clock_stalled is never reached, and the age of the sample   *)
(* is not asked.                                                           *)
BootIsLostUnlessMoving ==  \* mutation: a clock that moves on comes first
    clockGap' > Stall \/ (clockGap' # 0 /\ seen' = "down")
BootIsLost == clockGap' > Stall \/ seen' = "down"

(* Every 30 s of progress the file is written again; a loss first removes  *)
(* it and then writes boot-lost.json.                                      *)
MonitorPass(s, c) ==
    /\ mg = "monitor"
    /\ Receives(s, c)
    /\ IF BootIsLost
       THEN mg' = "losing" /\ ready' = 0 /\ UNCHANGED <<passiveFlag, stale, lost>>
       ELSE /\ mg' = mg
            /\ \/ clockGap' = 0 /\ ready' = nonce' /\ stale' = FALSE
               \/ UNCHANGED <<ready, stale>>
            /\ UNCHANGED <<passiveFlag, lost>>
    /\ UNCHANGED <<worldVars, held, watched, certified>>

WriteLost ==
    /\ mg = "losing"
    /\ mg' = "off" /\ lost' = TRUE
    /\ UNCHANGED <<worldVars, passiveFlag, ready, stale, seen, seenAge, nonce,
                   clockGap, held, watched, certified>>

Dies ==
    /\ mg # "off"
    /\ mg' = "off"
    /\ UNCHANGED <<worldVars, fileVars, seen, seenAge, nonce, clockGap, held,
                   watched, certified>>

ManagerSteps ==
    \/ Burst \/ Publish \/ WriteLost
    \/ \E s, c \in BOOLEAN : VerifyPass(s, c) \/ MonitorPass(s, c)

=============================================================================
