------------------------------ MODULE SimBoot ------------------------------
(***************************************************************************)
(* The boots of the simulator: SimControl of app.py, which takes the old   *)
(* containers down and brings new ones up, one StandManager for each boot, *)
(* the robot that stands, moves and falls, and _boot_ready(), which tells  *)
(* the server from two files whether a run may be trusted to the boot.     *)
(***************************************************************************)
EXTENDS StandManager

CONSTANT MaxBoots  \* bound: boots, and calls of restart(), that are explored

ASSUME BootsAssumption == MaxBoots \in Nat \ {0}

VARIABLES
    rs,        \* where restart() is: idle, stop, stand, clear, ctl, passive,
               \* mujoco, manager, wait
    rcOk,      \* rc1 = 0 and rc2 = 0 so far
    told,      \* what it returned: 0 for (False, ...), else the nonce
    restarts,  \* calls so far
    touching,  \* a watcher has seen the passive entry and not yet touched
    opened     \* history: the boots _boot_ready() has been true for

bootVars == <<rs, rcOk, told, restarts, touching>>
vars == <<worldVars, fileVars, mgVars, watched, certified, bootVars, opened>>

mgAndSeen == <<mgVars, watched, certified>>

(* _boot_ready(): the nonce of the boot, 0 when the gate is closed.        *)
BootReady == IF lost \/ stale THEN 0 ELSE ready

SimTypeOK ==
    /\ boot \in Nat /\ posture \in Postures
    /\ sim \in {"off", "running", "paused"}
    /\ ctl \in {"off", "starting", "passive", "pd"}
    /\ passiveFlag \in BOOLEAN /\ ready \in Nat
    /\ stale \in BOOLEAN /\ lost \in BOOLEAN
    /\ rs \in {"idle", "stop", "stand", "clear", "ctl", "passive", "mujoco",
               "manager", "wait"}
    /\ rcOk \in BOOLEAN /\ told \in Nat /\ restarts \in Nat
    /\ touching \in BOOLEAN

Init ==
    /\ boot = 0 /\ sim = "off" /\ ctl = "off" /\ posture = "down"
    /\ passiveFlag = FALSE /\ ready = 0 /\ stale = FALSE /\ lost = FALSE
    /\ mg = "off" /\ seen = "none" /\ seenAge = 0 /\ nonce = 0
    /\ clockGap = 0 /\ held = 0 /\ watched = 0 /\ certified = {}
    /\ rs = "idle" /\ rcOk = TRUE /\ told = 0 /\ restarts = 0
    /\ touching = FALSE /\ opened = {}

-----------------------------------------------------------------------------
(* restart(), up to the flags.                                             *)
RestartBegins ==
    /\ rs = "idle" /\ restarts < MaxBoots
    /\ rs' = "stop" /\ rcOk' = TRUE /\ told' = 0 /\ restarts' = restarts + 1
    /\ UNCHANGED <<worldVars, fileVars, mgAndSeen, touching>>

(* stop(): mujoco and ctl go before the manager, which lives on meanwhile. *)
StopSim ==
    /\ rs = "stop"
    /\ rs' = "stand" /\ sim' = "off" /\ ctl' = "off"
    /\ UNCHANGED <<boot, posture, fileVars, mgAndSeen, rcOk, told, restarts, touching>>

StopManagerForgotten ==  \* mutation: kotoba-stand is not among the containers
    /\ rs = "stand"
    /\ rs' = "clear"
    /\ UNCHANGED <<worldVars, fileVars, mgAndSeen, rcOk, told, restarts, touching>>

StopManager ==
    /\ rs = "stand"
    /\ rs' = "clear" /\ mg' = "off"
    /\ UNCHANGED <<worldVars, fileVars, seen, seenAge, nonce, clockGap, held,
                   watched, certified, rcOk, told, restarts, touching>>

ClearPassiveFlag ==  \* mutation: boot-ready.json is not removed
    /\ rs = "clear"
    /\ rs' = "ctl"
    /\ passiveFlag' = FALSE /\ lost' = FALSE
    /\ UNCHANGED <<worldVars, ready, stale, mgAndSeen, rcOk, told, restarts, touching>>

ClearFlags ==
    /\ rs = "clear"
    /\ rs' = "ctl"
    /\ ready' = 0 /\ stale' = FALSE /\ passiveFlag' = FALSE /\ lost' = FALSE
    /\ UNCHANGED <<worldVars, mgAndSeen, rcOk, told, restarts, touching>>

(* A docker run that fails is only remembered in its return code.          *)
StartCtl ==
    /\ rs = "ctl"
    /\ rs' = "passive"
    /\ \/ ctl' = "starting" /\ UNCHANGED rcOk
       \/ rcOk' = FALSE /\ UNCHANGED ctl
    /\ UNCHANGED <<boot, sim, posture, fileVars, mgAndSeen, told, restarts, touching>>

PassiveSeen ==
    /\ rs = "passive" /\ passiveFlag
    /\ rs' = "mujoco"
    /\ UNCHANGED <<worldVars, fileVars, mgAndSeen, rcOk, told, restarts, touching>>

(* The physics starts, and with it the robot's collapse.                   *)
StartMujoco ==
    /\ rs = "mujoco"
    /\ rs' = "manager"
    /\ \/ sim' = "running" /\ boot' = boot + 1 /\ posture' = "leaning" /\ UNCHANGED rcOk
       \/ rcOk' = FALSE /\ UNCHANGED <<sim, boot, posture>>
    /\ UNCHANGED <<ctl, fileVars, mgAndSeen, told, restarts, touching>>

(* The return code of the manager's docker run is not looked at.           *)
StartManager ==
    /\ rs = "manager"
    /\ rs' = "wait"
    /\ mg' \in {"off", "burst"}
    /\ seen' = "none" /\ seenAge' = 0 /\ nonce' = 0 /\ clockGap' = 0 /\ held' = 0
    /\ watched' = 0
    /\ UNCHANGED <<worldVars, fileVars, certified, rcOk, told, restarts, touching>>

(* The wait looks at boot-ready.json only, not at boot-lost.json.          *)
ReadySeen ==
    /\ rs = "wait" /\ ready # 0
    /\ rs' = "idle"
    /\ told' = IF rcOk THEN ready ELSE 0
    /\ UNCHANGED <<worldVars, fileVars, mgAndSeen, rcOk, restarts, touching>>

(* No network, a wait that is over after 30 s, a docker command that takes *)
(* longer than 60 s, a file that vanishes while it is read.                *)
RestartFails ==
    /\ rs \in {"stop", "stand", "clear", "ctl", "passive", "mujoco", "manager", "wait"}
    /\ rs' = "idle" /\ told' = 0
    /\ UNCHANGED <<worldVars, fileVars, mgAndSeen, rcOk, restarts, touching>>

RestartSteps ==
    \/ StopSim \/ StopManager \/ ClearFlags \/ StartCtl \/ PassiveSeen
    \/ StartMujoco \/ StartManager \/ ReadySeen \/ RestartFails

-----------------------------------------------------------------------------
(* The watcher of docker logs outlives the ctl it followed: it may touch   *)
(* passive-detected after the flag was cleared for the next boot.          *)
CtlEntersPassive ==
    /\ ctl = "starting"
    /\ ctl' = "passive" /\ touching' = TRUE
    /\ UNCHANGED <<boot, sim, posture, fileVars, mgAndSeen, rs, rcOk, told, restarts>>

Touch ==
    /\ touching
    /\ passiveFlag' = TRUE /\ touching' = FALSE
    /\ UNCHANGED <<worldVars, ready, stale, lost, mgAndSeen, rs, rcOk, told, restarts>>

(* Only a controller in pd_stand brings the robot to its feet.             *)
RobotMoves ==
    /\ sim = "running"
    /\ posture' \in Postures \ {posture}
    /\ posture' = "upright" => ctl = "pd"
    /\ UNCHANGED <<boot, sim, ctl, fileVars, mgAndSeen, bootVars>>

SimDies ==
    /\ sim # "off"
    /\ sim' = "off"
    /\ UNCHANGED <<boot, ctl, posture, fileVars, mgAndSeen, bootVars>>

(* SimControl.pause() and resume().                                        *)
Pause ==
    /\ sim = "running"
    /\ sim' = "paused"
    /\ UNCHANGED <<boot, ctl, posture, fileVars, mgAndSeen, bootVars>>

Resume ==
    /\ sim = "paused"
    /\ sim' = "running"
    /\ UNCHANGED <<boot, ctl, posture, fileVars, mgAndSeen, bootVars>>

(* An hour passes without a manager that refreshes verified_at.            *)
GoesStale ==
    /\ mg = "off" /\ ready # 0 /\ ~stale
    /\ stale' = TRUE
    /\ UNCHANGED <<worldVars, passiveFlag, ready, lost, mgAndSeen, bootVars>>

World == CtlEntersPassive \/ Touch \/ RobotMoves \/ SimDies \/ Pause \/ Resume

Manager == ManagerSteps \/ VerifyTimesOut \/ Dies

Step ==
    \/ RestartBegins \/ RestartSteps \/ World \/ GoesStale
    \/ Manager /\ UNCHANGED bootVars

Next == Step /\ opened' = IF BootReady' = 0 THEN opened ELSE opened \cup {BootReady'}

Spec == Init /\ [][Next]_vars

-----------------------------------------------------------------------------
(* The manager and restart() are loops of their own processes that never   *)
(* wait for anyone, and an hour ends.                                      *)
FairSpec ==
    /\ Spec
    /\ WF_vars(ManagerSteps /\ UNCHANGED bootVars /\ Next)
    /\ WF_vars(RestartSteps /\ Next)
    /\ WF_vars(GoesStale /\ Next)

(* The types of the variables of manager, files, simulator and restart().  *)
TypeOK == SimTypeOK /\ MgTypeOK

(* "Old samples and a frozen clock do not verify, and what is outside the  *)
(* window resets the hold" (manager, line 120): a boot is published only   *)
(* if its robot was seen standing, without a gap, for the whole hold.      *)
ReadyWasHeld == ready # 0 => ready = boot /\ ready \in certified

(* restart() answers with the boot it has itself brought up and that was   *)
(* verified, never with one of an earlier call whose manager wrote late.   *)
RestartTellsItsBoot ==
    told # 0 => told = boot /\ told \in certified /\ told \in opened

(* The gate over the two files behaves as BootGate promises: never open    *)
(* for a boot that is gone, never opened again for one that was lost.      *)
Gate == INSTANCE BootGate WITH open <- BootReady, used <- opened

ImplementsGate == Gate!Spec

(* "A fall or an observation that breaks off withdraws ready at once"      *)
(* (manager, line 194): while the robot lies the gate does not stay open.  *)
FallClosesGate ==
    (posture = "down" /\ BootReady # 0) ~> (BootReady = 0 \/ posture # "down")
=============================================================================
