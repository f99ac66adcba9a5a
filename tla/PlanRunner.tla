----------------------------- MODULE PlanRunner -----------------------------
(***************************************************************************)
(* kotoba_runner.py: the run of a plan "go to the target".  It checks the  *)
(* boot, waits for a robot that stands, walks until the target is near,    *)
(* lets the robot come to rest, corrects what is left of the distance in   *)
(* slow bursts, puts the robot to stand, watches the tail and scores.      *)
(* It reads an Observation, and a read that is too old ends the run.  A    *)
(* step of the runner reads, sends its frames and takes a tick; packets    *)
(* arrive between two steps.                                               *)
(***************************************************************************)
EXTENDS Observation, Integers

CONSTANTS
    ReadyHold,       \* READY_HOLD_S
    StillConfirm,    \* still_confirm_s
    DecelTimeout,    \* decel_timeout_s
    MaxCorrections   \* MAX_CORRECTIONS

ASSUME PlanAssumption ==
    {ReadyHold, StillConfirm, DecelTimeout, MaxCorrections} \subseteq Nat

VARIABLES
    expect,       \* boot_expect of the manifest, NoBoot for "boot-pending"
    pc,           \* bind, ready, head, loop, burst, release, stand, settle,
                  \* tail, final, ended
    okFor,        \* ReadyGate: now - _ok_since, or None
    triggered,    \* stop_triggered
    stillFor,     \* NormalStopPolicy: now - _still_since, or None
    decelFor,     \* now - decel_started
    prevErr,      \* prev_err, or None
    corrections,
    fallen,       \* FallLatch.fallen
    tailOk,       \* tail_ok
    frame,        \* the last frame sent
    expired,      \* expires_monotonic has passed
    verdict       \* of result.json

runnerVars == <<expect, pc, okFor, triggered, stillFor, decelFor, prevErr, corrections,
                fallen, tailOk, frame, expired, verdict>>

(* What the samples that were read have shown, beside the runner's account.*)
VARIABLES
    stood,    \* samples on end, read in READY_WAIT, of a robot at rest on its feet
    sound,    \* no sample that was judged was of a fallen robot, and none of
              \* the tail of a fast one
    strange   \* one was not wholly of the boot the plan was approved for

seenVars == <<stood, sound, strange>>
vars == <<obsVars, runnerVars, seenVars>>

None == -1

(* Speed 0: at most 0.05 m/s, 1: at most 0.1 m/s.  err 0: within the       *)
(* tolerance of the target, 1: within the trigger distance.                *)
Sample == [posture : {"standing", "off", "fallen"}, speed : 0..2, err : 0..2]

AtRest(s) == s.posture = "standing" /\ s.speed = 0

RunnerTypeOK ==
    /\ expect \in {NoBoot, 1}
    /\ pc \in {"bind", "ready", "head", "loop", "burst", "release", "stand", "settle",
               "tail", "final", "ended"}
    /\ okFor \in None..ReadyHold /\ stillFor \in None..StillConfirm
    /\ triggered \in BOOLEAN /\ decelFor \in 0..DecelTimeout
    /\ prevErr \in None..2 /\ corrections \in 0..MaxCorrections
    /\ fallen \in BOOLEAN /\ tailOk \in BOOLEAN /\ expired \in BOOLEAN
    /\ frame \in {"none", "walk", "stick", "idle", "stand"}
    /\ verdict \in {"none", "PASS", "FAIL", "FAIL_RAISED"}
    /\ stood \in 0..(ReadyHold + 1) /\ sound \in BOOLEAN /\ strange \in BOOLEAN

Init ==
    /\ expect \in {NoBoot, 1} /\ ObsInit(expect)
    /\ pc = "bind" /\ okFor = None /\ triggered = FALSE /\ stillFor = None
    /\ decelFor = 0 /\ prevErr = None /\ corrections = 0 /\ fallen = FALSE
    /\ tailOk = TRUE /\ frame = "none" /\ expired = FALSE /\ verdict = "none"
    /\ stood = 0 /\ sound = TRUE /\ strange = FALSE

-----------------------------------------------------------------------------
(* Every exception ends in the same handler; no frame is sent any more.    *)
Raise ==
    /\ pc' = "ended" /\ verdict' = "FAIL_RAISED"
    /\ UNCHANGED <<expect, okFor, triggered, stillFor, decelFor, prevErr, corrections,
                   tailOk, frame, expired>>

ReadsPose == Latest /\ strange' = (strange \/ boundOf # <<1, 1>>)

Reads(s) ==
    /\ ReadsPose
    /\ sound' = (sound /\ s.posture # "fallen" /\ ~(pc = "tail" /\ s.speed = 2))

(* obs.latest() and the check of the boot; the gateway may refuse.         *)
BindBoot ==
    /\ pc = "bind" /\ Latest
    /\ ObsAges(FALSE) /\ UNCHANGED <<held, fallen, seenVars>>
    /\ \/ Raise
       \/ /\ boundOf[2] = expect
          /\ pc' = "ready"
          /\ UNCHANGED <<expect, okFor, triggered, stillFor, decelFor, prevErr, corrections,
                         tailOk, frame, expired, verdict>>

ReadyFor(s) == IF AtRest(s) THEN okFor + 1 ELSE None

ReadyPass(s) ==
    /\ pc = "ready" /\ Reads(s) /\ s.posture # "fallen"
    /\ okFor' = ReadyFor(s)
    /\ pc' = IF okFor' = ReadyHold THEN "head" ELSE "ready"
    /\ stood' = IF AtRest(s) THEN Least(stood + 1, ReadyHold + 1) ELSE 0
    /\ ObsAges(FALSE)
    /\ UNCHANGED <<held, expect, triggered, stillFor, decelFor, prevErr, corrections, fallen,
                   tailOk, frame, expired, verdict>>

(* The heading and the target from one more read, then ten frames of walk. *)
Head ==
    /\ pc = "head" /\ ~expired /\ ReadsPose
    /\ pc' = "loop" /\ frame' = "walk"
    /\ ObsAges(TRUE)
    /\ UNCHANGED <<held, expect, okFor, triggered, stillFor, decelFor, prevErr, corrections,
                   fallen, tailOk, expired, verdict, stood, sound>>

-----------------------------------------------------------------------------
(* A pass of the loop: walking, or letting the robot come to rest.  The    *)
(* trigger distance grows with the speed.                                  *)
Passes(s) ==
    /\ pc = "loop" /\ ~expired /\ Reads(s) /\ s.posture # "fallen"
    /\ ObsAges(FALSE)
    /\ UNCHANGED <<held, expect, okFor, fallen, tailOk, expired, stood>>

Stick(s) ==
    /\ Passes(s) /\ ~triggered /\ s.err > 1
    /\ frame' = "stick"
    /\ UNCHANGED <<pc, triggered, stillFor, decelFor, prevErr, corrections, verdict>>

Trigger(s) ==
    /\ Passes(s) /\ ~triggered /\ (s.err <= 1 \/ s.speed = 2)
    /\ triggered' = TRUE /\ decelFor' = 0 /\ frame' = "idle"
    /\ UNCHANGED <<pc, stillFor, prevErr, corrections, verdict>>

(* decelerate_done(): _still_since survives a burst, so that after one a   *)
(* single slow sample confirms the standstill.                             *)
StillAfter(s) == IF s.speed = 0 THEN Least(stillFor + 1, StillConfirm) ELSE None

CanAlwaysCorrect(s) ==  \* mutation: no limit
    s.err > 0 /\ (prevErr = None \/ s.err <= prevErr)

CanCorrect(s) ==
    /\ s.err > 0 /\ corrections < MaxCorrections
    /\ prevErr = None \/ s.err <= prevErr

Decelerates(s) ==
    /\ Passes(s) /\ triggered
    /\ frame' = "idle" /\ stillFor' = StillAfter(s)
    /\ UNCHANGED triggered
    /\ \/ /\ stillFor' = StillConfirm /\ CanCorrect(s)
          /\ pc' = "burst" /\ prevErr' = s.err /\ corrections' = corrections + 1
          /\ UNCHANGED <<decelFor, verdict>>
       \/ /\ stillFor' = StillConfirm /\ ~CanCorrect(s)
          /\ pc' = "stand"
          /\ UNCHANGED <<decelFor, prevErr, corrections, verdict>>
       \/ /\ stillFor' # StillConfirm /\ decelFor < DecelTimeout
          /\ decelFor' = decelFor + 1
          /\ UNCHANGED <<pc, prevErr, corrections, verdict>>
       \/ /\ stillFor' # StillConfirm /\ decelFor = DecelTimeout
          /\ pc' = "ended" /\ verdict' = "FAIL_RAISED"
          /\ UNCHANGED <<decelFor, prevErr, corrections>>

(* Eight slow frames of the stick, then four of idle.                      *)
Burst ==
    /\ pc = "burst" /\ ~expired
    /\ pc' = "release" /\ frame' = "stick"
    /\ ObsAges(TRUE)
    /\ UNCHANGED <<held, expect, okFor, triggered, stillFor, decelFor, prevErr, corrections,
                   fallen, tailOk, expired, verdict, seenVars>>

Release ==
    /\ pc = "release" /\ ~expired
    /\ pc' = "loop" /\ frame' = "idle" /\ decelFor' = 0
    /\ ObsAges(FALSE)
    /\ UNCHANGED <<held, expect, okFor, triggered, stillFor, prevErr, corrections, fallen,
                   tailOk, expired, verdict, seenVars>>

(* Ten frames of combo_pd_stand and a second of sleep.                     *)
Stand ==
    /\ pc = "stand" /\ ~expired
    /\ pc' = "settle" /\ frame' = "stand"
    /\ ObsAges(TRUE)
    /\ UNCHANGED <<held, expect, okFor, triggered, stillFor, decelFor, prevErr, corrections,
                   fallen, tailOk, expired, verdict, seenVars>>

-----------------------------------------------------------------------------
(* tail_start_sim is the simulated time of one more read.                  *)
Settle ==
    /\ pc = "settle" /\ ReadsPose
    /\ pc' = "tail" /\ held' = 0 /\ tailOk' = TRUE
    /\ ObsAges(FALSE)
    /\ UNCHANGED <<expect, okFor, triggered, stillFor, decelFor, prevErr, corrections, fallen,
                   frame, expired, verdict, stood, sound>>

(* A tilt of more than 40 degrees spoils the tail, one that is only out of *)
(* the window of the ready gate does not.                                  *)
TailAfter(s) ==
    IF fallen' \/ s.speed = 2 THEN {FALSE}
    ELSE IF s.posture = "off" THEN {tailOk, FALSE} ELSE {tailOk}

TailPass(s) ==
    /\ pc = "tail" /\ Reads(s)
    /\ fallen' = (fallen \/ s.posture = "fallen")
    /\ tailOk' \in TailAfter(s)
    /\ pc' = IF held = TailHold THEN "final" ELSE "tail"
    /\ ObsAges(FALSE)
    /\ UNCHANGED <<held, expect, okFor, triggered, stillFor, decelFor, prevErr, corrections,
                   frame, expired, verdict, stood>>

(* Scorer.verdict() on a last sample.                                      *)
Score(s) ==
    /\ pc = "final" /\ Reads(s)
    /\ pc' = "ended"
    /\ verdict' = IF ~fallen /\ tailOk /\ AtRest(s) /\ s.err = 0 THEN "PASS" ELSE "FAIL"
    /\ ObsAges(FALSE)
    /\ UNCHANGED <<held, expect, okFor, triggered, stillFor, decelFor, prevErr, corrections,
                   fallen, tailOk, frame, expired, stood>>

-----------------------------------------------------------------------------
(* The exceptions: a read that is too old, a fall before or in the walk, a *)
(* frame after the expiry, and the deadlines of 15 s and 40 s.  When the   *)
(* 40 s are over before the stop was triggered, WALK -> TAIL is illegal.   *)
ReadFailsBeforeTail ==  \* mutation: the tail tries again, as the bind does
    pc \in {"ready", "head", "loop", "settle", "final"} /\ ~Latest
ReadFails == pc \in {"ready", "head", "loop", "settle", "tail", "final"} /\ ~Latest
SendFails == pc \in {"head", "loop", "burst", "release", "stand"} /\ expired
TimesOut == pc \in {"ready", "loop"} \/ (pc = "bind" /\ ~Latest)

RunnerRaises ==
    /\ ReadFails \/ SendFails \/ TimesOut
    /\ Raise
    /\ ObsAges(FALSE) /\ UNCHANGED <<held, fallen, seenVars>>

FallSeen ==
    /\ pc \in {"ready", "loop"}
    /\ \E s \in Sample : s.posture = "fallen" /\ Reads(s)
    /\ fallen' = TRUE /\ Raise
    /\ ObsAges(FALSE) /\ UNCHANGED <<held, stood>>

(* A pause between two tries of a bind that has not succeeded.             *)
BindWaits ==
    /\ pc = "bind" /\ ~Latest
    /\ ObsAges(FALSE) /\ UNCHANGED <<held, runnerVars, seenVars>>

Expires ==
    /\ pc # "ended" /\ ~expired
    /\ expired' = TRUE
    /\ UNCHANGED <<obsVars, expect, pc, okFor, triggered, stillFor, decelFor, prevErr,
                   corrections, fallen, tailOk, frame, verdict, seenVars>>

RunnerSteps ==
    \/ BindBoot \/ Head \/ Burst \/ Release \/ Stand \/ Settle
    \/ RunnerRaises \/ FallSeen
    \/ \E s \in Sample : \/ ReadyPass(s) \/ Stick(s) \/ Trigger(s) \/ Decelerates(s)
                         \/ TailPass(s) \/ Score(s)

ObserverSteps == pc # "ended" /\ ObsSteps /\ UNCHANGED <<runnerVars, seenVars>>

Next == RunnerSteps \/ BindWaits \/ Expires \/ ObserverSteps

Spec == Init /\ [][Next]_vars

(* The thread of the runner goes on, and its deadlines pass.               *)
FairSpec == Spec /\ WF_vars(RunnerSteps) /\ WF_vars(RunnerRaises)

-----------------------------------------------------------------------------
(* The types of the variables of observer and runner.                      *)
TypeOK == ObsTypeOK /\ RunnerTypeOK

(* "PASS only with ready, no fall, the tail, the target and the posture"   *)
(* (trial.py, lines 155-187), on observations of one boot, the approved    *)
(* one ("a runner stays with the boot approved", runner, line 82), whatever*)
(* was lost, late, repeated or restarted: the robot stood for the whole    *)
(* ready hold, was put to stand, and its tail was watched for TAIL_HOLD_S  *)
(* of simulated time without a bad sample.                                 *)
PlanPassIsEarned ==
    verdict = "PASS" =>
        /\ stood = ReadyHold + 1
        /\ frame = "stand"
        /\ held = TailHold /\ sound
        /\ ~strange

(* The run ends, also when nothing arrives any more or time stands still.  *)
PlanEnds == <>(pc = "ended")
=============================================================================
