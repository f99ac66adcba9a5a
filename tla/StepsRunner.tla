----------------------------- MODULE StepsRunner -----------------------------
(***************************************************************************)
(* kotoba_steps_runner.py: a run of the ordinary mode.  It makes the robot *)
(* ready, ticks the MotionExecutor over the steps of the plan, listens     *)
(* during a jog to the operator, and ends with the robot put to stand.     *)
(* A pass of its loop is two steps, what is read (Poll) and what is sent   *)
(* (Drive): the manifest may expire between them.                          *)
(***************************************************************************)
EXTENDS MotionExecutor, EndHold

CONSTANTS
    ObsLostAbort,   \* OBS_LOST_ABORT_S, in passes
    HbGrace         \* HB_GRACE_S, in passes

ASSUME RunnerAssumption ==
    ObsLostAbort \in Nat /\ HbGrace \in Nat /\ HbGrace < JogDeadline

VARIABLES
    pc,         \* setup, poll, drive, idle, stand, hold, verdict, ended
    missed,     \* passes without an observation: t0 - obs_dead_since
    shutdown,   \* shutdown_reason
    stopFile,   \* run_cmd.json holds a stop for this run
    expired,    \* expires_monotonic has passed
    stood,      \* the frames of combo_pd_stand were all sent
    verdict     \* of result.json

runVars == <<pc, missed, shutdown, stopFile, expired, stood, verdict>>
vars == <<exVars, fallen, holdVars, runVars>>

Verdict == {"none", "PASS", "UNKNOWN_END_HOLD", "FAIL_FALLEN", "FAIL_STEPS",
            "FAIL_RAISED"}

RunTypeOK ==
    /\ pc \in {"setup", "poll", "drive", "idle", "stand", "hold", "verdict", "ended"}
    /\ missed \in 0..(ObsLostAbort + 1)
    /\ shutdown \in {"none", "obs_lost", "fallen"}
    /\ stopFile \in BOOLEAN /\ expired \in BOOLEAN /\ stood \in BOOLEAN
    /\ verdict \in Verdict

Init ==
    /\ ExInit /\ HoldInit
    /\ pc = "setup" /\ missed = 0 /\ shutdown = "none"
    /\ stopFile = FALSE /\ expired = FALSE /\ stood = FALSE
    /\ verdict = "none"

(* An exception leaves main() with no more than a reason.                  *)
Raises ==
    /\ pc' = "ended" /\ verdict' = "FAIL_RAISED"
    /\ UNCHANGED <<shutdown, stopFile, expired, stood, holdVars>>

(* Observation and boot, gateway, ready gate, walk mode; then begin().     *)
Setup ==
    /\ pc = "setup"
    /\ \/ Raises /\ fallen' \in BOOLEAN /\ UNCHANGED <<exVars, missed>>
       \/ /\ ~expired
          /\ Begin
          /\ pc' = "poll"
          /\ UNCHANGED <<fallen, holdVars, missed, shutdown, stopFile, expired, stood,
                         verdict>>

-----------------------------------------------------------------------------
Leaves(why) == pc' = "idle" /\ shutdown' = why

(* obs.latest() raises: nothing is sent and the executor is not ticked.    *)
ObsGone ==
    /\ pc = "poll"
    /\ missed' = missed + 1
    /\ IF missed' > ObsLostAbort THEN Leaves("obs_lost")
                                 ELSE UNCHANGED <<pc, shutdown>>
    /\ UNCHANGED <<exVars, fallen, holdVars, stopFile, expired, stood, verdict>>

Falls ==
    /\ pc = "poll"
    /\ fallen' = TRUE
    /\ Leaves("fallen")
    /\ UNCHANGED <<exVars, holdVars, missed, stopFile, expired, stood, verdict>>

(* A stop on file, or a heartbeat missed after its grace, ends a jog.      *)
HeartbeatMayBeLost == IsJog /\ Elapsed(missed + 1) > HbGrace

Poll ==
    /\ pc = "poll"
    /\ \/ IsJog /\ stopFile /\ RequestStop("stop")
       \/ HeartbeatMayBeLost /\ ~stopFile /\ RequestStop("heartbeat_lost")
       \/ ~(IsJog /\ stopFile) /\ UNCHANGED exVars
    /\ pc' = "drive"
    /\ UNCHANGED <<fallen, holdVars, missed, shutdown, stopFile, expired, stood,
                   verdict>>

(* tick() at the present time: the passes without an observation count.    *)
(* Then the frame that results: the gateway refuses an expired one, so     *)
(* that the branch "manifest_expired" after it is never reached.           *)
Drive ==
    /\ pc = "drive"
    /\ Tick(missed + 1)
    /\ missed' = 0
    /\ UNCHANGED fallen
    /\ \/ expired /\ Raises
       \/ /\ ~expired
          /\ pc' = IF phase' \in Over THEN "idle" ELSE "poll"
          /\ UNCHANGED <<holdVars, shutdown, stopFile, expired, stood, verdict>>

-----------------------------------------------------------------------------
(* The end: idle, combo_pd_stand, the verified hold, the verdict.          *)
CleanUnlessShutdown == shutdown = "none"  \* mutation: ex.failed is not asked
CleanEnd == phase = "completed" /\ shutdown = "none"

FinalIdle ==
    /\ pc = "idle"
    /\ pc' = "stand"
    /\ UNCHANGED <<exVars, fallen, holdVars, missed, shutdown, stopFile, expired,
                   stood, verdict>>

(* A clean end that may no longer send is not verified; a failed one is,   *)
(* whether the attempt to stand succeeded or not.                          *)
FinalStand ==
    /\ pc = "stand"
    /\ stood' = ~expired
    /\ IF CleanEnd /\ expired THEN pc' = "verdict" /\ UNCHANGED holdVars
                              ELSE pc' = "hold" /\ EndHoldBegins
    /\ UNCHANGED <<exVars, fallen, missed, shutdown, stopFile, expired, verdict>>

FinalHold ==
    /\ pc = "hold"
    /\ EndHoldStep
    /\ pc' = IF endStage' \in {"verified", "refused"} THEN "verdict" ELSE "hold"
    /\ UNCHANGED <<exVars, missed, shutdown, stopFile, expired, stood, verdict>>

FinalVerdict ==
    /\ pc = "verdict"
    /\ pc' = "ended"
    /\ verdict' = IF fallen THEN "FAIL_FALLEN"
                  ELSE IF ~(CleanEnd /\ stood) THEN "FAIL_STEPS"
                  ELSE IF endStage = "verified" THEN "PASS"
                  ELSE "UNKNOWN_END_HOLD"
    /\ UNCHANGED <<exVars, fallen, holdVars, missed, shutdown, stopFile, expired,
                   stood>>

-----------------------------------------------------------------------------
(* POST /api/run/command, and the time that passes.                        *)
StopArrives ==
    /\ pc # "ended" /\ ~stopFile
    /\ stopFile' = TRUE
    /\ UNCHANGED <<exVars, fallen, holdVars, pc, missed, shutdown, expired, stood,
                   verdict>>

Expires ==
    /\ pc # "ended" /\ ~expired
    /\ expired' = TRUE
    /\ UNCHANGED <<exVars, fallen, holdVars, pc, missed, shutdown, stopFile, stood,
                   verdict>>

Runs == Setup \/ ObsGone \/ Falls \/ Poll \/ Drive \/
        FinalIdle \/ FinalStand \/ FinalHold \/ FinalVerdict

Next == Runs \/ StopArrives \/ Expires

Spec == Init /\ [][Next]_vars

(* The loop and the end are driven by one thread that never waits.         *)
FairSpec == Spec /\ WF_vars(Runs)

-----------------------------------------------------------------------------
(* The types of the variables of executor, hold and runner.                *)
TypeOK == ExTypeOK /\ HoldTypeOK /\ RunTypeOK

(* "The moment the stick is released is not called completed" (motion.py,  *)
(* line 5): a step ends well only when no stick was sent for settle_hold_s *)
(* - also after corrections, and when an earlier step was at rest.         *)
StepDone == phase' # phase /\ phase' \in {"accepted", "completed"}

CompletedAtRest == [][StepDone => sinceStick' = RestHold]_vars

(* A gap, a pause or a broken limit never counts as holding (controller,   *)
(* lines 231-237): the verified hold was seen from its beginning.          *)
HoldWasWatched == endStage = "verified" => watched = HoldFor

(* "PASS only if all steps are completed and the standing hold is really   *)
(* observed" (steps runner, line 342).                                     *)
PassIsEarned ==
    verdict = "PASS" =>
        /\ phase = "completed" /\ i = Len(program)
        /\ ~fallen /\ shutdown = "none"
        /\ stood /\ watched = HoldFor

(* The run drives its steps as OrderedSteps promises.                      *)
OrderStep == IF i = 0 THEN 1 ELSE i

OrderStage ==
    IF phase = "accepted" THEN "waiting"
    ELSE IF phase \in Driven THEN "driving"
    ELSE IF phase \in {"settling", "jog_stopping"} THEN "resting"
    ELSE IF phase = "completed" THEN "done" ELSE "failed"

OrderBursts == IF phase \in Over \cup {"accepted"} THEN 0 ELSE corrections + 1

Order == INSTANCE OrderedSteps WITH
    MaxBursts <- MaxCorrections + 1,
    total <- Len(program),
    step <- OrderStep,
    stage <- OrderStage,
    bursts <- OrderBursts

ImplementsOrder == Order!Spec

(* A run of finite steps ends even if its manifest never expires, and a    *)
(* jog does not go on for ever, whether or not a stop arrives.             *)
Finite == \A k \in 1..Len(program) : program[k] # "jog"

RunEnds ==
    /\ Finite ~> pc = "ended"
    /\ phase = "jogging" ~> phase # "jogging" \/ pc = "ended"
=============================================================================
