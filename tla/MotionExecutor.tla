---------------------------- MODULE MotionExecutor ----------------------------
(***************************************************************************)
(* motion.py: a list of steps driven in closed loop on what is observed.   *)
(* The caller's 20 Hz loop calls tick() with every observation.  Poses and *)
(* sticks are left out: of an observation the model keeps what tick() asks *)
(* of it - drift, progress, target reached, boundary near, standing still, *)
(* short of or beyond the target.  Time is counted in passes of the loop.  *)
(***************************************************************************)
EXTENDS Integers, Sequences

CONSTANTS
    Programs,          \* the lists of steps a caller may bring
    ApplyTicks,        \* apply_ticks
    CorrectionTicks,   \* correction_ticks
    MaxCorrections,    \* max_corrections
    StepDeadline,      \* step_deadline_s
    StallLimit,        \* no_progress_s
    RestHold,          \* settle_hold_s
    JogDeadline        \* jog_deadline_s

Action == {"translate", "turn", "jog"}

(* Not empty (__init__), and a jog only as the single step (the parser).   *)
Runnable(p) ==
    /\ p \in Seq(Action)
    /\ Len(p) >= 1
    /\ Len(p) = 1 \/ \A k \in 1..Len(p) : p[k] # "jog"

ASSUME ProgramsAssumption == \A p \in Programs : Runnable(p)

ASSUME ProfileAssumption ==
    /\ {ApplyTicks, CorrectionTicks, RestHold, StepDeadline, JogDeadline}
          \subseteq Nat \ {0}
    /\ {MaxCorrections, StallLimit} \subseteq Nat

VARIABLES
    program,      \* self.steps
    i,            \* self._i + 1: 0 before begin
    phase,        \* self._phase
    applyLeft,    \* self._apply_left
    corrections,  \* self._corrections
    correcting,   \* self._correcting
    stopReq,      \* self._jog_stop_req
    jogEnd,       \* self._jog_end_reason
    reason,       \* prog.reason
    elapsed,      \* now - self._t0
    stalled,      \* now - self._last_prog_t
    rest,         \* now - self._settle_since
    out,          \* what tick() returned: the stick, the stick at the scale
                  \* of a correction, or None
    sinceStick    \* history: passes since the last stick was withdrawn

exVars == <<program, i, phase, applyLeft, corrections, correcting, stopReq,
            jogEnd, reason, elapsed, stalled, rest, out, sinceStick>>

Over == {"completed", "failed", "aborted"}
Phase == {"accepted", "applying", "moving", "turning", "settling", "jogging",
          "jog_stopping"} \cup Over
StopReason == {"stop", "heartbeat_lost"}
JogReason == StopReason \cup {"jog_timeout", "boundary"}
AbortReason == {"superseded", "stop", "end", "control_lost", "arena_exit"}
Reason == JogReason \cup AbortReason \cup
          {"step_timeout", "lateral_drift", "yaw_drift", "no_progress",
           "undershoot", "overshoot", "none"}

(* Clocks are kept up to the first value their limit tells apart.          *)
Unset == -1
AtMost(n, top) == IF n <= top THEN n ELSE top
TopElapsed == 1 + (IF StepDeadline >= JogDeadline THEN StepDeadline
                                                  ELSE JogDeadline)
TopStalled == StallLimit + 1

ExTypeOK ==
    /\ program \in Programs
    /\ i \in 0..Len(program)
    /\ phase \in Phase
    /\ applyLeft \in Nat
    /\ corrections \in 0..MaxCorrections
    /\ correcting \in BOOLEAN
    /\ stopReq \in StopReason \cup {"none"}
    /\ jogEnd \in JogReason \cup {"none"}
    /\ reason \in Reason
    /\ elapsed \in Unset..TopElapsed
    /\ stalled \in Unset..TopStalled
    /\ rest \in Unset..RestHold
    /\ out \in {"stick", "slow", "none"}
    /\ sinceStick \in 0..RestHold

ExInit ==
    /\ program \in Programs
    /\ i = 0 /\ phase = "accepted"
    /\ applyLeft = 0 /\ corrections = 0 /\ correcting = FALSE
    /\ stopReq = "none" /\ jogEnd = "none" /\ reason = "none"
    /\ elapsed = Unset /\ stalled = Unset /\ rest = Unset
    /\ out = "none" /\ sinceStick = 0

Now == program[i]

-----------------------------------------------------------------------------
(* _begin_step(): the pose now observed is the origin of step k.           *)
BeginStep(k) ==
    /\ i' = k
    /\ phase' = "applying"
    /\ corrections' = 0 /\ correcting' = FALSE
    /\ stopReq' = "none" /\ jogEnd' = "none" /\ reason' = "none"
    /\ rest' = Unset

(* begin().  A caller may leave it out: the first tick() then does it.     *)
Begin ==
    /\ i = 0 /\ phase = "accepted"
    /\ BeginStep(1)
    /\ applyLeft' = ApplyTicks
    /\ elapsed' = Unset /\ stalled' = Unset
    /\ UNCHANGED <<program, out, sinceStick>>

(* request_stop(): a jog is asked to stop, once it has begun to jog.       *)
RequestStop(why) ==
    /\ stopReq' = IF phase = "jogging" /\ stopReq = "none" THEN why ELSE stopReq
    /\ UNCHANGED <<program, i, phase, applyLeft, corrections, correcting, jogEnd,
                   reason, elapsed, stalled, rest, out, sinceStick>>

(* abort(): the steps not reached are not executed.  The game controller   *)
(* calls it; the steps runner never does.                                  *)
Abort(why) ==
    /\ phase \notin Over
    /\ phase' = "aborted" /\ reason' = why
    /\ UNCHANGED <<program, i, applyLeft, corrections, correcting, stopReq,
                   jogEnd, elapsed, stalled, rest, out, sinceStick>>

(* jogging: the caller has to watch its operator.                          *)
IsJog == phase \notin Over /\ i > 0 /\ Now = "jog"

-----------------------------------------------------------------------------
(* What tick() returns.                                                    *)
Sticks(o) == out' = o /\ sinceStick' = 0

NoStick(dt) ==
    /\ out' = "none"
    /\ sinceStick' = IF out = "none" THEN AtMost(sinceStick + dt, RestHold) ELSE 0

Fails(dt, why) ==
    /\ phase' = "failed" /\ reason' = why
    /\ NoStick(dt)
    /\ UNCHANGED <<program, i, applyLeft, corrections, correcting, stopReq, jogEnd>>

Aged(age, dt, top) == IF age = Unset THEN 0 ELSE AtMost(age + dt, top)
Elapsed(dt) == Aged(elapsed, dt, TopElapsed)
Stalled(dt, advanced) == IF advanced THEN 0 ELSE Aged(stalled, dt, TopStalled)

(* The limits every tick() checks first, whatever the phase.               *)
LateWhileDriven(dt) ==  \* mutation: no deadline while it settles
    Now # "jog" /\ Elapsed(dt) > StepDeadline /\ phase # "settling"
Late(dt) == Now # "jog" /\ Elapsed(dt) > StepDeadline
Drift == IF Now = "turn" THEN {"none"} ELSE {"none", "lateral_drift", "yaw_drift"}
Driven == {"applying", "moving", "turning", "jogging"}
Stuck(dt, advanced) == Stalled(dt, advanced) > StallLimit /\ phase \in Driven

Limit(dt, drift, advanced) ==
    IF Late(dt) THEN "step_timeout"
    ELSE IF drift # "none" THEN drift
    ELSE IF Stuck(dt, advanced) THEN "no_progress" ELSE "none"

Trips(dt, drift, advanced) ==
    /\ Limit(dt, drift, advanced) # "none"
    /\ Fails(dt, Limit(dt, drift, advanced))
    /\ UNCHANGED <<elapsed, stalled, rest>>

Clocks(dt, advanced) ==
    elapsed' = Elapsed(dt) /\ stalled' = Stalled(dt, advanced)

(* The next step takes its origin from the observation of this tick.       *)
Anchors ==
    /\ phase = "accepted"
    /\ BeginStep(IF i = 0 THEN 1 ELSE i)
    /\ applyLeft' = ApplyTicks - 1
    /\ elapsed' = 0 /\ stalled' = 0
    /\ Sticks("stick")
    /\ UNCHANGED program

-----------------------------------------------------------------------------
(* APPLYING: the first sticks of a step, or the burst of a correction.     *)
Applies(dt, advanced) ==
    /\ phase = "applying" /\ applyLeft > 0
    /\ applyLeft' = applyLeft - 1
    /\ Sticks(IF correcting THEN "slow" ELSE "stick")
    /\ Clocks(dt, advanced)
    /\ UNCHANGED <<program, i, phase, corrections, correcting, stopReq, jogEnd,
                   reason, rest>>

Applied == phase = "applying" /\ applyLeft = 0 /\ ~correcting

(* MOVING or TURNING, until what is reached and what the residual motion   *)
(* will add make up the target.                                            *)
Moves(dt, advanced) ==
    /\ Applied \/ phase \in {"moving", "turning"}
    /\ Now # "jog"
    /\ phase' = IF Now = "translate" THEN "moving" ELSE "turning"
    /\ Sticks("stick")
    /\ Clocks(dt, advanced)
    /\ UNCHANGED <<program, i, applyLeft, corrections, correcting, stopReq, jogEnd,
                   reason, rest>>

(* The stick is released: target reached, or the burst is over.            *)
Releases(dt, advanced) ==
    /\ \/ phase = "applying" /\ correcting /\ applyLeft = 0
       \/ phase = "applying" /\ ~correcting /\ Now # "jog"
       \/ phase \in {"moving", "turning"}
    /\ phase' = "settling" /\ correcting' = FALSE
    /\ rest' \in {Unset, 0}
    /\ NoStick(dt)
    /\ Clocks(dt, advanced)
    /\ UNCHANGED <<program, i, applyLeft, corrections, stopReq, jogEnd, reason>>

-----------------------------------------------------------------------------
(* The robot stands still, and has long enough.                            *)
StoodStill(dt) == rest # Unset  \* mutation: no settle_hold_s
Rested(dt) == rest # Unset /\ rest + dt >= RestHold

(* SETTLING and JOG_STOPPING wait for that; any movement starts it again.  *)
Waits(dt, advanced) ==
    /\ phase \in {"settling", "jog_stopping"}
    /\ \/ rest' = Unset
       \/ ~Rested(dt) /\ rest' = Aged(rest, dt, RestHold)
    /\ NoStick(dt)
    /\ Clocks(dt, advanced)
    /\ UNCHANGED <<program, i, phase, applyLeft, corrections, correcting, stopReq,
                   jogEnd, reason>>

CorrectsOnceMore(dt) ==  \* mutation: one more than max_corrections
    /\ phase = "settling" /\ Rested(dt)
    /\ corrections <= MaxCorrections
    /\ corrections' = corrections + 1 /\ correcting' = TRUE
    /\ phase' = "applying" /\ applyLeft' = CorrectionTicks
    /\ rest' = Unset
    /\ elapsed' = Elapsed(dt) /\ stalled' = 0
    /\ NoStick(dt)
    /\ UNCHANGED <<program, i, stopReq, jogEnd, reason>>

(* At rest: short of the target by more than the tolerance.                *)
Corrects(dt) ==
    /\ phase = "settling" /\ Rested(dt)
    /\ corrections < MaxCorrections
    /\ corrections' = corrections + 1 /\ correcting' = TRUE
    /\ phase' = "applying" /\ applyLeft' = CorrectionTicks
    /\ rest' = Unset
    /\ elapsed' = Elapsed(dt) /\ stalled' = 0
    /\ NoStick(dt)
    /\ UNCHANGED <<program, i, stopReq, jogEnd, reason>>

(* At rest: still short after the last correction, or too far.             *)
Misses(dt, advanced) ==
    /\ phase = "settling" /\ Rested(dt)
    /\ \/ corrections = MaxCorrections /\ Fails(dt, "undershoot")
       \/ Fails(dt, "overshoot")
    /\ Clocks(dt, advanced)
    /\ rest' = rest

(* _complete_step().                                                       *)
IndexIsLast == i + 1 >= Len(program)  \* mutation: 1-based
LastStep    == i = Len(program)

(* At rest within the tolerance.                                           *)
Completes(dt, advanced) ==
    /\ phase = "settling" /\ Rested(dt)
    /\ IF LastStep THEN phase' = "completed" /\ i' = i
                   ELSE phase' = "accepted" /\ i' = i + 1
    /\ NoStick(dt)
    /\ Clocks(dt, advanced)
    /\ UNCHANGED <<program, applyLeft, corrections, correcting, stopReq, jogEnd,
                   reason, rest>>

-----------------------------------------------------------------------------
(* JOGGING ends by request, at its deadline or before the boundary.        *)
JogEnd(dt, near) ==
    IF stopReq # "none" THEN stopReq
    ELSE IF Elapsed(dt) > JogDeadline THEN "jog_timeout"
    ELSE IF near THEN "boundary" ELSE "none"

Jogs(dt, advanced, near) ==
    /\ (Applied /\ Now = "jog") \/ phase = "jogging"
    /\ JogEnd(dt, near) = "none"
    /\ phase' = "jogging"
    /\ Sticks("stick")
    /\ Clocks(dt, advanced)
    /\ UNCHANGED <<program, i, applyLeft, corrections, correcting, stopReq, jogEnd,
                   reason, rest>>

StopsJog(dt, advanced, near) ==
    /\ (Applied /\ Now = "jog") \/ phase = "jogging"
    /\ JogEnd(dt, near) # "none"
    /\ phase' = "jog_stopping"
    /\ jogEnd' = JogEnd(dt, near) /\ stopReq' = "none"
    /\ rest' = Unset
    /\ NoStick(dt)
    /\ Clocks(dt, advanced)
    /\ UNCHANGED <<program, i, applyLeft, corrections, correcting, reason>>

JogCompletes(dt, advanced) ==
    /\ phase = "jog_stopping" /\ Rested(dt)
    /\ phase' = "completed" /\ reason' = jogEnd
    /\ NoStick(dt)
    /\ Clocks(dt, advanced)
    /\ UNCHANGED <<program, i, applyLeft, corrections, correcting, stopReq, jogEnd,
                   rest>>

-----------------------------------------------------------------------------
(* tick(), dt passes after the last one.                                   *)
Watches(dt) ==
    \E drift \in Drift, advanced \in BOOLEAN :
        \/ Trips(dt, drift, advanced)
        \/ /\ Limit(dt, drift, advanced) = "none"
           /\ \/ Applies(dt, advanced)
              \/ Moves(dt, advanced)
              \/ Releases(dt, advanced)
              \/ Waits(dt, advanced)
              \/ Corrects(dt)
              \/ Misses(dt, advanced)
              \/ Completes(dt, advanced)
              \/ \E near \in BOOLEAN :
                    Jogs(dt, advanced, near) \/ StopsJog(dt, advanced, near)
              \/ JogCompletes(dt, advanced)

Tick(dt) ==
    \/ Anchors
    \/ phase \notin Over \cup {"accepted"} /\ Watches(dt)
=============================================================================
