--------------------------- MODULE GameController ---------------------------
(***************************************************************************)
(* kotoba_game_controller.py: the 20 Hz loop in the runner container, the  *)
(* StrikeFSM it drives and the way it ends.  One pass of the loop is three *)
(* steps - control.json, strike.json, then the robot - between which the   *)
(* API may write.  Stick values and poses are left out; a deadline inside  *)
(* the loop is a step that may be taken at any pass.                       *)
(***************************************************************************)
EXTENDS GameMailbox

VARIABLES
    pc,            \* setup, control, strikes, drive, closing, ended, killed
    applied,       \* LatestWinsGate.last_seq
    current,       \* current_type
    endReceived,   \* end_received
    fsm,           \* the strike under way
    seen,          \* strike_ids_seen
    log,           \* strike_expired, strike_unverified, last_strike_done,
                   \* strikes_started
    motion,        \* the move under way: a nudge, a MotionExecutor of finite
                   \* steps, or one that jogs
    ending         \* round_end_reason and health

ctlState == <<pc, applied, current, endReceived, fsm, seen, log, motion, ending>>

Motion == {"none", "nudge", "finite", "jogBegin", "jogging", "jogStopping"}
Loop   == {"control", "strikes", "drive"}

CtlTypeOK ==
    /\ pc \in {"setup", "closing", "ended", "killed"} \cup Loop
    /\ applied \in 0..MaxSeq
    /\ current \in {"idle", "move", "stop"}
    /\ endReceived \in BOOLEAN
    /\ fsm \in Fsm /\ seen \subseteq StrikeId /\ log \in Log
    /\ motion \in Motion
    /\ ending \in [roundEnd: RoundEnd, health: Health]

CtlInit ==
    /\ pc = "setup" /\ applied = 0 /\ current = "idle" /\ endReceived = FALSE
    /\ fsm = NoFsm /\ seen = {} /\ log = NoLog /\ motion = "none"
    /\ ending = [roundEnd |-> "none", health |-> "ok"]

InStrike == fsm.id # 0

(* write_state(), of the state this step leads to: at most twice a second  *)
(* in the loop, and once more when the loop is left.                       *)
Snapshot == [fsm |-> fsm, log |-> log]
MayPublish == published' \in {published, Snapshot'}

EndLoop(reason, health) ==
    /\ pc' = "closing"
    /\ ending' = [roundEnd |-> reason, health |-> health]
    /\ published' = Snapshot'

(* An exception: result.json has a verdict and no control part.            *)
Raises(verdict) ==
    /\ pc' = "ended"
    /\ result' = [NoResult EXCEPT !.verdict = verdict,
                                  !.roundEnd = ending.roundEnd]
    /\ UNCHANGED <<applied, current, endReceived, fsm, seen, log, motion, ending,
                   control, strikeBox, published>>

Setup ==
    /\ pc = "setup"
    /\ \/ /\ pc' = "control"
          /\ UNCHANGED <<applied, current, endReceived, fsm, seen, log, motion,
                         ending, mailVars>>
       \/ Raises("FAIL_RAISED")

-----------------------------------------------------------------------------
(* 1) The latest command, if it is fresh and newer than the last applied.  *)
AcceptsAny(c) == c.fresh                \* mutation: no LatestWinsGate
Accepts(c) == c.fresh /\ c.seq > applied

(* StrikeFSM.abort().  Mutation: the strike is over at once.               *)
AbortedAtOnce(f, why) == [f EXCEPT !.phase = "done",
                                   !.pendingEnd = @ \/ why = "end"]
Aborted(f, why) ==
    [f EXCEPT !.phase = IF f.id = 0 THEN @ ELSE "recover",
              !.pendingEnd = @ \/ (f.id # 0 /\ why = "end")]

(* MotionExecutor.request_stop() for a jog - heard only once it jogs -,    *)
(* abort() for finite steps.                                               *)
Halted(m) ==
    CASE m \in {"jogging", "jogStopping"} -> "jogStopping"
      [] m = "jogBegin" -> m
      [] OTHER -> "none"

ApplyMove ==
    /\ control.type = "move"
    /\ motion' \in {"nudge", "finite", "jogBegin"}
    /\ current' = "move"
    /\ pc' = "strikes"
    /\ UNCHANGED <<endReceived, fsm, seen, log, ending, mailVars>>

ApplyStop ==
    /\ control.type = "stop"
    /\ motion' = Halted(motion)
    /\ fsm' = Aborted(fsm, "stop")
    /\ current' = "stop"
    /\ pc' = "strikes"
    /\ UNCHANGED <<endReceived, seen, log, ending, mailVars>>

ApplyEnd ==
    /\ control.type = "end"
    /\ endReceived' = TRUE
    /\ motion' = "none"
    /\ fsm' = Aborted(fsm, "end")
    /\ UNCHANGED <<current, seen, log, control, strikeBox, result>>
    /\ IF InStrike
       THEN pc' = "strikes" /\ UNCHANGED <<ending, published>>
       ELSE EndLoop(ending.roundEnd, ending.health)

ReadControl ==
    /\ pc = "control"
    /\ IF Accepts(control)
       THEN /\ applied' = control.seq
            /\ ApplyMove \/ ApplyStop \/ ApplyEnd
       ELSE /\ pc' = "strikes"
            /\ UNCHANGED <<applied, current, endReceived, fsm, seen, log,
                           motion, ending, mailVars>>

(* 0) The time limit ends the loop, in the middle of a strike as well.     *)
TimeIsUp ==
    /\ pc = "control"
    /\ UNCHANGED <<applied, current, endReceived, fsm, seen, log, motion,
                   control, strikeBox, result>>
    /\ EndLoop("timeout", ending.health)

(* 1b) A strike begins once, in time, and not during another one.          *)
UnseenIgnored(i) == i # 0               \* mutation: strike_ids_seen not asked
Unseen(i) == i # 0 /\ i \notin seen

ReadStrike ==
    /\ pc = "strikes"
    /\ pc' = "drive"
    /\ LET i == strikeBox.id IN
       IF ~Unseen(i) THEN UNCHANGED <<seen, fsm, log>>
       ELSE /\ seen' = seen \cup {i}
            /\ IF InStrike \/ strikeBox.age # "valid"
               THEN /\ log' = [log EXCEPT !.expired = @ \cup {i}]
                    /\ UNCHANGED fsm
               ELSE /\ fsm' = [NoFsm EXCEPT !.id = i, !.phase = "pre"]
                    /\ UNCHANGED log
    /\ UNCHANGED <<applied, current, endReceived, motion, ending, mailVars>>

-----------------------------------------------------------------------------
(* 3) One tick of the StrikeFSM that does not end the strike.              *)
NextPhase(f) ==
    CASE f.phase = "pre" ->
            [f EXCEPT !.phase = "dance", !.sent = TRUE]
      [] f.phase = "dance" ->
            [f EXCEPT !.phase = "swing", !.consumed = TRUE]
      [] f.phase = "swing" -> [f EXCEPT !.phase = "recover"]
      [] OTHER -> f

StrikeAdvances ==
    /\ pc = "drive" /\ InStrike
    /\ fsm.phase # "recover"
    /\ fsm' = NextPhase(fsm)
    /\ log' = IF fsm.phase = "dance" THEN [log EXCEPT !.started = @ + 1] ELSE log
    /\ pc' = "control"
    /\ MayPublish
    /\ UNCHANGED <<applied, current, endReceived, seen, motion, ending,
                   control, strikeBox, result>>

StrikeWaits ==
    /\ pc = "drive" /\ InStrike
    /\ pc' = "control"
    /\ UNCHANGED <<applied, current, endReceived, fsm, seen, log, motion, ending,
                   control, strikeBox, result>>
    /\ MayPublish

OverUnlessSwung(f) ==                   \* mutation: only swings are noted
    IF f.consumed THEN [log EXCEPT !.lastDone = f.id] ELSE log

(* The strike is over.  A strike given up in "pre" or "dance" for lack of  *)
(* time, or aborted before it was sent, counts as never begun.             *)
Over(f) ==
    [log EXCEPT
        !.lastDone = f.id,
        !.expired = IF f.consumed \/ (f.phase = "recover" /\ f.sent)
                    THEN @ ELSE @ \cup {f.id},
        !.unverified = IF ~f.consumed /\ f.phase = "recover" /\ f.sent
                       THEN @ \cup {f.id} ELSE @]

EndsNever(f) == FALSE                   \* mutation: an END is forgotten
EndsAfter(f) == f.pendingEnd \/ endReceived

StrikeOver ==
    /\ pc = "drive" /\ InStrike
    /\ fsm.phase # "swing"
    /\ fsm' = NoFsm
    /\ log' = Over(fsm)
    /\ \E hit \in IF fsm.consumed THEN BOOLEAN ELSE {FALSE} :
         IF EndsAfter(fsm) THEN EndLoop(ending.roundEnd, ending.health)
         ELSE IF hit THEN EndLoop("hit", ending.health)
         ELSE IF log'.started >= MaxSwings
              THEN EndLoop("out_of_swings", ending.health)
         ELSE pc' = "control" /\ MayPublish /\ UNCHANGED ending
    /\ UNCHANGED <<applied, current, endReceived, seen, motion,
                   control, strikeBox, result>>

(* The move goes on, comes to its end, or the jog to its stop: by the      *)
(* arena's border, a missing heartbeat or its time limit.                  *)
MotionNext(m) ==
    CASE m = "none" -> {"none"}
      [] m = "jogBegin" -> {"jogBegin", "jogging", "none"}
      [] m = "jogging" -> {"jogging", "jogStopping", "none"}
      [] OTHER -> {m, "none"}

Moves ==
    /\ pc = "drive" /\ ~InStrike
    /\ motion' \in MotionNext(motion)
    /\ current' = IF motion' = "none" /\ current = "move" THEN "idle" ELSE current
    /\ pc' = "control"
    /\ UNCHANGED <<applied, endReceived, fsm, seen, log, ending,
                   control, strikeBox, result>>
    /\ MayPublish

-----------------------------------------------------------------------------
(* 2) No observation for OBS_LOST_ABORT_S, or the manifest has expired.    *)
ControlFails ==
    /\ pc = "drive"
    /\ UNCHANGED <<applied, current, endReceived, fsm, seen, log, motion,
                   control, strikeBox, result>>
    /\ \E health \in {"obs_lost", "manifest_expired"} :
          EndLoop(ending.roundEnd, health)

(* A fall, or a send that was too late.                                    *)
RobotFails == pc = "drive" /\ Raises("FAIL_RAISED")

(* 2b) The robot left the arena: once, and a strike is let recover first.  *)
ArenaExit ==
    /\ pc = "drive" /\ ending.roundEnd # "arena_exit"
    /\ motion' = "none" /\ current' = "stop"
    /\ fsm' = Aborted(fsm, "end")
    /\ UNCHANGED <<applied, endReceived, seen, log, control, strikeBox, result>>
    /\ IF InStrike
       THEN /\ ending' = [ending EXCEPT !.roundEnd = "arena_exit"]
            /\ UNCHANGED <<pc, published>>
       ELSE EndLoop("arena_exit", ending.health)

-----------------------------------------------------------------------------
(* TrialFSM.LEGAL, of the phases reached at the end.                       *)
LegalPhases == [WALK |-> {"DECELERATING", "ABORT"}, TAIL |-> {"DONE", "ABORT"}]

CleanEnd == (endReceived \/ ending.roundEnd # "none") /\ ending.health = "ok"

Verdicts(clean, held, fallen) ==
    IF fallen THEN "FAIL_FALLEN"
    ELSE IF clean /\ held THEN "PASS"
    ELSE IF clean THEN "UNKNOWN_END_HOLD" ELSE "FAIL_NO_CLEAN_END"

(* After a clean end the robot is made to stand - unless the manifest has  *)
(* expired by now - and watched; then, and else at once, transition(DONE). *)
Close ==
    /\ pc = "closing"
    /\ IF "DONE" \notin LegalPhases[IF CleanEnd THEN "TAIL" ELSE "WALK"]
       THEN Raises("FAIL_ILLEGAL_TRANSITION")
       ELSE /\ \E stands, held, fallen \in BOOLEAN :
                  result' = [verdict |-> Verdicts(stands, held, stands /\ fallen),
                             health |-> IF stands THEN "ok"
                                        ELSE "manifest_expired",
                             roundEnd |-> ending.roundEnd,
                             ended |-> endReceived]
            /\ pc' = "ended"
            /\ UNCHANGED <<applied, current, endReceived, fsm, seen, log, motion,
                           ending, control, strikeBox, published>>

(* The container is killed, or its 420 s are over: there is no result.json.*)
Killed ==
    /\ pc \notin {"ended", "killed"}
    /\ pc' = "killed"
    /\ result' = [NoResult EXCEPT !.verdict = "RUNNER_ERROR"]
    /\ UNCHANGED <<applied, current, endReceived, fsm, seen, log, motion, ending,
                   control, strikeBox, published>>

Tick == ReadControl \/ ReadStrike \/ StrikeAdvances \/ StrikeWaits
        \/ StrikeOver \/ Moves

CtlNext == Setup \/ Tick \/ TimeIsUp \/ ControlFails \/ RobotFails \/ ArenaExit
           \/ Close \/ Killed
=============================================================================
