------------------------------ MODULE GameRound ------------------------------
(***************************************************************************)
(* One game round: the API of the orchestrator and the controller in its   *)
(* container, joined by the mailbox files and by the time that passes.     *)
(***************************************************************************)
EXTENDS GameCommands, GameController

vars == <<apiVars, mailVars, ctlState>>

Init == MailInit /\ ApiInit /\ CtlInit

(* CMD_STALE_S has passed since control.json was written.                  *)
CommandGrowsStale ==
    /\ control.fresh
    /\ control' = [control EXCEPT !.fresh = FALSE]
    /\ UNCHANGED <<strikeBox, published, result>>

(* expires_wall has passed.                                                *)
StrikeExpires ==
    /\ strikeBox.id # 0 /\ strikeBox.age = "valid"
    /\ strikeBox' = [strikeBox EXCEPT !.age = "expired"]
    /\ UNCHANGED <<control, published, result>>

(* One second more has passed.  A controller that took the strike in time  *)
(* has written its state since, as it does twice a second.                 *)
StrikeOverdue ==
    /\ strikeBox.age = "expired"
    /\ pc \in Loop /\ strikeBox.id \in seen =>
          strikeBox.id = published.fsm.id \/ Told(strikeBox.id)
    /\ strikeBox' = [strikeBox EXCEPT !.age = "overdue"]
    /\ UNCHANGED <<control, published, result>>

Time == CommandGrowsStale \/ StrikeExpires \/ StrikeOverdue

Next ==
    \/ ApiNext /\ UNCHANGED ctlState
    \/ CtlNext /\ UNCHANGED apiVars
    \/ Time /\ UNCHANGED <<apiVars, ctlState>>

Spec == Init /\ [][Next]_vars

(* The loop runs at 20 Hz, and every phase of a strike has a deadline, so  *)
(* it advances or ends however often it only waits.                        *)
Fairness ==
    /\ WF_vars((Setup \/ Tick) /\ UNCHANGED apiVars)
    /\ SF_vars((StrikeAdvances \/ StrikeOver) /\ UNCHANGED apiVars)

FairSpec == Spec /\ Fairness

-----------------------------------------------------------------------------
(* The types of the variables of the API, the files and the controller.    *)
TypeOK == ApiTypeOK /\ MailTypeOK /\ CtlTypeOK

(* The strikes that may still make the robot swing.                        *)
MaySwing ==
    {i \in StrikeId :
        \/ /\ strikeBox.id = i /\ strikeBox.age = "valid"
           /\ i \notin seen
           /\ pc \in {"setup"} \cup Loop
        \/ pc \in Loop /\ fsm.id = i /\ fsm.phase \in {"pre", "dance"}}

(* _strike_pending_resolve(): a second strike is accepted only when the    *)
(* fate of the first is sealed, whatever the API missed of the controller. *)
OneStrikeAhead == \A i, j \in MaySwing : i = j

(* Each strike_id is carried out once at most (controller, line 11): one   *)
(* that was decided, with or without a swing, never begins again.          *)
DecidedNeverBegins ==
    [][\A i \in StrikeId :
          fsm.id # i /\ fsm'.id = i =>
              i # log.lastDone /\ i \notin log.expired \cup log.unverified]_vars

(* After an END was taken no swing begins, although the API goes on        *)
(* accepting strikes until the controller has ended.                       *)
NoSwingAfterEnd ==
    endReceived => fsm.phase \in {"none", "recover"}

(* An answer of the language model is used only if no command, prohibition *)
(* or other question was taken after the words it interprets.              *)
NoLateInterpretation ==
    [][\A a \in asks \ asks' : a.overtaken => g'.seq = g.seq]_vars

(* A command moves the robot once: no file is applied a second time.       *)
NoReplay ==
    [][motion = "none" /\ motion' # "none" => applied' > applied]_vars

(* A lost observation, an expired manifest or a fall is shown as a fault   *)
(* and not as a normal end of the game (controller, line 23).              *)
FaultIsShown ==
    g.outcome \notin {"none", "fault"} =>
        result.verdict = "PASS" /\ ending.health = "ok"

(* An END the controller took ends its loop, also out of a strike.         *)
EndEndsLoop == endReceived ~> pc \notin Loop

(* Every strike the controller took is decided - so that the API can give  *)
(* its reservation back - or the loop ends.                                *)
StrikeIsDecided ==
    \A i \in StrikeId :
        i \in seen /\ pc \in Loop ~>
            \/ pc \notin Loop
            \/ i <= log.lastDone \/ i \in log.expired \cup log.unverified

(* "STOP aborts the strike" (controller, line 17): once a STOP was applied *)
(* that was sent after a strike, the strike does not begin.                *)
StopCancelsStrike ==
    current = "stop" /\ fsm.phase \in {"pre", "dance"} => fsm.id > applied

(* "STOP ends a continuous jog, which slows down until it stands"          *)
(* (controller, lines 718-719): it does not go on jogging.                 *)
StopEndsJog == current = "stop" => motion # "jogging"

(* control.health tells obs_lost and manifest_expired from a normal end    *)
(* (controller, line 21): a result of a lost observation says so.          *)
FaultIsNamed ==
    pc = "ended" /\ ending.health = "obs_lost" => result.health = "obs_lost"
=============================================================================
