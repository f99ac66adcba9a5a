--------------------------- MODULE GameRound_proofs ---------------------------
(***************************************************************************)
(* What GameRound guarantees for every number of commands, swings and      *)
(* questions to the language model, checked by TLAPS.                      *)
(***************************************************************************)
EXTENDS GameRound, TLAPS

-----------------------------------------------------------------------------
(* What the operators of the model return.                                 *)
LEMMA NumberedType ==
    ASSUME g \in Game, g.epoch <= g.seq, g.seq < MaxSeq, g.inputSeq < MaxInput,
           NEW type, NEW pending \in 0..MaxSeq
    PROVE  /\ Numbered(type, pending) \in Game
           /\ Numbered(type, pending).epoch <= Numbered(type, pending).seq
<1>1. g.seq + 1 \in 0..MaxSeq /\ g.inputSeq + 1 \in 0..MaxInput
  BY GameBounds DEF Game
<1>2. g.epoch \in 0..MaxSeq /\ g.epoch + 1 \in 0..MaxSeq
  BY GameBounds DEF Game
<1>3. DEFINE e == IF type \in {"stop", "end"} THEN g.epoch + 1 ELSE g.epoch
<1>4. e \in 0..MaxSeq /\ e <= g.seq + 1
  BY <1>2, GameBounds DEF Game
<1>5. Numbered(type, pending) =
        [g EXCEPT !.seq = g.seq + 1, !.inputSeq = g.inputSeq + 1,
                  !.pending = pending, !.epoch = e]
  BY DEF Numbered
<1> HIDE DEF e
<1>6. [g EXCEPT !.seq = g.seq + 1, !.inputSeq = g.inputSeq + 1,
                !.pending = pending, !.epoch = e] \in Game
  BY <1>1, <1>4 DEF Game
<1>7. Numbered(type, pending).seq = g.seq + 1 /\ Numbered(type, pending).epoch = e
  BY <1>5 DEF Game
<1> QED
  BY <1>4, <1>5, <1>6, <1>7

LEMMA ResolvedType ==
    ASSUME NEW i \in 0..MaxSeq PROVE Resolved(i) \in 0..MaxSeq
BY GameBounds DEF Resolved

LEMMA OvertakenType ==
    ASSUME NEW as, as \subseteq [ticket: 1..MaxInput, gen: 0..MaxSeq,
                                 overtaken: BOOLEAN]
    PROVE  Overtaken(as) \subseteq [ticket: 1..MaxInput, gen: 0..MaxSeq,
                                    overtaken: BOOLEAN]
BY DEF Overtaken

LEMMA AbortedType ==
    ASSUME NEW f \in Fsm, NEW why PROVE Aborted(f, why) \in Fsm
BY DEF Fsm, Aborted

LEMMA NextPhaseType ==
    ASSUME NEW f \in Fsm PROVE NextPhase(f) \in Fsm
BY DEF Fsm, NextPhase

LEMMA OverType ==
    ASSUME log \in Log, NEW f \in Fsm, f.id # 0
    PROVE  Over(f) \in Log
<1>1. f.id \in StrikeId
  BY GameBounds DEF Fsm, StrikeId
<1>2. f.id \in 0..MaxSeq
  BY DEF Fsm
<1> QED
  BY <1>1, <1>2 DEF Log, Over

LEMMA OutcomeType ==
    ASSUME NEW res, res.roundEnd \in RoundEnd
    PROVE  Outcome(res) \in RoundEnd \cup {"fault", "ended"}
BY DEF Outcome

-----------------------------------------------------------------------------
(* Type correctness needs what the code never writes down: a command that  *)
(* starts an epoch has a number of its own, and the controller that still  *)
(* loops has a swing left or is in the last one.                           *)
EpochOK == g.epoch <= g.seq

FsmOK ==
    /\ fsm.phase = "none" <=> fsm.id = 0
    /\ fsm.phase \in {"none", "pre", "dance"} => ~fsm.consumed

Budget == pc \in {"setup"} \cup Loop => log.started < MaxSwings \/ fsm.consumed

TypeInv == TypeOK /\ EpochOK /\ FsmOK /\ Budget

LEMMA InitType == Init => TypeInv
<1> SUFFICES ASSUME Init PROVE TypeInv
  OBVIOUS
<1>1. NoFsm \in Fsm
  BY GameBounds DEF NoFsm, Fsm
<1>2. NoLog \in Log
  BY GameBounds, SwingsAssumption DEF NoLog, Log
<1>3. ApiTypeOK /\ EpochOK
  <2>1. "none" \in RoundEnd /\ 0 \in 0..MaxSeq /\ 0 \in 0..MaxInput
    BY GameBounds DEF RoundEnd
  <2>2. g \in Game /\ asks = {}
    BY <2>1 DEF Init, ApiInit, Game
  <2> QED
    BY <2>2 DEF Init, ApiInit, ApiTypeOK, EpochOK
<1>4. result \in [verdict: Verdict \cup {"none"}, health: Health \cup {"none"},
                  roundEnd: RoundEnd, ended: BOOLEAN]
  BY DEF Init, MailInit, NoResult, RoundEnd
<1>5. MailTypeOK
  <2>1. 0 \in 0..MaxSeq
    BY GameBounds
  <2>2. control \in [seq: 0..MaxSeq, type: CommandType \cup {"none"},
                     fresh: BOOLEAN]
    BY <2>1 DEF Init, MailInit, NoCommand
  <2>3. /\ strikeBox \in [id: 0..MaxSeq, age: {"valid", "expired", "overdue"}]
        /\ published \in [fsm: Fsm, log: Log]
    BY <1>1, <1>2, <2>1 DEF Init, MailInit, NoStrike
  <2> QED
    BY <1>4, <2>2, <2>3 DEF MailTypeOK
<1>6. CtlTypeOK
  <2>1. applied \in 0..MaxSeq /\ motion \in Motion
    BY GameBounds DEF Init, CtlInit, Motion
  <2>2. ending \in [roundEnd: RoundEnd, health: Health]
    BY DEF Init, CtlInit, RoundEnd, Health
  <2> QED
    BY <1>1, <1>2, <2>1, <2>2 DEF Init, CtlInit, CtlTypeOK
<1>7. FsmOK /\ Budget
  BY SwingsAssumption DEF Init, CtlInit, FsmOK, Budget, NoFsm, NoLog
<1> QED
  BY <1>3, <1>5, <1>6, <1>7 DEF TypeInv, TypeOK

(* The API: its own record, its questions and the two mailboxes.           *)
LEMMA GameWriteType ==
    ASSUME ApiTypeOK, EpochOK, MailTypeOK, NEW type \in CommandType,
           GameWrite(type)
    PROVE  g' \in Game /\ EpochOK' /\ MailTypeOK'
<1>1. g \in Game /\ g.seq < MaxSeq /\ g.inputSeq < MaxInput
  BY DEF ApiTypeOK, GameWrite
<1>2. g.seq + 1 \in 0..MaxSeq /\ g.pending \in 0..MaxSeq /\ 0 \in 0..MaxSeq
  BY <1>1, GameBounds DEF Game
<1>3. g' \in Game /\ EpochOK'
  <2>1. PICK p \in 0..MaxSeq : g' = Numbered(type, p)
    BY <1>2 DEF GameWrite, Delivered, NotDelivered
  <2> QED
    BY <1>1, <2>1, NumberedType DEF EpochOK
<1>4. MailTypeOK'
  <2>1. published' = published /\ result' = result
    BY DEF GameWrite
  <2>2. CASE Delivered(type)
    <3>1. [id |-> g.seq + 1, age |-> "valid"] \in
             [id: 0..MaxSeq, age: {"valid", "expired", "overdue"}]
      BY <1>2
    <3>2. [seq |-> g.seq + 1, type |-> type, fresh |-> TRUE] \in
             [seq: 0..MaxSeq, type: CommandType \cup {"none"}, fresh: BOOLEAN]
      BY <1>2
    <3> QED
      BY <2>1, <2>2, <3>1, <3>2 DEF Delivered, MailTypeOK
  <2>3. CASE NotDelivered(type)
    BY <2>1, <2>3 DEF NotDelivered, MailTypeOK
  <2> QED
    BY <2>2, <2>3 DEF GameWrite
<1> QED
  BY <1>3, <1>4

LEMMA ApiType ==
    ASSUME ApiTypeOK, EpochOK, MailTypeOK, ApiNext
    PROVE  ApiTypeOK' /\ EpochOK' /\ MailTypeOK'
<1> DEFINE Ask == [ticket: 1..MaxInput, gen: 0..MaxSeq, overtaken: BOOLEAN]
<1>1. g \in Game /\ asks \subseteq Ask
  BY DEF ApiTypeOK
<1>2. ASSUME UNCHANGED mailVars PROVE MailTypeOK'
  BY <1>2 DEF mailVars, MailTypeOK
<1>3. ASSUME NEW type \in CommandType, ParsedCommand(type)
      PROVE  ApiTypeOK' /\ EpochOK' /\ MailTypeOK'
  <2>1. asks' \subseteq Ask
    BY <1>1, <1>3, OvertakenType DEF ParsedCommand
  <2> QED
    BY <1>3, <2>1, GameWriteType DEF ParsedCommand, ApiTypeOK
<1>4. ASSUME NEW type \in CommandType, NEW a \in asks, ModelAnswers(a, type)
      PROVE  ApiTypeOK' /\ EpochOK' /\ MailTypeOK'
  <2>1. asks' \subseteq Ask
    BY <1>1, <1>4, OvertakenType DEF ModelAnswers
  <2> QED
    BY <1>4, <2>1, GameWriteType DEF ModelAnswers, ApiTypeOK
<1>5. ASSUME g' = [g EXCEPT !.pending = Resolved(g.pending)]
      PROVE  g' \in Game /\ EpochOK'
  <2>1. Resolved(g.pending) \in 0..MaxSeq
    BY <1>1, ResolvedType DEF Game
  <2> QED
    BY <1>1, <1>5, <2>1 DEF Game, EpochOK
<1>6. CASE StrikeRefused
  BY <1>1, <1>2, <1>5, <1>6 DEF StrikeRefused, ApiTypeOK
<1>7. ASSUME g.inputSeq < MaxInput, g' = [g EXCEPT !.inputSeq = @ + 1]
      PROVE  g' \in Game /\ EpochOK'
  <2>1. g.inputSeq + 1 \in 0..MaxInput
    BY <1>1, <1>7, GameBounds DEF Game
  <2> QED
    BY <1>1, <1>7, <2>1 DEF Game, EpochOK
<1>8. CASE Prohibit
  <2>1. asks' \subseteq Ask
    BY <1>1, <1>8, OvertakenType DEF Prohibit
  <2> QED
    BY <1>2, <1>7, <1>8, <2>1 DEF Prohibit, Prohibited, ApiTypeOK
<1>9. CASE AskModel
  <2>1. g.inputSeq + 1 \in 1..MaxInput /\ g.epoch \in 0..MaxSeq
    BY <1>1, <1>9, GameBounds DEF AskModel, Game
  <2>2. [ticket |-> g.inputSeq + 1, gen |-> g.epoch, overtaken |-> FALSE] \in Ask
    BY <2>1
  <2>3. asks' \subseteq Ask
    BY <1>1, <1>9, <2>2, OvertakenType DEF AskModel
  <2> QED
    BY <1>2, <1>7, <1>9, <2>3 DEF AskModel, ApiTypeOK
<1>10. ASSUME NEW a \in asks, AnswerDropped(a)
       PROVE  ApiTypeOK' /\ EpochOK' /\ MailTypeOK'
  BY <1>1, <1>2, <1>5, <1>10 DEF AnswerDropped, ApiTypeOK, EpochOK
<1>11. CASE FinishGame
  <2>1. Outcome(result) \in RoundEnd \cup {"fault", "ended"}
    BY OutcomeType DEF MailTypeOK
  <2>2. g' \in Game /\ EpochOK'
    BY <1>1, <1>11, <2>1 DEF FinishGame, Game, EpochOK
  <2> QED
    BY <1>1, <1>2, <1>11, <2>2 DEF FinishGame, ApiTypeOK
<1>12. CASE RevokeGame
  <2>1. g' \in Game /\ EpochOK'
    BY <1>1, <1>12 DEF RevokeGame, Game, EpochOK
  <2> QED
    BY <1>1, <1>2, <1>12, <2>1 DEF RevokeGame, ApiTypeOK
<1> QED
  BY <1>3, <1>4, <1>6, <1>8, <1>9, <1>10, <1>11, <1>12 DEF ApiNext

(* The time that passes.                                                   *)
LEMMA TimeType ==
    ASSUME MailTypeOK, Time PROVE MailTypeOK'
<1>1. CASE CommandGrowsStale
  BY <1>1 DEF CommandGrowsStale, MailTypeOK
<1>2. CASE StrikeExpires
  BY <1>2 DEF StrikeExpires, MailTypeOK
<1>3. CASE StrikeOverdue
  BY <1>3 DEF StrikeOverdue, MailTypeOK
<1> QED
  BY <1>1, <1>2, <1>3 DEF Time

(* The controller.  It writes control_state.json and result.json only.     *)
ResultType == [verdict: Verdict \cup {"none"}, health: Health \cup {"none"},
               roundEnd: RoundEnd, ended: BOOLEAN]

Files == published \in [fsm: Fsm, log: Log] /\ result \in ResultType

LEMMA FilesType ==
    /\ MailTypeOK => Files
    /\ MailTypeOK /\ UNCHANGED <<control, strikeBox>> /\ Files' => MailTypeOK'
BY DEF MailTypeOK, Files, ResultType

Strikes == fsm \in Fsm /\ seen \subseteq StrikeId /\ log \in Log

EndType == ending \in [roundEnd: RoundEnd, health: Health]

LEMMA PublishType ==
    ASSUME Files, Strikes', MayPublish \/ published' = Snapshot'
    PROVE  published' \in [fsm: Fsm, log: Log]
BY DEF Files, Strikes, MayPublish, Snapshot

LEMMA EndLoopType ==
    ASSUME Files, Strikes', UNCHANGED <<control, strikeBox, result>>,
           NEW reason \in RoundEnd, NEW health \in Health,
           EndLoop(reason, health)
    PROVE  EndType' /\ pc' = "closing" /\ Files'
<1>1. published' \in [fsm: Fsm, log: Log]
  BY PublishType DEF EndLoop
<1> QED
  BY <1>1 DEF EndLoop, EndType, Files

LEMMA RaisesType ==
    ASSUME Files, EndType, NEW verdict \in Verdict, Raises(verdict)
    PROVE  Files' /\ pc' = "ended"
<1>1. ending.roundEnd \in RoundEnd
  BY DEF EndType
<1>2. NoResult \in ResultType
  BY DEF NoResult, ResultType, RoundEnd
<1>3. [NoResult EXCEPT !.verdict = verdict, !.roundEnd = ending.roundEnd]
        \in ResultType
  BY <1>1, <1>2 DEF ResultType
<1> QED
  BY <1>3 DEF Raises, Files

CtlRest ==
    /\ pc \in {"setup", "closing", "ended", "killed"} \cup Loop
    /\ applied \in 0..MaxSeq
    /\ current \in {"idle", "move", "stop"}
    /\ endReceived \in BOOLEAN
    /\ motion \in Motion

CtlInv == CtlRest /\ Strikes /\ EndType /\ Files /\ FsmOK /\ Budget

LEMMA CtlParts ==
    /\ CtlTypeOK /\ MailTypeOK /\ FsmOK /\ Budget => CtlInv
    /\ CtlInv /\ MailTypeOK => CtlTypeOK
BY FilesType DEF CtlTypeOK, CtlInv, CtlRest, Strikes, EndType

LEMMA SetupInv == ASSUME CtlInv, Setup PROVE CtlInv'
<1>1. CASE Raises("FAIL_RAISED")
  <2>1. Files' /\ pc' = "ended"
    BY <1>1, RaisesType DEF CtlInv, Verdict
  <2> QED
    BY <1>1, <2>1
    DEF CtlInv, CtlRest, Strikes, EndType, FsmOK, Budget, Raises, Loop
<1>2. CASE ~Raises("FAIL_RAISED")
  <2>1. /\ pc = "setup" /\ pc' = "control"
        /\ UNCHANGED <<applied, current, endReceived, fsm, seen, log, motion,
                       ending, mailVars>>
    BY <1>2 DEF Setup
  <2>2. Strikes' /\ EndType' /\ Files' /\ FsmOK'
    BY <2>1 DEF CtlInv, Strikes, EndType, Files, FsmOK, mailVars
  <2> QED
    BY <2>1, <2>2 DEF CtlInv, CtlRest, Budget, Loop
<1> QED
  BY <1>1, <1>2

LEMMA HaltedType == ASSUME NEW m \in Motion PROVE Halted(m) \in Motion
BY DEF Halted, Motion

LEMMA AbortedInv ==
    ASSUME Strikes, FsmOK, NEW why, fsm' = Aborted(fsm, why),
           UNCHANGED <<seen, log>>
    PROVE  Strikes' /\ FsmOK' /\ fsm'.consumed = fsm.consumed
<1>1. Strikes'
  BY AbortedType DEF Strikes
<1>2. fsm \in Fsm
  BY DEF Strikes
<1>3. fsm'.id = fsm.id /\ fsm'.consumed = fsm.consumed
      /\ fsm'.phase = IF fsm.id = 0 THEN fsm.phase ELSE "recover"
  BY <1>2 DEF Aborted, Fsm
<1> QED
  BY <1>1, <1>3 DEF FsmOK

LEMMA ReadControlInv ==
    ASSUME CtlInv, control.seq \in 0..MaxSeq, ReadControl PROVE CtlInv'
<1> USE DEF ReadControl, CtlInv, CtlRest
<1>1. CASE ~Accepts(control)
  BY <1>1 DEF Strikes, EndType, Files, FsmOK, Budget, Loop, mailVars
<1>2. CASE Accepts(control) /\ ApplyMove
  BY <1>2 DEF ApplyMove, Strikes, EndType, Files, FsmOK, Budget, Loop,
              mailVars, Motion
<1>3. CASE Accepts(control) /\ ApplyStop
  <2>1. Strikes' /\ FsmOK' /\ fsm'.consumed = fsm.consumed
    BY <1>3, AbortedInv DEF ApplyStop
  <2>2. motion' \in Motion
    BY <1>3, HaltedType DEF ApplyStop
  <2> QED
    BY <1>3, <2>1, <2>2 DEF ApplyStop, EndType, Files, Budget, Loop, mailVars
<1>4. CASE Accepts(control) /\ ApplyEnd
  <2>1. Strikes' /\ FsmOK' /\ fsm'.consumed = fsm.consumed
    BY <1>4, AbortedInv DEF ApplyEnd
  <2>2. CASE InStrike
    BY <1>4, <2>1, <2>2
    DEF ApplyEnd, EndType, Files, Budget, Loop, Motion
  <2>3. CASE ~InStrike
    <3>1. ending.roundEnd \in RoundEnd /\ ending.health \in Health
      BY DEF EndType
    <3>2. EndLoop(ending.roundEnd, ending.health)
      BY <1>4, <2>3 DEF ApplyEnd
    <3>3. EndType' /\ pc' = "closing" /\ Files'
      BY <1>4, <2>1, <3>1, <3>2, EndLoopType DEF ApplyEnd
    <3> QED
      BY <1>4, <2>1, <3>3 DEF ApplyEnd, Budget, Loop, Motion
  <2> QED
    BY <2>2, <2>3
<1> QED
  BY <1>1, <1>2, <1>3, <1>4

LEMMA TimeIsUpInv == ASSUME CtlInv, TimeIsUp PROVE CtlInv'
<1> USE DEF CtlInv, CtlRest
<1>1. "timeout" \in RoundEnd /\ ending.health \in Health
  BY DEF EndType, RoundEnd
<1>2. Strikes' /\ FsmOK'
  BY DEF TimeIsUp, Strikes, FsmOK
<1>3. EndType' /\ pc' = "closing" /\ Files'
  BY <1>1, <1>2, EndLoopType DEF TimeIsUp
<1> QED
  BY <1>2, <1>3 DEF TimeIsUp, Budget, Loop

LEMMA ReadStrikeInv ==
    ASSUME CtlInv, strikeBox.id \in 0..MaxSeq, ReadStrike PROVE CtlInv'
<1> DEFINE i == strikeBox.id
<1>1. /\ pc = "strikes" /\ pc' = "drive"
      /\ UNCHANGED <<applied, current, endReceived, motion, ending, mailVars>>
  BY DEF ReadStrike
<1>2. CtlRest' /\ EndType' /\ Files'
  BY <1>1 DEF CtlInv, CtlRest, EndType, Files, mailVars, Loop
<1>3. CASE ~Unseen(i)
  BY <1>1, <1>2, <1>3 DEF ReadStrike, CtlInv, Strikes, FsmOK, Budget, Loop
<1>4. CASE Unseen(i) /\ (InStrike \/ strikeBox.age # "valid")
  <2>1. fsm' = fsm /\ seen' = seen \cup {i}
        /\ log' = [log EXCEPT !.expired = @ \cup {i}]
    BY <1>4 DEF ReadStrike
  <2>2. i \in StrikeId
    BY <1>4, GameBounds DEF Unseen, StrikeId
  <2>3. Strikes' /\ log'.started = log.started
    BY <2>1, <2>2 DEF CtlInv, Strikes, Log
  <2> QED
    BY <1>1, <1>2, <2>1, <2>3 DEF CtlInv, FsmOK, Budget, Loop
<1>5. CASE Unseen(i) /\ ~(InStrike \/ strikeBox.age # "valid")
  <2>1. fsm' = [NoFsm EXCEPT !.id = i, !.phase = "pre"] /\ log' = log
        /\ seen' = seen \cup {i}
    BY <1>5 DEF ReadStrike
  <2>2. i \in StrikeId
    BY <1>5, GameBounds DEF Unseen, StrikeId
  <2>3. fsm' = [id |-> i, phase |-> "pre", consumed |-> FALSE, sent |-> FALSE,
                pendingEnd |-> FALSE]
    BY <2>1 DEF NoFsm
  <2>4. fsm' \in Fsm
    BY <2>3 DEF Fsm
  <2>5. i # 0 /\ seen' \subseteq StrikeId /\ log' \in Log
    BY <1>5, <2>1, <2>2 DEF CtlInv, Strikes, Unseen
  <2>6. Strikes' /\ FsmOK'
    BY <2>3, <2>4, <2>5 DEF Strikes, FsmOK
  <2>7. ~fsm.consumed
    BY <1>5 DEF CtlInv, FsmOK, InStrike
  <2> QED
    BY <1>1, <1>2, <2>1, <2>6, <2>7 DEF CtlInv, Budget, Loop
<1> QED
  BY <1>3, <1>4, <1>5

LEMMA StrikeAdvancesInv == ASSUME CtlInv, StrikeAdvances PROVE CtlInv'
<1>1. /\ pc = "drive" /\ pc' = "control" /\ fsm.id # 0 /\ fsm.phase # "recover"
      /\ fsm' = NextPhase(fsm)
      /\ log' = IF fsm.phase = "dance" THEN [log EXCEPT !.started = @ + 1]
                ELSE log
      /\ UNCHANGED <<applied, current, endReceived, seen, motion, ending,
                     control, strikeBox, result>>
  BY DEF StrikeAdvances, InStrike
<1>2. CtlRest' /\ EndType'
  BY <1>1 DEF CtlInv, CtlRest, EndType, Loop
<1>3. fsm \in Fsm /\ log \in Log
  BY DEF CtlInv, Strikes
<1>4. fsm.phase = "dance" => log.started < MaxSwings
  BY <1>1 DEF CtlInv, FsmOK, Budget, Loop
<1>5. fsm' \in Fsm /\ fsm'.id = fsm.id
  BY <1>1, <1>3, NextPhaseType DEF NextPhase, Fsm
<1>6. log' \in Log
  <2>1. CASE fsm.phase = "dance"
    <3>1. log.started + 1 \in 0..MaxSwings
      BY <1>3, <1>4, <2>1, SwingsAssumption DEF Log
    <3> QED
      BY <1>1, <1>3, <2>1, <3>1 DEF Log
  <2> QED
    BY <1>1, <1>3, <2>1
<1>7. Strikes' /\ Files'
  <2>1. Strikes'
    BY <1>1, <1>5, <1>6 DEF CtlInv, Strikes
  <2> QED
    BY <1>1, <2>1, PublishType DEF StrikeAdvances, CtlInv, Files
<1>8. FsmOK' /\ Budget'
  <2>1. CASE fsm.phase = "pre"
    BY <1>1, <1>3, <2>1 DEF NextPhase, Fsm, CtlInv, FsmOK, Budget, Loop
  <2>2. CASE fsm.phase = "dance"
    BY <1>1, <1>3, <2>2 DEF NextPhase, Fsm, CtlInv, FsmOK, Budget, Loop
  <2>3. CASE fsm.phase = "swing"
    BY <1>1, <1>3, <2>3 DEF NextPhase, Fsm, CtlInv, FsmOK, Budget, Loop
  <2> QED
    BY <1>1, <1>3, <2>1, <2>2, <2>3 DEF Fsm, CtlInv, FsmOK
<1> QED
  BY <1>2, <1>7, <1>8 DEF CtlInv

LEMMA StrikeWaitsInv == ASSUME CtlInv, StrikeWaits PROVE CtlInv'
<1>1. Strikes' /\ FsmOK' /\ EndType'
  BY DEF StrikeWaits, CtlInv, Strikes, FsmOK, EndType
<1>2. Files'
  BY <1>1, PublishType DEF StrikeWaits, CtlInv, Files
<1> QED
  BY <1>1, <1>2 DEF StrikeWaits, CtlInv, CtlRest, Budget, Loop

LEMMA StrikeOverInv == ASSUME CtlInv, StrikeOver PROVE CtlInv'
<1>1. /\ pc = "drive" /\ fsm.id # 0
      /\ fsm' = NoFsm /\ log' = Over(fsm)
      /\ UNCHANGED <<applied, current, endReceived, seen, motion,
                     control, strikeBox, result>>
  BY DEF StrikeOver, InStrike
<1>2. fsm \in Fsm /\ log \in Log
  BY DEF CtlInv, Strikes
<1>3. NoFsm \in Fsm
  BY GameBounds DEF NoFsm, Fsm
<1>4. Strikes' /\ FsmOK'
  BY <1>1, <1>2, <1>3, OverType DEF CtlInv, Strikes, FsmOK, NoFsm
<1>5. ASSUME NEW reason \in RoundEnd, EndLoop(reason, ending.health)
      PROVE  CtlInv'
  <2>1. ending.health \in Health
    BY DEF CtlInv, EndType
  <2>2. EndType' /\ pc' = "closing" /\ Files'
    BY <1>1, <1>4, <1>5, <2>1, EndLoopType DEF CtlInv
  <2> QED
    BY <1>1, <1>4, <2>2 DEF CtlInv, CtlRest, Budget, Loop
<1>6. ASSUME log'.started < MaxSwings, pc' = "control", MayPublish,
             UNCHANGED ending
      PROVE  CtlInv'
  <2>1. Files'
    BY <1>1, <1>4, <1>6, PublishType DEF CtlInv, Files
  <2> QED
    BY <1>1, <1>4, <1>6, <2>1 DEF CtlInv, CtlRest, EndType, Budget, Loop
<1>7. log'.started \in Nat /\ MaxSwings \in Nat
  BY <1>4, SwingsAssumption DEF Strikes, Log
<1>8. /\ ending.roundEnd \in RoundEnd /\ "hit" \in RoundEnd
      /\ "out_of_swings" \in RoundEnd
  BY DEF CtlInv, EndType, RoundEnd
<1> QED
  BY <1>5, <1>6, <1>7, <1>8 DEF StrikeOver

LEMMA MovesInv == ASSUME CtlInv, Moves PROVE CtlInv'
<1>1. Strikes' /\ FsmOK' /\ EndType'
  BY DEF Moves, CtlInv, Strikes, FsmOK, EndType
<1>2. Files'
  BY <1>1, PublishType DEF Moves, CtlInv, Files
<1>3. motion' \in Motion
  BY DEF Moves, MotionNext, Motion, CtlInv, CtlRest
<1> QED
  BY <1>1, <1>2, <1>3 DEF Moves, CtlInv, CtlRest, Budget, Loop

LEMMA ControlFailsInv == ASSUME CtlInv, ControlFails PROVE CtlInv'
<1>1. Strikes' /\ FsmOK'
  BY DEF ControlFails, CtlInv, Strikes, FsmOK
<1>2. PICK health \in {"obs_lost", "manifest_expired"} :
         EndLoop(ending.roundEnd, health)
  BY DEF ControlFails
<1>3. ending.roundEnd \in RoundEnd /\ health \in Health
  BY DEF CtlInv, EndType, Health
<1>4. EndType' /\ pc' = "closing" /\ Files'
  BY <1>1, <1>2, <1>3, EndLoopType DEF CtlInv, ControlFails
<1> QED
  BY <1>1, <1>4 DEF ControlFails, CtlInv, CtlRest, Budget, Loop

LEMMA RobotFailsInv == ASSUME CtlInv, RobotFails PROVE CtlInv'
<1>1. Files' /\ pc' = "ended"
  BY RaisesType DEF RobotFails, CtlInv, Verdict
<1> QED
  BY <1>1 DEF RobotFails, CtlInv, CtlRest, Strikes, EndType, FsmOK, Budget,
              Raises, Loop

LEMMA ArenaExitInv == ASSUME CtlInv, ArenaExit PROVE CtlInv'
<1>1. Strikes' /\ FsmOK' /\ fsm'.consumed = fsm.consumed
  BY AbortedInv DEF ArenaExit, CtlInv
<1>2. "arena_exit" \in RoundEnd /\ ending.health \in Health
  BY DEF CtlInv, EndType, RoundEnd
<1>3. CASE InStrike
  <2>1. EndType' /\ Files'
    BY <1>2, <1>3 DEF ArenaExit, CtlInv, EndType, Files
  <2> QED
    BY <1>1, <1>3, <2>1 DEF ArenaExit, CtlInv, CtlRest, Budget, Loop, Motion
<1>4. CASE ~InStrike
  <2>1. EndType' /\ pc' = "closing" /\ Files'
    BY <1>1, <1>2, <1>4, EndLoopType DEF ArenaExit, CtlInv
  <2> QED
    BY <1>1, <2>1 DEF ArenaExit, CtlInv, CtlRest, Budget, Loop, Motion
<1> QED
  BY <1>3, <1>4

LEMMA CloseInv == ASSUME CtlInv, Close PROVE CtlInv'
<1>1. CASE Raises("FAIL_ILLEGAL_TRANSITION")
  <2>1. Files' /\ pc' = "ended"
    BY <1>1, RaisesType DEF CtlInv, Verdict
  <2> QED
    BY <1>1, <2>1
    DEF CtlInv, CtlRest, Strikes, EndType, FsmOK, Budget, Raises, Loop
<1>2. CASE ~Raises("FAIL_ILLEGAL_TRANSITION")
  <2>1. PICK stands \in BOOLEAN, held \in BOOLEAN, fallen \in BOOLEAN :
           result' = [verdict |-> Verdicts(stands, held, stands /\ fallen),
                      health |-> IF stands THEN "ok" ELSE "manifest_expired",
                      roundEnd |-> ending.roundEnd, ended |-> endReceived]
    BY <1>2 DEF Close
  <2>2. /\ pc' = "ended"
        /\ UNCHANGED <<applied, current, endReceived, fsm, seen, log, motion,
                       ending, control, strikeBox, published>>
    BY <1>2 DEF Close
  <2>3. Verdicts(stands, held, stands /\ fallen) \in Verdict
    BY DEF Verdicts, Verdict
  <2>4. ending.roundEnd \in RoundEnd /\ endReceived \in BOOLEAN
    BY DEF CtlInv, CtlRest, EndType
  <2>5. (IF stands THEN "ok" ELSE "manifest_expired") \in Health
    BY DEF Health
  <2>6. Files'
    BY <2>1, <2>2, <2>3, <2>4, <2>5 DEF CtlInv, Files, ResultType
  <2> QED
    BY <2>2, <2>6 DEF CtlInv, CtlRest, Strikes, EndType, FsmOK, Budget, Loop
<1> QED
  BY <1>1, <1>2

LEMMA KilledInv == ASSUME CtlInv, Killed PROVE CtlInv'
<1>1. result' = [verdict |-> "RUNNER_ERROR", health |-> "none",
                 roundEnd |-> "none", ended |-> FALSE]
  BY DEF Killed, NoResult
<1>2. result' \in ResultType
  BY <1>1 DEF ResultType, Verdict, RoundEnd
<1>3. Files'
  BY <1>2 DEF Killed, CtlInv, Files
<1> QED
  BY <1>3 DEF Killed, CtlInv, CtlRest, Strikes, EndType, FsmOK, Budget, Loop

LEMMA CtlType ==
    ASSUME CtlTypeOK, MailTypeOK, FsmOK, Budget, CtlNext
    PROVE  CtlTypeOK' /\ MailTypeOK' /\ FsmOK' /\ Budget'
<1>1. CtlInv
  BY CtlParts
<1>2. control.seq \in 0..MaxSeq /\ strikeBox.id \in 0..MaxSeq
  BY DEF MailTypeOK
<1>3. CtlInv'
  BY <1>1, <1>2, SetupInv, ReadControlInv, TimeIsUpInv, ReadStrikeInv,
     StrikeAdvancesInv, StrikeWaitsInv, StrikeOverInv, MovesInv,
     ControlFailsInv, RobotFailsInv, ArenaExitInv, CloseInv, KilledInv
  DEF CtlNext, Tick
<1>4. UNCHANGED <<control, strikeBox>>
  BY DEF CtlNext, Tick, Setup, Raises, ReadControl, ApplyMove, ApplyStop,
         ApplyEnd, TimeIsUp, ReadStrike, StrikeAdvances, StrikeWaits,
         StrikeOver, Moves, ControlFails, RobotFails, ArenaExit, Close,
         Killed, mailVars
<1>5. MailTypeOK'
  BY <1>3, <1>4, FilesType DEF CtlInv
<1> QED
  BY <1>3, <1>5 DEF CtlInv, CtlTypeOK, CtlRest, Strikes, EndType

LEMMA StepType == TypeInv /\ [Next]_vars => TypeInv'
<1> SUFFICES ASSUME TypeInv, [Next]_vars PROVE TypeInv'
  OBVIOUS
<1> USE DEF TypeInv, TypeOK
<1>1. CASE ApiNext /\ UNCHANGED ctlState
  <2>1. CtlTypeOK' /\ FsmOK' /\ Budget'
    BY <1>1 DEF ctlState, CtlTypeOK, FsmOK, Budget
  <2> QED
    BY <1>1, <2>1, ApiType
<1>2. CASE CtlNext /\ UNCHANGED apiVars
  <2>1. ApiTypeOK' /\ EpochOK'
    BY <1>2 DEF apiVars, ApiTypeOK, EpochOK
  <2> QED
    BY <1>2, <2>1, CtlType
<1>3. CASE Time /\ UNCHANGED <<apiVars, ctlState>>
  <2>1. ApiTypeOK' /\ EpochOK' /\ CtlTypeOK' /\ FsmOK' /\ Budget'
    BY <1>3
    DEF apiVars, ctlState, ApiTypeOK, EpochOK, CtlTypeOK, FsmOK, Budget
  <2> QED
    BY <1>3, <2>1, TimeType
<1>4. CASE UNCHANGED vars
  BY <1>4 DEF vars, apiVars, mailVars, ctlState, ApiTypeOK, EpochOK,
              MailTypeOK, CtlTypeOK, FsmOK, Budget
<1> QED
  BY <1>1, <1>2, <1>3, <1>4 DEF Next

(* Every variable of a game keeps its type; in particular the controller   *)
(* never begins more swings than the rules allow (strikes_started).        *)
THEOREM TypeCorrect == Spec => []TypeOK
<1>1. TypeInv => TypeOK
  BY DEF TypeInv
<1> QED
  BY <1>1, InitType, StepType, PTL DEF Spec

-----------------------------------------------------------------------------
(* The steps, by what they can disturb.                                    *)
CtlStep == CtlNext /\ UNCHANGED apiVars

LEMMA StepCases ==
    ASSUME [Next]_vars
    PROVE  \/ ApiNext /\ UNCHANGED ctlState
           \/ CtlStep
           \/ Time /\ UNCHANGED <<apiVars, ctlState>>
           \/ UNCHANGED vars
BY DEF Next, CtlStep

LEMMA TypeParts ==
    ASSUME TypeInv
    PROVE  /\ fsm \in Fsm /\ log \in Log /\ seen \subseteq StrikeId
           /\ FsmOK /\ endReceived \in BOOLEAN /\ ending.health \in Health
           /\ pc \in {"setup", "closing", "ended", "killed"} \cup Loop
           /\ motion \in Motion /\ applied \in Nat
BY DEF TypeInv, TypeOK, CtlTypeOK

(* After an END the strike under way is in recovery, and the loop goes on  *)
(* for that only.                                                          *)
EndOK ==
    /\ pc = "setup" => ~endReceived
    /\ endReceived => fsm.phase \in {"none", "recover"}
    /\ endReceived /\ pc \in Loop => fsm.phase = "recover"

LEMMA EndOKStep == TypeInv /\ EndOK /\ [Next]_vars => EndOK'
<1> SUFFICES ASSUME TypeInv, EndOK, [Next]_vars PROVE EndOK'
  OBVIOUS
<1> USE DEF EndOK
<1>a. fsm \in Fsm /\ FsmOK /\ endReceived \in BOOLEAN
  BY TypeParts
<1>1. CASE UNCHANGED ctlState
  BY <1>1 DEF ctlState
<1>2. ASSUME UNCHANGED <<fsm, endReceived>>, pc' # "setup",
             pc' \in Loop => pc \in Loop \/ pc = "setup"
      PROVE  EndOK'
  BY <1>2
<1>3. CASE Setup
  BY <1>2, <1>3 DEF Setup, Raises, Loop
<1>4. CASE ReadControl
  <2>1. CASE ~Accepts(control)
    BY <1>2, <1>4, <2>1 DEF ReadControl, Loop
  <2>2. CASE ApplyMove
    BY <1>2, <1>4, <2>2 DEF ReadControl, ApplyMove, Loop
  <2>3. CASE ApplyStop
    <3>1. fsm'.phase = IF fsm.id = 0 THEN fsm.phase ELSE "recover"
      BY <1>a, <2>3 DEF ApplyStop, Aborted, Fsm
    <3> QED
      BY <1>a, <1>4, <2>3, <3>1 DEF ReadControl, ApplyStop, FsmOK, Loop
  <2>4. CASE ApplyEnd
    <3>1. fsm'.phase = IF fsm.id = 0 THEN "none" ELSE "recover"
      BY <1>a, <2>4 DEF ApplyEnd, Aborted, Fsm, FsmOK
    <3>2. pc' = IF InStrike THEN "strikes" ELSE "closing"
      BY <2>4 DEF ApplyEnd, EndLoop
    <3> QED
      BY <3>1, <3>2 DEF InStrike, Loop
  <2> QED
    BY <1>4, <2>1, <2>2, <2>3, <2>4 DEF ReadControl
<1>5. CASE TimeIsUp
  BY <1>2, <1>5 DEF TimeIsUp, EndLoop, Loop
<1>6. CASE ReadStrike
  <2>1. CASE endReceived
    <3>1. InStrike
      BY <1>a, <1>6, <2>1 DEF ReadStrike, InStrike, FsmOK, Loop
    <3> QED
      BY <1>2, <1>6, <3>1 DEF ReadStrike, Loop
  <2>2. CASE ~endReceived
    BY <1>6, <2>2 DEF ReadStrike
  <2> QED
    BY <2>1, <2>2
<1>7. CASE StrikeAdvances
  <2>1. ~endReceived
    BY <1>7 DEF StrikeAdvances, Loop
  <2> QED
    BY <1>7, <2>1 DEF StrikeAdvances
<1>8. CASE StrikeWaits
  BY <1>2, <1>8 DEF StrikeWaits, Loop
<1>9. CASE StrikeOver
  <2>1. fsm'.phase = "none" /\ endReceived' = endReceived /\ pc' # "setup"
    BY <1>9 DEF StrikeOver, NoFsm, EndLoop
  <2>2. endReceived => pc' = "closing"
    BY <1>9 DEF StrikeOver, EndsAfter, EndLoop
  <2> QED
    BY <2>1, <2>2 DEF Loop
<1>10. CASE Moves
  BY <1>2, <1>10 DEF Moves, Loop
<1>11. CASE ControlFails
  BY <1>2, <1>11 DEF ControlFails, EndLoop, Loop
<1>12. CASE RobotFails
  BY <1>2, <1>12 DEF RobotFails, Raises, Loop
<1>13. CASE ArenaExit
  <2>1. fsm'.phase = IF fsm.id = 0 THEN "none" ELSE "recover"
    BY <1>a, <1>13 DEF ArenaExit, Aborted, Fsm, FsmOK
  <2>2. pc' = (IF InStrike THEN pc ELSE "closing") /\ endReceived' = endReceived
    BY <1>13 DEF ArenaExit, EndLoop
  <2> QED
    BY <1>13, <2>1, <2>2 DEF InStrike, ArenaExit, Loop
<1>14. CASE Close
  BY <1>2, <1>14 DEF Close, Raises, Loop
<1>15. CASE Killed
  BY <1>2, <1>15 DEF Killed, Loop
<1>16. CASE UNCHANGED vars
  BY <1>1, <1>16 DEF vars
<1> QED
  BY <1>1, <1>3, <1>4, <1>5, <1>6, <1>7, <1>8, <1>9, <1>10, <1>11, <1>12,
     <1>13, <1>14, <1>15, <1>16, StepCases DEF CtlStep, CtlNext, Tick

(* Once the controller took an END no swing begins, though the API goes on *)
(* accepting strikes (pending_end and end_received of the loop).           *)
THEOREM EndStopsSwings == Spec => []NoSwingAfterEnd
<1>1. Init => EndOK
  BY DEF Init, CtlInit, EndOK
<1>2. EndOK => NoSwingAfterEnd
  BY DEF EndOK, NoSwingAfterEnd
<1> QED
  BY <1>1, <1>2, InitType, StepType, EndOKStep, PTL DEF Spec

-----------------------------------------------------------------------------
(* What was decided was seen, and is not the strike under way.             *)
Decided == log.expired \cup log.unverified

SeenOK ==
    /\ fsm.id # 0 => fsm.id \in seen
    /\ Decided \subseteq seen /\ fsm.id \notin Decided
    /\ log.lastDone # 0 => log.lastDone \in seen /\ log.lastDone # fsm.id

LEMMA SeenOKStep == TypeInv /\ SeenOK /\ [Next]_vars => SeenOK'
<1> SUFFICES ASSUME TypeInv, SeenOK, [Next]_vars PROVE SeenOK'
  OBVIOUS
<1> USE DEF SeenOK, Decided
<1>a. fsm \in Fsm /\ FsmOK /\ log \in Log /\ seen \subseteq StrikeId
  BY TypeParts
<1>b. 0 \notin seen
  BY <1>a DEF StrikeId
<1>1. ASSUME UNCHANGED <<seen, log>>, fsm'.id = fsm.id PROVE SeenOK'
  BY <1>1
<1>2. ASSUME NEW why, fsm' = Aborted(fsm, why) PROVE fsm'.id = fsm.id
  BY <1>a, <1>2 DEF Aborted, Fsm
<1>3. CASE UNCHANGED ctlState
  BY <1>1, <1>3 DEF ctlState
<1>4. CASE ReadControl
  BY <1>1, <1>2, <1>4 DEF ReadControl, ApplyMove, ApplyStop, ApplyEnd
<1>5. CASE ReadStrike
  <2> DEFINE i == strikeBox.id
  <2>1. CASE ~Unseen(i)
    BY <1>1, <1>5, <2>1 DEF ReadStrike
  <2>2. CASE Unseen(i) /\ (InStrike \/ strikeBox.age # "valid")
    <3>1. fsm' = fsm /\ seen' = seen \cup {i} /\ i \notin seen /\ i # 0
          /\ log' = [log EXCEPT !.expired = @ \cup {i}]
      BY <1>5, <2>2 DEF ReadStrike, Unseen
    <3>2. log'.expired = log.expired \cup {i} /\ log'.lastDone = log.lastDone
          /\ log'.unverified = log.unverified
      BY <1>a, <3>1 DEF Log
    <3>3. fsm.id # i
      BY <3>1
    <3> QED
      BY <3>1, <3>2, <3>3
  <2>3. CASE Unseen(i) /\ ~(InStrike \/ strikeBox.age # "valid")
    <3>1. seen' = seen \cup {i} /\ i \notin seen /\ i # 0 /\ log' = log
          /\ fsm' = [NoFsm EXCEPT !.id = i, !.phase = "pre"]
      BY <1>5, <2>3 DEF ReadStrike, Unseen
    <3>2. fsm'.id = i
      BY <3>1 DEF NoFsm
    <3> QED
      BY <3>1, <3>2
  <2> QED
    BY <2>1, <2>2, <2>3
<1>6. CASE StrikeAdvances
  <2>1. fsm'.id = fsm.id
    BY <1>a, <1>6 DEF StrikeAdvances, NextPhase, Fsm
  <2>2. /\ log'.expired = log.expired /\ log'.unverified = log.unverified
        /\ log'.lastDone = log.lastDone
    BY <1>a, <1>6 DEF StrikeAdvances, Log
  <2> QED
    BY <1>6, <2>1, <2>2 DEF StrikeAdvances
<1>7. CASE StrikeOver
  <2>1. fsm'.id = 0 /\ seen' = seen /\ fsm.id # 0
    BY <1>7 DEF StrikeOver, NoFsm, InStrike
  <2>2. /\ log'.lastDone = fsm.id
        /\ log'.expired \subseteq log.expired \cup {fsm.id}
        /\ log'.unverified \subseteq log.unverified \cup {fsm.id}
    BY <1>a, <1>7 DEF StrikeOver, Over, Log
  <2> QED
    BY <1>b, <2>1, <2>2
<1>8. CASE ArenaExit
  BY <1>1, <1>2, <1>8 DEF ArenaExit
<1>9. CASE \/ Setup \/ TimeIsUp \/ StrikeWaits \/ Moves \/ ControlFails
           \/ RobotFails \/ Close \/ Killed
  BY <1>1, <1>9 DEF Setup, TimeIsUp, StrikeWaits, Moves, ControlFails,
                    RobotFails, Close, Killed, Raises
<1> QED
  BY <1>3, <1>4, <1>5, <1>6, <1>7, <1>8, <1>9, StepCases
  DEF CtlStep, CtlNext, Tick, vars

(* A strike that was decided, swung or not, is not begun again, however    *)
(* often its file is read (strike_ids_seen).                               *)
THEOREM DecidedStaysDecided == Spec => DecidedNeverBegins
<1> DEFINE Once == \A i \in StrikeId :
                      fsm.id # i /\ fsm'.id = i =>
                         i # log.lastDone /\ i \notin Decided
<1>1. Init => SeenOK
  BY DEF Init, CtlInit, SeenOK, Decided, NoFsm, NoLog
<1>2. TypeInv /\ SeenOK /\ [Next]_vars => [Once]_vars
  <2> SUFFICES ASSUME TypeInv, SeenOK, [Next]_vars,
                      NEW i \in StrikeId, fsm.id # i, fsm'.id = i
               PROVE  i \notin seen
    BY DEF SeenOK, StrikeId
  <2>a. fsm \in Fsm /\ i # 0
    BY TypeParts DEF StrikeId
  <2>1. ASSUME NEW why, fsm' = Aborted(fsm, why) PROVE FALSE
    BY <2>a, <2>1 DEF Aborted, Fsm
  <2>2. ~UNCHANGED ctlState /\ ~UNCHANGED vars
    BY DEF ctlState, vars
  <2>3. CASE ReadControl
    BY <2>1, <2>3 DEF ReadControl, ApplyMove, ApplyStop, ApplyEnd
  <2>4. CASE ReadStrike
    BY <2>4 DEF ReadStrike, Unseen, NoFsm
  <2>5. ~StrikeAdvances
    <3>1. NextPhase(fsm).id = fsm.id
      BY <2>a DEF NextPhase, Fsm
    <3> QED
      BY <3>1 DEF StrikeAdvances
  <2>6. ~StrikeOver
    <3>1. StrikeOver => fsm' = NoFsm
      BY DEF StrikeOver
    <3> QED
      BY <2>a, <3>1 DEF NoFsm
  <2>7. ~ArenaExit
    BY <2>1 DEF ArenaExit
  <2>8. ~(\/ Setup \/ TimeIsUp \/ StrikeWaits \/ Moves \/ ControlFails
          \/ RobotFails \/ Close \/ Killed)
    BY DEF Setup, TimeIsUp, StrikeWaits, Moves, ControlFails, RobotFails,
           Close, Killed, Raises
  <2> QED
    BY <2>2, <2>3, <2>4, <2>5, <2>6, <2>7, <2>8, StepCases
    DEF CtlStep, CtlNext, Tick
<1>3. DecidedNeverBegins <=> [][Once]_vars
  BY DEF DecidedNeverBegins, Decided
<1> QED
  BY <1>1, <1>2, <1>3, InitType, StepType, SeenOKStep, PTL DEF Spec

-----------------------------------------------------------------------------
(* The language model: a question is numbered, and what is taken after it  *)
(* has a higher number.                                                    *)
AskOK ==
    \A a \in asks : /\ a.ticket <= g.inputSeq
                    /\ a.overtaken => a.ticket < g.inputSeq

LEMMA OvertakenBy ==
    ASSUME TypeInv, AskOK, NEW as \in SUBSET asks,
           NEW n, n = g.inputSeq + 1
    PROVE  \A a \in Overtaken(as) : a.ticket < n
<1> SUFFICES ASSUME NEW b \in as
             PROVE  [b EXCEPT !.overtaken = TRUE].ticket < n
  BY DEF Overtaken
<1>1. /\ b \in [ticket: 1..MaxInput, gen: 0..MaxSeq, overtaken: BOOLEAN]
      /\ g.inputSeq \in 0..MaxInput
  BY DEF TypeInv, TypeOK, ApiTypeOK, Game
<1>2. b.ticket <= g.inputSeq
  BY DEF AskOK
<1>3. [b EXCEPT !.overtaken = TRUE].ticket = b.ticket
  BY <1>1
<1>4. b.ticket \in Nat /\ g.inputSeq \in Nat
  BY <1>1, GameBounds
<1> QED
  BY <1>2, <1>3, <1>4

LEMMA InputCounted ==
    ASSUME TypeInv, NEW type \in CommandType, GameWrite(type)
    PROVE  g'.inputSeq = g.inputSeq + 1
<1>1. g \in Game
  BY DEF TypeInv, TypeOK, ApiTypeOK
<1>2. PICK p : g' = Numbered(type, p)
  BY DEF GameWrite, Delivered, NotDelivered
<1>3. Numbered(type, p).inputSeq = g.inputSeq + 1
  <2> DEFINE e == IF type \in {"stop", "end"} THEN g.epoch + 1 ELSE g.epoch
  <2>1. Numbered(type, p) =
          [g EXCEPT !.seq = g.seq + 1, !.inputSeq = g.inputSeq + 1,
                    !.pending = p, !.epoch = e]
    BY DEF Numbered
  <2> HIDE DEF e
  <2> QED
    BY <1>1, <2>1 DEF Game
<1> QED
  BY <1>2, <1>3

LEMMA AskOKStep == TypeInv /\ AskOK /\ [Next]_vars => AskOK'
<1> SUFFICES ASSUME TypeInv, AskOK, [Next]_vars PROVE AskOK'
  OBVIOUS
<1>a. g \in Game /\ g.inputSeq \in Nat
  BY GameBounds DEF TypeInv, TypeOK, ApiTypeOK, Game
<1>1. ASSUME asks' \subseteq asks, g'.inputSeq = g.inputSeq PROVE AskOK'
  BY <1>1 DEF AskOK
<1>2. ASSUME NEW as \in SUBSET asks, asks' = Overtaken(as),
             g'.inputSeq = g.inputSeq + 1
      PROVE  AskOK'
  <2>1. \A a \in asks' : a.ticket < g'.inputSeq
    BY <1>2, OvertakenBy
  <2>2. \A a \in asks' : a.ticket \in Nat
    <3>1. TypeInv'
      BY StepType
    <3> QED
      BY <3>1, GameBounds DEF TypeInv, TypeOK, ApiTypeOK
  <2>3. g'.inputSeq \in Nat
    BY <1>a, <1>2
  <2> QED
    BY <2>1, <2>2, <2>3 DEF AskOK
<1>3. ASSUME NEW type \in CommandType, ParsedCommand(type) PROVE AskOK'
  BY <1>2, <1>3, InputCounted DEF ParsedCommand
<1>4. ASSUME NEW type \in CommandType, NEW a \in asks, ModelAnswers(a, type)
      PROVE  AskOK'
  BY <1>2, <1>4, InputCounted DEF ModelAnswers
<1>5. CASE Prohibit
  BY <1>a, <1>2, <1>5 DEF Prohibit, Prohibited, Game
<1>6. CASE AskModel
  <2>1. g'.inputSeq = g.inputSeq + 1
    BY <1>a, <1>6 DEF AskModel, Game
  <2>2. \A a \in Overtaken(asks) : a.ticket < g.inputSeq + 1
    BY OvertakenBy
  <2> DEFINE q == [ticket |-> g.inputSeq + 1, gen |-> g.epoch,
                   overtaken |-> FALSE]
  <2>3. asks' = Overtaken(asks) \cup {q}
    BY <1>6 DEF AskModel
  <2>4. q.ticket = g.inputSeq + 1 /\ ~q.overtaken
    OBVIOUS
  <2>5. \A a \in Overtaken(asks) : a.ticket \in Nat
    BY OvertakenType, GameBounds DEF TypeInv, TypeOK, ApiTypeOK
  <2> QED
    BY <1>a, <2>1, <2>2, <2>3, <2>4, <2>5 DEF AskOK
<1>7. ASSUME NEW a \in asks, AnswerDropped(a) PROVE AskOK'
  BY <1>a, <1>1, <1>7 DEF AnswerDropped, Game
<1>8. CASE StrikeRefused \/ FinishGame \/ RevokeGame
  BY <1>a, <1>1, <1>8 DEF StrikeRefused, FinishGame, RevokeGame, Game
<1>9. CASE UNCHANGED apiVars
  BY <1>1, <1>9 DEF apiVars
<1> QED
  BY <1>3, <1>4, <1>5, <1>6, <1>7, <1>8, <1>9, StepCases
  DEF ApiNext, CtlStep, vars

(* No answer of the language model writes a command once another input was *)
(* taken, however late it comes (gen and ticket of game_command).          *)
THEOREM LateAnswersDropped == Spec => NoLateInterpretation
<1> DEFINE Dropped == \A a \in asks \ asks' : a.overtaken => g'.seq = g.seq
<1>1. Init => AskOK
  BY DEF Init, ApiInit, AskOK
<1>2. TypeInv /\ AskOK /\ [Next]_vars => [Dropped]_vars
  <2> SUFFICES ASSUME TypeInv, AskOK, [Next]_vars,
                      NEW a \in asks, a \notin asks', a.overtaken
               PROVE  g'.seq = g.seq
    OBVIOUS
  <2>1. /\ a \in [ticket: 1..MaxInput, gen: 0..MaxSeq, overtaken: BOOLEAN]
        /\ g \in Game
    BY DEF TypeInv, TypeOK, ApiTypeOK
  <2>2. a.ticket < g.inputSeq
    BY DEF AskOK
  <2>3. ASSUME NEW as, a \in as PROVE a \in Overtaken(as)
    <3>1. [a EXCEPT !.overtaken = TRUE] = a
      BY <2>1
    <3> QED
      BY <2>3, <3>1 DEF Overtaken
  <2>4. ASSUME NEW type, ParsedCommand(type) PROVE FALSE
    BY <2>3, <2>4 DEF ParsedCommand
  <2>5. ASSUME NEW type, NEW b \in asks, ModelAnswers(b, type) PROVE FALSE
    <3>1. b = a
      BY <2>3, <2>5 DEF ModelAnswers
    <3>2. a.ticket = g.inputSeq
      BY <2>5, <3>1 DEF ModelAnswers, StillCurrent
    <3> QED
      BY <2>1, <2>2, <3>2, GameBounds DEF Game
  <2>6. CASE StrikeRefused \/ FinishGame \/ RevokeGame \/ Prohibit \/ AskModel
    BY <2>1, <2>6 DEF StrikeRefused, FinishGame, RevokeGame, Prohibit,
                      Prohibited, AskModel, Game
  <2>7. ASSUME NEW b \in asks, AnswerDropped(b) PROVE g'.seq = g.seq
    BY <2>1, <2>7 DEF AnswerDropped, Game
  <2>8. CASE UNCHANGED apiVars
    BY <2>8 DEF apiVars
  <2> QED
    BY <2>4, <2>5, <2>6, <2>7, <2>8, StepCases DEF ApiNext, CtlStep, vars
<1>3. NoLateInterpretation <=> [][Dropped]_vars
  BY DEF NoLateInterpretation
<1> QED
  BY <1>1, <1>2, <1>3, InitType, StepType, AskOKStep, PTL DEF Spec

-----------------------------------------------------------------------------
(* The robot begins a move only with a command of a number not used yet.   *)
THEOREM MovesOnce == Spec => NoReplay
<1> DEFINE New == motion = "none" /\ motion' # "none" => applied' > applied
<1>1. TypeInv /\ [Next]_vars => [New]_vars
  <2> SUFFICES ASSUME TypeInv, [Next]_vars, motion = "none", motion' # "none"
               PROVE  applied' > applied
    OBVIOUS
  <2>1. CASE ReadControl
    <3>1. Accepts(control)
      BY <2>1 DEF ReadControl
    <3> QED
      BY <2>1, <3>1 DEF ReadControl, Accepts
  <2>2. ~Moves
    BY DEF Moves, MotionNext
  <2>3. ~(\/ Setup \/ ReadStrike \/ StrikeAdvances \/ StrikeWaits \/ StrikeOver
          \/ TimeIsUp \/ ControlFails \/ RobotFails \/ ArenaExit \/ Close
          \/ Killed)
    BY DEF Setup, ReadStrike, StrikeAdvances, StrikeWaits, StrikeOver, TimeIsUp,
           ControlFails, RobotFails, ArenaExit, Close, Killed, Raises
  <2>4. ~UNCHANGED ctlState /\ ~UNCHANGED vars
    BY DEF ctlState, vars
  <2> QED
    BY <2>1, <2>2, <2>3, <2>4, StepCases DEF CtlStep, CtlNext, Tick
<1>2. NoReplay <=> [][New]_vars
  BY DEF NoReplay
<1> QED
  BY <1>1, <1>2, InitType, StepType, PTL DEF Spec

-----------------------------------------------------------------------------
(* A result is final, a PASS is one of a healthy controller, and a killed  *)
(* one names no end of the game.                                           *)
ResultOK ==
    /\ result.verdict # "none" => pc \in {"ended", "killed"}
    /\ result.verdict = "none" => result = NoResult
    /\ result.verdict = "PASS" => ending.health = "ok"
    /\ result.verdict = "RUNNER_ERROR" =>
          result.roundEnd = "none" /\ result.ended = FALSE

OutcomeOK == g.outcome \notin {"none", "fault"} => result.verdict = "PASS"

LEMMA ResultOKStep == TypeInv /\ ResultOK /\ [Next]_vars => ResultOK'
<1> SUFFICES ASSUME TypeInv, ResultOK, [Next]_vars PROVE ResultOK'
  OBVIOUS
<1>1. CASE UNCHANGED <<pc, ending, result>>
  BY <1>1 DEF ResultOK
<1>2. ApiNext \/ Time => UNCHANGED result
  BY DEF ApiNext, ParsedCommand, ModelAnswers, GameWrite, StrikeRefused,
         Prohibit, AskModel, AnswerDropped, FinishGame, RevokeGame, Time,
         CommandGrowsStale, StrikeExpires, StrikeOverdue, mailVars
<1>3. CASE (ApiNext \/ Time) /\ UNCHANGED ctlState
  BY <1>1, <1>2, <1>3 DEF ctlState
<1>4. ASSUME UNCHANGED result, pc \notin {"ended", "killed"} PROVE ResultOK'
  BY <1>4 DEF ResultOK, NoResult
<1>5. CASE Tick \/ TimeIsUp \/ ControlFails \/ ArenaExit
  BY <1>4, <1>5 DEF Tick, ReadControl, ApplyMove, ApplyStop, ApplyEnd,
     ReadStrike, StrikeAdvances, StrikeWaits, StrikeOver, Moves, TimeIsUp,
     ControlFails, ArenaExit, mailVars
<1>6. ASSUME NEW verdict \in Verdict \ {"PASS", "RUNNER_ERROR"}, Raises(verdict)
      PROVE  ResultOK'
  <2>1. result'.verdict = verdict /\ pc' = "ended"
    BY <1>6 DEF Raises, NoResult
  <2>2. verdict \notin {"none", "PASS", "RUNNER_ERROR"}
    BY <1>6 DEF Verdict
  <2> QED
    BY <2>1, <2>2 DEF ResultOK
<1>7. CASE Setup
  BY <1>4, <1>6, <1>7 DEF Setup, Verdict, mailVars
<1>8. CASE RobotFails
  BY <1>6, <1>8 DEF RobotFails, Verdict
<1>9. CASE Close
  <2>1. CASE Raises("FAIL_ILLEGAL_TRANSITION")
    BY <1>6, <2>1 DEF Verdict
  <2>2. CASE ~Raises("FAIL_ILLEGAL_TRANSITION")
    <3>1. CleanEnd
      BY <1>9, <2>2 DEF Close, LegalPhases
    <3>2. PICK v \in {"PASS", "UNKNOWN_END_HOLD", "FAIL_FALLEN",
                      "FAIL_NO_CLEAN_END"} : result'.verdict = v
      BY <1>9, <2>2 DEF Close, Verdicts
    <3>3. pc' = "ended" /\ ending' = ending
      BY <1>9, <2>2 DEF Close
    <3> QED
      BY <3>1, <3>2, <3>3 DEF ResultOK, CleanEnd
  <2> QED
    BY <2>1, <2>2
<1>10. CASE Killed
  <2>1. /\ result'.verdict = "RUNNER_ERROR" /\ result'.roundEnd = "none"
        /\ result'.ended = FALSE /\ pc' = "killed"
    BY <1>10 DEF Killed, NoResult
  <2> QED
    BY <2>1 DEF ResultOK
<1> QED
  BY <1>1, <1>3, <1>5, <1>7, <1>8, <1>9, <1>10, StepCases
  DEF CtlStep, CtlNext, vars, mailVars, ctlState

LEMMA OutcomeOKStep ==
    TypeInv /\ ResultOK /\ OutcomeOK /\ [Next]_vars => OutcomeOK'
<1> SUFFICES ASSUME TypeInv, ResultOK, OutcomeOK, [Next]_vars PROVE OutcomeOK'
  OBVIOUS
<1>a. g \in Game
  BY DEF TypeInv, TypeOK, ApiTypeOK
<1>1. ASSUME g'.outcome = g.outcome, UNCHANGED result PROVE OutcomeOK'
  BY <1>1 DEF OutcomeOK
<1>2. CASE FinishGame
  <2>1. result.verdict # "none" /\ UNCHANGED result
    BY <1>2 DEF FinishGame, ResultOK, mailVars
  <2>2. g'.outcome = Outcome(result)
    BY <1>a, <1>2 DEF FinishGame, Game
  <2>3. Outcome(result) # "fault" => result.verdict = "PASS"
    BY <2>1 DEF Outcome, Faulty, ResultOK
  <2> QED
    BY <2>1, <2>2, <2>3 DEF OutcomeOK
<1>3. ASSUME NEW type \in CommandType, GameWrite(type) PROVE OutcomeOK'
  <2> DEFINE e == IF type \in {"stop", "end"} THEN g.epoch + 1 ELSE g.epoch
  <2>1. PICK p : g' = Numbered(type, p)
    BY <1>3 DEF GameWrite, Delivered, NotDelivered
  <2>2. g' = [g EXCEPT !.seq = g.seq + 1, !.inputSeq = g.inputSeq + 1,
                       !.pending = p, !.epoch = e]
    BY <2>1 DEF Numbered
  <2> HIDE DEF e
  <2>3. g'.outcome = g.outcome
    BY <1>a, <2>2 DEF Game
  <2> QED
    BY <1>1, <1>3, <2>3 DEF GameWrite
<1>4. CASE ApiNext
  BY <1>a, <1>1, <1>2, <1>3, <1>4
  DEF ApiNext, ParsedCommand, ModelAnswers, StrikeRefused, Prohibit, Prohibited,
      AskModel, AnswerDropped, RevokeGame, mailVars, Game
<1>5. CASE CtlStep
  <2>1. g' = g
    BY <1>5 DEF CtlStep, apiVars
  <2>2. CASE result.verdict = "none"
    BY <2>1, <2>2 DEF OutcomeOK
  <2>3. CASE result.verdict # "none"
    <3>1. pc \in {"ended", "killed"}
      BY <2>3 DEF ResultOK
    <3> QED
      BY <1>5, <3>1 DEF CtlStep, CtlNext, Tick, Setup, ReadControl, ReadStrike,
         StrikeAdvances, StrikeWaits, StrikeOver, Moves, TimeIsUp, ControlFails,
         RobotFails, ArenaExit, Close, Killed, Loop
  <2> QED
    BY <2>2, <2>3
<1>6. CASE Time /\ UNCHANGED <<apiVars, ctlState>>
  BY <1>1, <1>6 DEF Time, CommandGrowsStale, StrikeExpires, StrikeOverdue,
                    apiVars
<1>7. CASE UNCHANGED vars
  BY <1>1, <1>7 DEF vars, apiVars, mailVars
<1> QED
  BY <1>4, <1>5, <1>6, <1>7, StepCases

(* An end of the game other than a fault is told only of a controller that *)
(* passed and was healthy when it left its loop (finish_run, outcome).     *)
THEOREM FaultsAreShown == Spec => []FaultIsShown
<1>1. Init => ResultOK /\ OutcomeOK
  BY DEF Init, MailInit, ApiInit, NoResult, ResultOK, OutcomeOK
<1>2. ResultOK /\ OutcomeOK => FaultIsShown
  BY DEF ResultOK, OutcomeOK, FaultIsShown
<1> QED
  BY <1>1, <1>2, InitType, StepType, ResultOKStep, OutcomeOKStep, PTL DEF Spec

-----------------------------------------------------------------------------
(* One strike ahead: the API sees the controller through published, a state*)
(* of some time ago.  That is enough because what it misses is covered: a  *)
(* strike that may still swing is reserved, or shown as under way; and the *)
(* reservation is given up too early only for one that is shown.           *)
PublishedOK ==
    /\ published.fsm.id # 0 => published.fsm.id \in seen
    /\ published.log.expired \cup published.log.unverified \subseteq seen
    /\ published.log.lastDone # 0 => published.log.lastDone \in seen

IdsOK == strikeBox.id <= g.seq /\ \A i \in seen : i <= g.seq

Shown(i) == fsm.id = i /\ published.fsm.id = i

AheadOK ==
    \A i \in MaySwing :
        /\ ~Told(i)
        /\ g.pending = i \/ Shown(i)
        /\ strikeBox.id = i /\ strikeBox.age = "overdue" => Shown(i)

SetupOK == pc = "setup" => fsm.phase = "none"

AheadInv == PublishedOK /\ IdsOK /\ AheadOK /\ SetupOK /\ OneStrikeAhead

(* A second strike is accepted only when nothing may swing any more.       *)
LEMMA AcceptedAlone ==
    ASSUME AheadInv, MayStrike PROVE MaySwing = {}
<1> SUFFICES ASSUME NEW i \in MaySwing PROVE FALSE
  OBVIOUS
<1>1. i # 0
  BY DEF MaySwing, StrikeId
<1>2. published.fsm.id = 0 /\ Resolved(g.pending) = 0
  BY DEF MayStrike
<1>3. ~Shown(i) /\ ~Told(i)
  BY <1>1, <1>2 DEF AheadInv, AheadOK, Shown
<1>4. g.pending = i /\ ~(strikeBox.id = i /\ strikeBox.age = "overdue")
  BY <1>3 DEF AheadInv, AheadOK
<1> QED
  BY <1>1, <1>2, <1>3, <1>4 DEF Resolved

(* What a step of the controller does to the strikes that may swing.       *)
Advance ==
    /\ UNCHANGED strikeBox
    /\ published' \in {published, Snapshot'}
    /\ seen \subseteq seen' /\ seen' \subseteq seen \cup ({strikeBox.id} \ {0})
    /\ pc' # "setup" /\ (pc' \in Loop => pc \in {"setup"} \cup Loop)
    /\ pc' \in Loop /\ fsm'.phase \in {"pre", "dance"} =>
          \/ /\ pc \in Loop /\ fsm.phase \in {"pre", "dance"}
             /\ fsm.id = fsm'.id
          \/ /\ pc \in Loop /\ fsm'.id \notin seen
             /\ strikeBox.id = fsm'.id /\ strikeBox.age = "valid"

LEMMA CtlAdvances == ASSUME TypeInv, SetupOK, CtlNext PROVE Advance
<1> USE DEF Advance
<1>a. fsm \in Fsm /\ FsmOK
  BY TypeParts
<1>1. ASSUME UNCHANGED <<strikeBox, seen, fsm>>, pc \in Loop, pc' # "setup",
             published' \in {published, Snapshot'}
      PROVE  Advance
  BY <1>1
<1>2. ASSUME UNCHANGED <<strikeBox, seen>>, pc' \notin {"setup"} \cup Loop,
             published' \in {published, Snapshot'}
      PROVE  Advance
  BY <1>2
<1>3. ASSUME NEW why, fsm' = Aborted(fsm, why)
      PROVE  fsm'.phase \notin {"pre", "dance"}
  <2>1. fsm'.phase = IF fsm.id = 0 THEN "none" ELSE "recover"
    BY <1>a, <1>3 DEF Aborted, Fsm, FsmOK
  <2> QED
    BY <2>1
<1>4. CASE Setup
  <2>1. CASE Raises("FAIL_RAISED")
    BY <1>2, <2>1 DEF Raises, Loop
  <2>2. CASE ~Raises("FAIL_RAISED")
    <3>1. fsm'.phase = "none" /\ pc' = "control" /\ pc = "setup"
      BY <1>4, <2>2 DEF Setup, SetupOK
    <3> QED
      BY <1>4, <2>2, <3>1 DEF Setup, mailVars
  <2> QED
    BY <2>1, <2>2
<1>5. CASE ReadControl
  <2>1. pc \in Loop
    BY <1>5 DEF ReadControl, Loop
  <2>2. CASE ~Accepts(control) \/ ApplyMove
    BY <1>1, <1>5, <2>1, <2>2 DEF ReadControl, ApplyMove, mailVars
  <2>3. CASE ApplyStop
    BY <1>3, <1>5, <2>1, <2>3 DEF ReadControl, ApplyStop, mailVars
  <2>4. CASE ApplyEnd
    <3>1. /\ UNCHANGED <<strikeBox, seen>> /\ pc' # "setup"
          /\ published' \in {published, Snapshot'}
      BY <2>4 DEF ApplyEnd, EndLoop
    <3>2. fsm'.phase \notin {"pre", "dance"}
      BY <1>3, <2>4 DEF ApplyEnd
    <3> QED
      BY <2>1, <3>1, <3>2
  <2> QED
    BY <1>5, <2>2, <2>3, <2>4 DEF ReadControl
<1>6. CASE TimeIsUp
  BY <1>2, <1>6 DEF TimeIsUp, EndLoop, Loop
<1>7. CASE ReadStrike
  <2>1. pc \in Loop /\ pc' = "drive" /\ UNCHANGED <<strikeBox, published>>
    BY <1>7 DEF ReadStrike, Loop, mailVars
  <2>2. CASE ~Unseen(strikeBox.id)
    BY <1>1, <1>7, <2>1, <2>2 DEF ReadStrike
  <2>3. CASE Unseen(strikeBox.id)
    <3>1. seen' = seen \cup {strikeBox.id} /\ strikeBox.id \notin seen \cup {0}
      BY <1>7, <2>3 DEF ReadStrike, Unseen
    <3>2. \/ fsm' = fsm
          \/ /\ strikeBox.age = "valid"
             /\ fsm' = [NoFsm EXCEPT !.id = strikeBox.id, !.phase = "pre"]
      BY <1>7, <2>3 DEF ReadStrike
    <3>3. \/ fsm' = fsm
          \/ strikeBox.age = "valid" /\ fsm'.id = strikeBox.id
      BY <3>2 DEF NoFsm
    <3> QED
      BY <2>1, <3>1, <3>3
  <2> QED
    BY <2>2, <2>3
<1>8. CASE StrikeAdvances
  <2>1. fsm'.phase \in {"pre", "dance"} =>
           fsm.phase \in {"pre", "dance"} /\ fsm.id = fsm'.id
    <3>1. fsm' = NextPhase(fsm) /\ fsm.phase \in {"none", "pre", "dance", "swing"}
      BY <1>a, <1>8 DEF StrikeAdvances, Fsm
    <3>2. CASE fsm.phase = "pre"
      BY <1>a, <3>1, <3>2 DEF NextPhase, Fsm
    <3>3. CASE fsm.phase = "dance"
      BY <1>a, <3>1, <3>3 DEF NextPhase, Fsm
    <3>4. CASE fsm.phase = "swing"
      BY <1>a, <3>1, <3>4 DEF NextPhase, Fsm
    <3>5. fsm.phase # "none"
      BY <1>a, <1>8 DEF StrikeAdvances, InStrike, FsmOK
    <3> QED
      BY <3>1, <3>2, <3>3, <3>4, <3>5
  <2>2. /\ UNCHANGED <<strikeBox, seen>> /\ pc = "drive" /\ pc' = "control"
        /\ published' \in {published, Snapshot'}
    BY <1>8 DEF StrikeAdvances, MayPublish
  <2> QED
    BY <2>1, <2>2 DEF Loop
<1>9. CASE StrikeWaits
  BY <1>1, <1>9 DEF StrikeWaits, MayPublish, Loop
<1>10. CASE StrikeOver
  <2>1. fsm'.phase = "none"
    BY <1>10 DEF StrikeOver, NoFsm
  <2>2. /\ UNCHANGED <<strikeBox, seen>> /\ pc = "drive" /\ pc' # "setup"
        /\ published' \in {published, Snapshot'}
    BY <1>10 DEF StrikeOver, EndLoop, MayPublish
  <2> QED
    BY <2>1, <2>2 DEF Loop
<1>11. CASE Moves
  BY <1>1, <1>11 DEF Moves, MayPublish, Loop
<1>12. CASE ControlFails
  BY <1>2, <1>12 DEF ControlFails, EndLoop, Loop
<1>13. CASE RobotFails
  BY <1>2, <1>13 DEF RobotFails, Raises, Loop
<1>14. CASE ArenaExit
  <2>1. fsm'.phase \notin {"pre", "dance"}
    BY <1>3, <1>14 DEF ArenaExit
  <2>2. /\ UNCHANGED <<strikeBox, seen>> /\ pc = "drive" /\ pc' # "setup"
        /\ published' \in {published, Snapshot'}
    BY <1>14 DEF ArenaExit, EndLoop
  <2> QED
    BY <2>1, <2>2 DEF Loop
<1>15. CASE Close
  BY <1>2, <1>15 DEF Close, Raises, Loop
<1>16. CASE Killed
  BY <1>2, <1>16 DEF Killed, Loop
<1> QED
  BY <1>4, <1>5, <1>6, <1>7, <1>8, <1>9, <1>10, <1>11, <1>12, <1>13, <1>14,
     <1>15, <1>16 DEF CtlNext, Tick

(* The controller's own steps: no strike may swing that could not before.  *)
LEMMA CtlAhead ==
    ASSUME TypeInv, TypeInv', SeenOK, SeenOK', AheadInv, CtlNext, g' = g
    PROVE  AheadInv'
<1>a. Advance
  BY CtlAdvances DEF AheadInv
<1>b. /\ seen \subseteq StrikeId /\ strikeBox.id \in Nat /\ g.seq \in Nat
      /\ fsm' \in Fsm /\ FsmOK'
  BY TypeParts, GameBounds
  DEF TypeInv, TypeOK, CtlTypeOK, MailTypeOK, ApiTypeOK, Game
<1>1. MaySwing' \subseteq MaySwing
  BY <1>a DEF MaySwing, Advance
<1>2. PublishedOK'
  <2>1. CASE published' = published
    BY <1>a, <2>1 DEF AheadInv, PublishedOK, Advance
  <2>2. CASE published' = Snapshot'
    <3>1. published'.fsm = fsm' /\ published'.log = log'
      BY <2>2 DEF Snapshot
    <3> QED
      BY <3>1 DEF PublishedOK, SeenOK, Decided
  <2> QED
    BY <1>a, <2>1, <2>2 DEF Advance
<1>3. IdsOK' /\ SetupOK' /\ OneStrikeAhead'
  <2>1. IdsOK'
    BY <1>a, <1>b DEF AheadInv, IdsOK, Advance
  <2>2. SetupOK'
    BY <1>a DEF SetupOK, Advance
  <2>3. OneStrikeAhead'
    BY <1>1 DEF AheadInv, OneStrikeAhead
  <2> QED
    BY <2>1, <2>2, <2>3
<1>4. AheadOK'
  <2> SUFFICES ASSUME NEW i \in MaySwing'
               PROVE  /\ ~Told(i)'
                      /\ g'.pending = i \/ Shown(i)'
                      /\ strikeBox'.id = i /\ strikeBox'.age = "overdue"
                            => Shown(i)'
    BY DEF AheadOK
  <2>1. /\ i \in StrikeId /\ i # 0
        /\ i \notin seen' \/ (fsm'.id = i /\ fsm'.phase \in {"pre", "dance"})
    BY DEF MaySwing, StrikeId
  <2>2. i \in MaySwing /\ ~Told(i) /\ (g.pending = i \/ Shown(i))
        /\ (strikeBox.id = i /\ strikeBox.age = "overdue" => Shown(i))
    BY <1>1 DEF AheadInv, AheadOK
  <2>3. ~Told(i)'
    <3>1. CASE published' = published
      BY <2>2, <3>1 DEF Told
    <3>2. CASE published' = Snapshot'
      <4>1. published'.fsm = fsm' /\ published'.log = log'
        BY <3>2 DEF Snapshot
      <4>2. fsm'.id = i => fsm'.phase # "recover" /\ ~fsm'.consumed
        <5>1. fsm'.id = i => fsm'.phase \in {"pre", "dance"}
          BY <2>1 DEF SeenOK
        <5> QED
          BY <1>b, <5>1 DEF FsmOK
      <4>3. i \notin log'.expired \cup log'.unverified /\ i # log'.lastDone
        BY <2>1 DEF SeenOK, Decided
      <4> QED
        BY <4>1, <4>2, <4>3 DEF Told
    <3> QED
      BY <1>a, <3>1, <3>2 DEF Advance
  <2>4. Shown(i) => Shown(i)'
    <3> SUFFICES ASSUME Shown(i) PROVE Shown(i)'
      OBVIOUS
    <3>1. i \in seen'
      BY <1>a, <2>1 DEF Shown, SeenOK, Advance
    <3>2. fsm'.id = i
      BY <2>1, <3>1
    <3>3. published'.fsm.id = i
      BY <1>a, <3>2 DEF Shown, Advance, Snapshot
    <3> QED
      BY <3>2, <3>3 DEF Shown
  <2> QED
    BY <1>a, <2>2, <2>3, <2>4 DEF Advance
<1> QED
  BY <1>2, <1>3, <1>4 DEF AheadInv

(* The time that passes until a reservation is given up unanswered.        *)
LEMMA TimeAhead ==
    ASSUME TypeInv, SeenOK, AheadInv, Time, UNCHANGED <<apiVars, ctlState>>
    PROVE  AheadInv'
<1>a. /\ UNCHANGED <<g, pc, fsm, seen, log, published>>
      /\ strikeBox \in [id: 0..MaxSeq, age: {"valid", "expired", "overdue"}]
  BY DEF Time, CommandGrowsStale, StrikeExpires, StrikeOverdue, apiVars, ctlState,
         TypeInv, TypeOK, MailTypeOK
<1>b. strikeBox'.id = strikeBox.id
      /\ (strikeBox'.age = "valid" => strikeBox.age = "valid")
  BY <1>a DEF Time, CommandGrowsStale, StrikeExpires, StrikeOverdue
<1>1. MaySwing' \subseteq MaySwing
  BY <1>a, <1>b DEF MaySwing
<1>2. PublishedOK' /\ IdsOK' /\ SetupOK' /\ OneStrikeAhead'
  BY <1>a, <1>b, <1>1 DEF AheadInv, PublishedOK, IdsOK, SetupOK, OneStrikeAhead
<1>3. \A i : (Told(i)' <=> Told(i)) /\ (Shown(i)' <=> Shown(i))
  BY <1>a DEF Told, Shown
<1>4. ASSUME NEW i \in MaySwing', strikeBox'.id = i, strikeBox'.age = "overdue"
      PROVE  Shown(i)
  <2>1. i \in MaySwing /\ ~Told(i)
    BY <1>1, <1>4 DEF AheadInv, AheadOK
  <2>2. CASE StrikeOverdue
    <3>1. pc \in Loop /\ fsm.id = i /\ i # 0
      BY <1>a, <1>b, <1>4, <2>1, <2>2 DEF StrikeOverdue, MaySwing, StrikeId
    <3>2. i \in seen
      BY <3>1 DEF SeenOK
    <3>3. i = published.fsm.id
      BY <1>b, <1>4, <2>1, <2>2, <3>1, <3>2 DEF StrikeOverdue
    <3> QED
      BY <3>1, <3>3 DEF Shown
  <2>3. CASE CommandGrowsStale \/ StrikeExpires
    <3>1. strikeBox.age = "overdue"
      BY <1>4, <1>a, <2>3 DEF CommandGrowsStale, StrikeExpires
    <3> QED
      BY <1>b, <1>4, <2>1, <3>1 DEF AheadInv, AheadOK
  <2> QED
    BY <2>2, <2>3 DEF Time
<1>5. AheadOK'
  BY <1>1, <1>3, <1>4, <1>a DEF AheadInv, AheadOK
<1> QED
  BY <1>2, <1>5 DEF AheadInv

(* The API without a new strike file: what may swing stays, and of the     *)
(* reservation at most one that is covered otherwise is given up.          *)
LEMMA QuietAhead ==
    ASSUME TypeInv, AheadInv,
           UNCHANGED <<strikeBox, published, ctlState>>, g.seq <= g'.seq,
           g'.pending \in {g.pending, Resolved(g.pending)} \/ MaySwing = {},
           g'.seq \in Nat
    PROVE  AheadInv'
<1>a. /\ UNCHANGED <<pc, fsm, seen, log>> /\ seen \subseteq StrikeId
      /\ strikeBox.id \in Nat /\ g.seq \in Nat
  BY TypeParts, GameBounds
  DEF ctlState, TypeInv, TypeOK, MailTypeOK, ApiTypeOK, Game
<1>1. MaySwing' = MaySwing
  BY <1>a DEF MaySwing
<1>2. IdsOK'
  <2>1. \A i \in seen : i \in Nat
    BY <1>a DEF StrikeId
  <2> QED
    BY <1>a, <2>1 DEF AheadInv, IdsOK
<1>3. PublishedOK' /\ SetupOK' /\ OneStrikeAhead'
  BY <1>a, <1>1 DEF AheadInv, PublishedOK, SetupOK, OneStrikeAhead
<1>4. \A i : (Told(i)' <=> Told(i)) /\ (Shown(i)' <=> Shown(i))
  BY <1>a DEF Told, Shown
<1>5. ASSUME NEW i \in MaySwing PROVE g'.pending = i \/ Shown(i)
  <2>1. /\ ~Told(i) /\ (g.pending = i \/ Shown(i))
        /\ (strikeBox.id = i /\ strikeBox.age = "overdue" => Shown(i))
    BY DEF AheadInv, AheadOK
  <2>2. g'.pending \in {g.pending, Resolved(g.pending)}
    BY <1>5
  <2> QED
    BY <2>1, <2>2 DEF Resolved
<1>6. AheadOK'
  BY <1>1, <1>4, <1>5 DEF AheadInv, AheadOK
<1> QED
  BY <1>2, <1>3, <1>6 DEF AheadInv

(* A strike is accepted: its number is new, so nothing told is of it.      *)
LEMMA StrikeAhead ==
    ASSUME TypeInv, AheadInv, MayStrike, UNCHANGED <<published, ctlState>>,
           strikeBox' = [id |-> g.seq + 1, age |-> "valid"],
           g'.seq = g.seq + 1, g'.pending = g.seq + 1
    PROVE  AheadInv'
<1>0. /\ g.seq \in Nat /\ UNCHANGED <<pc, fsm, seen, log>>
      /\ \A i \in seen : i \in Nat
  BY TypeParts, GameBounds
  DEF ctlState, TypeInv, TypeOK, ApiTypeOK, Game, StrikeId
<1> PICK n \in Nat : n = g.seq + 1
  BY <1>0
<1>a. /\ strikeBox'.id = n /\ strikeBox'.age = "valid"
      /\ g'.seq = n /\ g'.pending = n /\ g.seq < n
  BY <1>0
<1>b. n \notin seen /\ n # 0
  BY <1>0, <1>a DEF AheadInv, IdsOK
<1>1. MaySwing = {}
  BY AcceptedAlone
<1>2. MaySwing' \subseteq {n}
  <2> SUFFICES ASSUME NEW i \in MaySwing', i # n PROVE i \in MaySwing
    BY <1>1
  <2> QED
    BY <1>0, <1>a DEF MaySwing
<1>3. PublishedOK' /\ SetupOK' /\ OneStrikeAhead'
  BY <1>0, <1>2 DEF AheadInv, PublishedOK, SetupOK, OneStrikeAhead
<1>4. IdsOK'
  BY <1>0, <1>a DEF AheadInv, IdsOK
<1>5. ~Told(n)'
  BY <1>0, <1>b DEF AheadInv, PublishedOK, Told
<1>6. AheadOK'
  <2> SUFFICES ASSUME NEW i \in MaySwing'
               PROVE  ~Told(i)' /\ g'.pending = i /\ strikeBox'.age # "overdue"
    BY DEF AheadOK
  <2>1. i = n
    BY <1>2
  <2> QED
    BY <1>a, <1>5, <2>1
<1> QED
  BY <1>3, <1>4, <1>6 DEF AheadInv

LEMMA WriteAhead ==
    ASSUME TypeInv, AheadInv, NEW type \in CommandType, GameWrite(type),
           UNCHANGED ctlState
    PROVE  AheadInv'
<1>a. g \in Game /\ g.seq \in Nat /\ published' = published
  BY GameBounds DEF TypeInv, TypeOK, ApiTypeOK, Game, GameWrite
<1>1. ASSUME NEW p, g' = Numbered(type, p)
      PROVE  g'.seq = g.seq + 1 /\ g'.pending = p
  <2> DEFINE e == IF type \in {"stop", "end"} THEN g.epoch + 1 ELSE g.epoch
  <2>1. g' = [g EXCEPT !.seq = g.seq + 1, !.inputSeq = g.inputSeq + 1,
                       !.pending = p, !.epoch = e]
    BY <1>1 DEF Numbered
  <2> HIDE DEF e
  <2> QED
    BY <1>a, <2>1 DEF Game
<1>2. CASE type = "strike" /\ Delivered(type)
  <2>1. MayStrike
    BY <1>2 DEF GameWrite
  <2>2. /\ strikeBox' = [id |-> g.seq + 1, age |-> "valid"]
        /\ g' = Numbered(type, g.seq + 1)
    BY <1>2 DEF Delivered
  <2>3. g'.seq = g.seq + 1 /\ g'.pending = g.seq + 1
    BY <1>1, <2>2
  <2> QED
    BY <1>a, <2>1, <2>2, <2>3, StrikeAhead
<1>3. ASSUME NEW p, g' = Numbered(type, p), UNCHANGED strikeBox,
             p = g.pending \/ MaySwing = {}
      PROVE  AheadInv'
  <2>1. g'.seq = g.seq + 1 /\ g'.pending = p
    BY <1>1, <1>3
  <2>2. g.seq <= g'.seq /\ g'.seq \in Nat
    BY <1>a, <2>1
  <2> QED
    BY <1>a, <1>3, <2>1, <2>2, QuietAhead
<1>4. CASE type # "strike" /\ Delivered(type)
  BY <1>3, <1>4 DEF Delivered
<1>5. CASE type # "strike" /\ NotDelivered(type)
  BY <1>3, <1>5 DEF NotDelivered
<1>6. CASE type = "strike" /\ NotDelivered(type)
  <2>1. MaySwing = {}
    BY <1>6, AcceptedAlone DEF GameWrite
  <2> QED
    BY <1>3, <1>6, <2>1 DEF NotDelivered
<1> QED
  BY <1>2, <1>4, <1>5, <1>6 DEF GameWrite

LEMMA ApiAhead ==
    ASSUME TypeInv, AheadInv, ApiNext, UNCHANGED ctlState
    PROVE  AheadInv'
<1>a. g \in Game /\ g.seq \in Nat
  BY GameBounds DEF TypeInv, TypeOK, ApiTypeOK, Game
<1>1. ASSUME UNCHANGED mailVars, g'.seq = g.seq,
             g'.pending \in {g.pending, Resolved(g.pending)}
      PROVE  AheadInv'
  BY <1>a, <1>1, QuietAhead DEF mailVars
<1>2. ASSUME NEW type \in CommandType, NEW a \in asks,
             ParsedCommand(type) \/ ModelAnswers(a, type)
      PROVE  AheadInv'
  BY <1>2, WriteAhead DEF ParsedCommand, ModelAnswers
<1>3. ASSUME NEW type \in CommandType, ParsedCommand(type) PROVE AheadInv'
  BY <1>3, WriteAhead DEF ParsedCommand
<1>4. CASE StrikeRefused
  BY <1>a, <1>1, <1>4 DEF StrikeRefused, Game
<1>5. CASE Prohibit
  BY <1>a, <1>1, <1>5 DEF Prohibit, Prohibited, Game
<1>6. CASE AskModel
  BY <1>a, <1>1, <1>6 DEF AskModel, Game
<1>7. ASSUME NEW a \in asks, AnswerDropped(a) PROVE AheadInv'
  BY <1>a, <1>1, <1>7 DEF AnswerDropped, Game
<1>8. CASE FinishGame
  BY <1>a, <1>1, <1>8 DEF FinishGame, Game
<1>9. CASE RevokeGame
  BY <1>a, <1>1, <1>9 DEF RevokeGame, Game
<1> QED
  BY <1>2, <1>3, <1>4, <1>5, <1>6, <1>7, <1>8, <1>9 DEF ApiNext

LEMMA AheadStep ==
    ASSUME TypeInv, TypeInv', SeenOK, SeenOK', AheadInv, [Next]_vars
    PROVE  AheadInv'
<1>1. CASE CtlStep
  BY <1>1, CtlAhead DEF CtlStep, apiVars
<1>2. CASE UNCHANGED vars
  <2>1. UNCHANGED <<mailVars, ctlState, g>>
    BY <1>2 DEF vars, apiVars
  <2>2. g.seq \in Nat
    BY GameBounds DEF TypeInv, TypeOK, ApiTypeOK, Game
  <2> QED
    BY <2>1, <2>2, QuietAhead DEF mailVars
<1> QED
  BY <1>1, <1>2, ApiAhead, TimeAhead, StepCases

LEMMA AheadInductive == Spec => [](TypeInv /\ SeenOK /\ AheadInv)
<1>1. Init => SeenOK
  BY DEF Init, CtlInit, SeenOK, Decided, NoFsm, NoLog
<1>2. Init => AheadInv
  <2> SUFFICES ASSUME Init PROVE AheadInv
    OBVIOUS
  <2>1. MaySwing = {}
    BY DEF Init, MailInit, CtlInit, NoStrike, MaySwing, StrikeId, Loop
  <2> QED
    <3>1. PublishedOK /\ IdsOK /\ SetupOK
      BY DEF Init, MailInit, ApiInit, CtlInit, NoFsm, NoLog, NoStrike,
         PublishedOK, IdsOK, SetupOK
    <3> QED
      BY <2>1, <3>1 DEF AheadInv, AheadOK, OneStrikeAhead
<1>3. TypeInv /\ TypeInv' /\ SeenOK /\ SeenOK' /\ AheadInv /\ [Next]_vars
         => AheadInv'
  BY AheadStep
<1> QED
  BY <1>1, <1>2, <1>3, InitType, StepType, SeenOKStep, PTL DEF Spec

(* However late the controller's state reaches the API, a second strike is *)
(* accepted only when the first cannot make the robot swing any more       *)
(* (_strike_pending_resolve, with the busy test of _game_write).           *)
THEOREM StrikesOneAtATime == Spec => []OneStrikeAhead
<1>1. AheadInv => OneStrikeAhead
  BY DEF AheadInv
<1> QED
  BY <1>1, AheadInductive, PTL

-----------------------------------------------------------------------------
(* The fate of a strike: under way, over - strikes are over in the order   *)
(* they were sent in -, expired or unverified.                             *)
HasFate(i) == fsm.id = i \/ i <= log.lastDone \/ i \in Decided

EveryStrikeHasFate == \A i \in seen : HasFate(i)

FateInv ==
    /\ EveryStrikeHasFate
    /\ \A i \in seen : i <= strikeBox.id
    /\ fsm.id # 0 => log.lastDone <= fsm.id

(* strike.json is only replaced by one of a higher number.                 *)
LEMMA BoxGrows ==
    ASSUME TypeInv, IdsOK, ApiNext \/ Time, NEW i \in seen,
           i <= strikeBox.id
    PROVE  i <= strikeBox'.id
<1>a. seen \subseteq StrikeId /\ strikeBox.id \in Nat /\ g.seq \in Nat
  BY TypeParts, GameBounds
  DEF TypeInv, TypeOK, MailTypeOK, ApiTypeOK, Game
<1>1. CASE Time
  BY <1>1 DEF Time, CommandGrowsStale, StrikeExpires, StrikeOverdue,
              TypeInv, TypeOK, MailTypeOK
<1>2. ASSUME NEW type \in CommandType, GameWrite(type)
      PROVE  i <= strikeBox'.id
  <2>1. strikeBox' = strikeBox \/ strikeBox' = [id |-> g.seq + 1, age |-> "valid"]
    BY <1>2 DEF GameWrite, Delivered, NotDelivered
  <2>2. i <= g.seq /\ i \in Nat
    BY <1>a DEF IdsOK, StrikeId
  <2> QED
    BY <1>a, <2>1, <2>2
<1>3. CASE UNCHANGED strikeBox
  BY <1>3
<1> QED
  BY <1>1, <1>2, <1>3
  DEF ApiNext, ParsedCommand, ModelAnswers, StrikeRefused, Prohibit, AskModel,
      AnswerDropped, FinishGame, RevokeGame, mailVars

LEMMA FateStep ==
    ASSUME TypeInv, TypeInv', SeenOK, SeenOK', IdsOK, FateInv, [Next]_vars
    PROVE  FateInv'
<1> USE DEF FateInv, EveryStrikeHasFate, HasFate, Decided
<1>a. /\ fsm \in Fsm /\ log \in Log /\ seen \subseteq StrikeId
      /\ fsm.id \in Nat /\ log.lastDone \in Nat
  BY TypeParts DEF Fsm, Log
<1>1. ASSUME UNCHANGED <<seen, log, strikeBox>>, fsm'.id = fsm.id PROVE FateInv'
  BY <1>1
<1>2. ASSUME NEW why, fsm' = Aborted(fsm, why) PROVE fsm'.id = fsm.id
  BY <1>a, <1>2 DEF Aborted, Fsm
<1>3. CASE (ApiNext \/ Time) /\ UNCHANGED ctlState
  BY <1>3, BoxGrows DEF ctlState
<1>4. CASE ReadControl
  BY <1>1, <1>2, <1>4 DEF ReadControl, ApplyMove, ApplyStop, ApplyEnd, mailVars
<1>5. CASE ReadStrike
  <2> DEFINE i == strikeBox.id
  <2>1. CASE ~Unseen(i)
    BY <1>1, <1>5, <2>1 DEF ReadStrike, mailVars
  <2>2. CASE Unseen(i) /\ (InStrike \/ strikeBox.age # "valid")
    <3>1. fsm' = fsm /\ seen' = seen \cup {i} /\ strikeBox' = strikeBox
          /\ log' = [log EXCEPT !.expired = @ \cup {i}]
      BY <1>5, <2>2 DEF ReadStrike, mailVars
    <3>2. log'.expired = log.expired \cup {i} /\ log'.lastDone = log.lastDone
          /\ log'.unverified = log.unverified
      BY <1>a, <3>1 DEF Log
    <3>3. i \in StrikeId => i <= i
      BY DEF StrikeId
    <3>4. i \in StrikeId
      BY <3>1, TypeParts DEF TypeInv, TypeOK, CtlTypeOK
    <3> QED
      BY <3>1, <3>2, <3>3, <3>4
  <2>3. CASE Unseen(i) /\ ~(InStrike \/ strikeBox.age # "valid")
    <3>1. seen' = seen \cup {i} /\ log' = log /\ strikeBox' = strikeBox
          /\ fsm' = [NoFsm EXCEPT !.id = i, !.phase = "pre"]
      BY <1>5, <2>3 DEF ReadStrike, mailVars
    <3>2. fsm'.id = i /\ fsm.id = 0
      BY <2>3, <3>1 DEF NoFsm, InStrike
    <3>3. i \in Nat /\ i # 0
      BY <2>3 DEF Unseen, TypeInv, TypeOK, MailTypeOK
    <3>4. log.lastDone <= i
      BY <1>a, <3>3 DEF SeenOK
    <3>5. 0 \notin seen
      BY <1>a DEF StrikeId
    <3> QED
      BY <3>1, <3>2, <3>3, <3>4, <3>5
  <2> QED
    BY <2>1, <2>2, <2>3
<1>6. CASE StrikeAdvances
  <2>1. fsm'.id = fsm.id
    BY <1>a, <1>6 DEF StrikeAdvances, NextPhase, Fsm
  <2>2. /\ log'.expired = log.expired /\ log'.unverified = log.unverified
        /\ log'.lastDone = log.lastDone
    BY <1>a, <1>6 DEF StrikeAdvances, Log
  <2> QED
    BY <1>6, <2>1, <2>2 DEF StrikeAdvances
<1>7. CASE StrikeOver
  <2>1. /\ fsm'.id = 0 /\ seen' = seen /\ fsm.id # 0
        /\ strikeBox' = strikeBox
    BY <1>7 DEF StrikeOver, NoFsm, InStrike
  <2>2. /\ log'.lastDone = fsm.id
        /\ log.expired \subseteq log'.expired
        /\ log.unverified \subseteq log'.unverified
    BY <1>a, <1>7 DEF StrikeOver, Over, Log
  <2>3. ASSUME NEW i \in seen PROVE HasFate(i)'
    <3>1. i \in Nat
      BY <1>a DEF StrikeId
    <3> QED
      BY <1>a, <2>1, <2>2, <3>1
  <2> QED
    BY <2>1, <2>2, <2>3
<1>8. CASE ArenaExit
  BY <1>1, <1>2, <1>8 DEF ArenaExit
<1>9. CASE \/ Setup \/ TimeIsUp \/ StrikeWaits \/ Moves \/ ControlFails
           \/ RobotFails \/ Close \/ Killed
  BY <1>1, <1>9 DEF Setup, TimeIsUp, StrikeWaits, Moves, ControlFails,
                    RobotFails, Close, Killed, Raises, mailVars
<1>10. CASE UNCHANGED vars
  BY <1>1, <1>10 DEF vars, mailVars, ctlState
<1> QED
  BY <1>3, <1>4, <1>5, <1>6, <1>7, <1>8, <1>9, <1>10, StepCases
  DEF CtlStep, CtlNext, Tick

(* No strike the controller took is lost: it is under way or its fate is   *)
(* in the lists by which the API gives the reservation back (StrikeFSM,    *)
(* strike_expired, strike_unverified and last_strike_done).                *)
THEOREM StrikesAreAccounted == Spec => []EveryStrikeHasFate
<1>1. Init => FateInv
  BY DEF Init, CtlInit, FateInv, EveryStrikeHasFate, NoFsm
<1>2. TypeInv /\ TypeInv' /\ SeenOK /\ SeenOK' /\ AheadInv /\ FateInv
         /\ [Next]_vars => FateInv'
  BY FateStep DEF AheadInv
<1>3. FateInv => EveryStrikeHasFate
  BY DEF FateInv
<1> QED
  BY <1>1, <1>2, <1>3, AheadInductive, PTL DEF Spec
=============================================================================
