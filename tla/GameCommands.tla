---------------------------- MODULE GameCommands ----------------------------
(***************************************************************************)
(* The game half of ProductSession: game_command() turns what the player   *)
(* says into a bounded command, by the parser at once or by a language     *)
(* model that is asked outside _run_mu, and _game_write() puts it into the *)
(* mailbox the controller reads.                                           *)
(***************************************************************************)
EXTENDS GameMailbox, FiniteSets

CONSTANT MaxAsk    \* bound: questions to the language model under way at once

ASSUME AskBound == MaxAsk \in Nat

VARIABLES
    g,       \* RoundState.game: seq, epoch, input_seq, strike_pending; live
             \* while the phase is RUNNING and the game is not done; outcome
    asks     \* the inputs the language model is reading; "overtaken" (history):
             \* another input was taken after it

apiVars == <<g, asks>>

Game == [live: BOOLEAN, seq: 0..MaxSeq, epoch: 0..MaxSeq, inputSeq: 0..MaxInput,
         pending: 0..MaxSeq, outcome: RoundEnd \cup {"fault", "ended"}]

ApiTypeOK ==
    /\ g \in Game
    /\ asks \subseteq [ticket: 1..MaxInput, gen: 0..MaxSeq, overtaken: BOOLEAN]

ApiInit ==
    /\ g = [live |-> TRUE, seq |-> 0, epoch |-> 0, inputSeq |-> 0,
            pending |-> 0, outcome |-> "none"]
    /\ asks = {}

Overtaken(as) == {[a EXCEPT !.overtaken = TRUE] : a \in as}

-----------------------------------------------------------------------------
(* _strike_pending_resolve(): the reservation is released once the state   *)
(* file tells the strike's fate, or a second after its expiry.             *)
Told(i) ==
    \/ published.fsm.id = i
       /\ (published.fsm.consumed \/ published.fsm.phase = "recover")
    \/ i \in published.log.expired \cup published.log.unverified
    \/ i = published.log.lastDone

(* Mutation: the second after the expiry is not waited for.                *)
ResolvedEarly(i) ==
    IF Told(i) \/ (strikeBox.id = i /\ strikeBox.age # "valid") THEN 0 ELSE i

Resolved(i) ==
    IF Told(i) \/ (strikeBox.id = i /\ strikeBox.age = "overdue") THEN 0 ELSE i

MayStrike ==
    /\ Resolved(g.pending) = 0
    /\ published.fsm.id = 0
    /\ published.log.started < MaxSwings

(* _game_write(): a stop or an end starts a new epoch.                     *)
Numbered(type, pending) ==
    [g EXCEPT !.seq = @ + 1, !.inputSeq = @ + 1, !.pending = pending,
              !.epoch = IF type \in {"stop", "end"} THEN @ + 1 ELSE @]

Delivered(type) ==
    LET n == g.seq + 1 IN
    IF type = "strike"
    THEN /\ strikeBox' = [id |-> n, age |-> "valid"]
         /\ g' = Numbered(type, n)
         /\ UNCHANGED control
    ELSE /\ control' = [seq |-> n, type |-> type, fresh |-> TRUE]
         /\ g' = Numbered(type, g.pending)
         /\ UNCHANGED strikeBox

(* The file could not be written: control_path_unavailable.                *)
NotDelivered(type) ==
    /\ g' = Numbered(type, IF type = "strike" THEN 0 ELSE g.pending)
    /\ UNCHANGED <<control, strikeBox>>

GameWrite(type) ==
    /\ g.live /\ g.seq < MaxSeq /\ g.inputSeq < MaxInput
    /\ type = "strike" => MayStrike
    /\ Delivered(type) \/ NotDelivered(type)
    /\ UNCHANGED <<published, result>>

-----------------------------------------------------------------------------
(* The parser understood the words.                                        *)
ParsedCommand(type) ==
    /\ GameWrite(type)
    /\ asks' = Overtaken(asks)

(* strike_busy or out_of_swings: only the reservation may be resolved.     *)
StrikeRefused ==
    /\ g.live /\ ~MayStrike
    /\ g' = [g EXCEPT !.pending = Resolved(@)]
    /\ UNCHANGED <<asks, mailVars>>

(* "Don't move" and the like: no command, but earlier questions are void.  *)
ProhibitedQuietly == UNCHANGED g        \* mutation: input_seq is not advanced
Prohibited == g' = [g EXCEPT !.inputSeq = @ + 1]

Prohibit ==
    /\ g.live /\ g.inputSeq < MaxInput
    /\ Prohibited
    /\ asks' = Overtaken(asks)
    /\ UNCHANGED mailVars

(* The parser did not understand: the input is numbered, then the lock is  *)
(* given up and the language model asked.                                  *)
AskModel ==
    /\ g.live /\ g.inputSeq < MaxInput
    /\ Cardinality(asks) < MaxAsk
    /\ g' = [g EXCEPT !.inputSeq = @ + 1]
    /\ asks' = Overtaken(asks) \cup
               {[ticket |-> g.inputSeq + 1, gen |-> g.epoch,
                 overtaken |-> FALSE]}
    /\ UNCHANGED mailVars

(* Nothing was accepted since the question was numbered.                   *)
StillCurrent(a) == a.gen = g.epoch /\ a.ticket = g.inputSeq

ModelAnswers(a, type) ==
    /\ StillCurrent(a)
    /\ GameWrite(type)
    /\ asks' = Overtaken(asks \ {a})

(* stale, expired, unclear or unsupported; or a strike that is refused.    *)
AnswerDropped(a) ==
    /\ asks' = asks \ {a}
    /\ \/ UNCHANGED g
       \/ /\ g.live /\ StillCurrent(a) /\ ~MayStrike
          /\ g' = [g EXCEPT !.pending = Resolved(@)]
    /\ UNCHANGED mailVars

-----------------------------------------------------------------------------
(* finish_run(): the outcome of the game is told from its health.          *)
Healthy(res) == res.health \in {"ok", "none"}
Faulty(res) ==
    ~Healthy(res) \/ res.verdict \notin {"PASS", "RUNNER_ERROR"}

OutcomeRulesFirst(res) ==                \* mutation: the game's rules first
    IF res.roundEnd # "none" THEN res.roundEnd
    ELSE IF res.ended /\ ~Faulty(res) THEN "ended" ELSE "fault"

Outcome(res) ==
    IF Faulty(res) THEN "fault"
    ELSE IF res.roundEnd # "none" THEN res.roundEnd
    ELSE IF res.ended THEN "ended" ELSE "fault"

FinishGame ==
    /\ g.live /\ result # NoResult
    /\ g' = [g EXCEPT !.live = FALSE, !.outcome = Outcome(result)]
    /\ UNCHANGED <<asks, mailVars>>

(* abort_run() and reset() take the game away from the player.             *)
RevokeGame ==
    /\ g.live
    /\ g' = [g EXCEPT !.live = FALSE]
    /\ UNCHANGED <<asks, mailVars>>

ApiNext ==
    \/ \E type \in CommandType :
          ParsedCommand(type) \/ \E a \in asks : ModelAnswers(a, type)
    \/ StrikeRefused \/ Prohibit \/ AskModel
    \/ \E a \in asks : AnswerDropped(a)
    \/ FinishGame \/ RevokeGame
=============================================================================
