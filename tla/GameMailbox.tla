----------------------------- MODULE GameMailbox -----------------------------
(***************************************************************************)
(* What the game API (service.py) and the game controller (the runner      *)
(* container) share: the run directory with control.json, strike.json,     *)
(* control_state.json and result.json.                                     *)
(***************************************************************************)
EXTENDS Naturals

CONSTANTS
    MaxSwings,   \* max_swings of the round's rules
    MaxSeq,      \* bound: commands one game accepts
    MaxInput     \* bound: inputs one game numbers (commands included)

ASSUME SwingsAssumption == MaxSwings \in Nat \ {0}
ASSUME GameBounds == MaxSeq \in Nat /\ MaxInput \in Nat

VARIABLES
    control,     \* control.json: the latest move, stop or end
    strikeBox,   \* strike.json: the latest strike and how old it is
    published,   \* control_state.json: what the controller last wrote of itself
    result       \* result.json

mailVars == <<control, strikeBox, published, result>>

CommandType == {"move", "stop", "end", "strike"}

(* A strike is named by the number it was sent with; 0 names none.         *)
StrikeId == 1..MaxSeq

NoCommand == [seq |-> 0, type |-> "none", fresh |-> FALSE]
NoStrike  == [id |-> 0, age |-> "valid"]

(* StrikeFSM.  A strike is decided when it is in one of the lists.         *)
Fsm == [id: 0..MaxSeq, phase: {"none", "pre", "dance", "swing", "recover"},
        consumed: BOOLEAN, sent: BOOLEAN, pendingEnd: BOOLEAN]
NoFsm == [id |-> 0, phase |-> "none", consumed |-> FALSE, sent |-> FALSE,
          pendingEnd |-> FALSE]
Log == [expired: SUBSET StrikeId, unverified: SUBSET StrikeId,
        lastDone: 0..MaxSeq, started: 0..MaxSwings]
NoLog == [expired |-> {}, unverified |-> {}, lastDone |-> 0, started |-> 0]

RoundEnd == {"none", "hit", "out_of_swings", "timeout", "arena_exit"}
Health   == {"ok", "obs_lost", "manifest_expired"}
Verdict  == {"PASS", "UNKNOWN_END_HOLD", "FAIL_FALLEN", "FAIL_NO_CLEAN_END",
             "FAIL_ILLEGAL_TRANSITION", "FAIL_RAISED", "RUNNER_ERROR"}

(* "health" is "none" when result.json has no "control" part.              *)
NoResult == [verdict |-> "none", health |-> "none", roundEnd |-> "none",
             ended |-> FALSE]

MailTypeOK ==
    /\ control \in [seq: 0..MaxSeq, type: CommandType \cup {"none"},
                    fresh: BOOLEAN]
    /\ strikeBox \in [id: 0..MaxSeq, age: {"valid", "expired", "overdue"}]
    /\ published \in [fsm: Fsm, log: Log]
    /\ result \in [verdict: Verdict \cup {"none"}, health: Health \cup {"none"},
                   roundEnd: RoundEnd, ended: BOOLEAN]

MailInit ==
    /\ control = NoCommand /\ strikeBox = NoStrike
    /\ published = [fsm |-> NoFsm, log |-> NoLog]
    /\ result = NoResult
=============================================================================
