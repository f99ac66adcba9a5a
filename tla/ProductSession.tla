--------------------------- MODULE ProductSession ---------------------------
(***************************************************************************)
(* The orchestrator: ProductSession (service.py) with the handlers and the *)
(* runner threads of app.py that drive it.                                 *)
(*                                                                         *)
(* Every block the code runs under _run_mu is one action.  What the code   *)
(* does between two such blocks - an unlocked read, a docker call, an LLM  *)
(* call, a sim restart - is a step of its own, so the threads of several   *)
(* HTTP requests interleave here as they do in the FastAPI thread pool.    *)
(***************************************************************************)
EXTENDS Naturals, FiniteSets

CONSTANTS
    Session,    \* the browser sessions
    Plan,       \* the plan ids the interpreter may issue (uuid4)
    Run,        \* the run ids that may be issued (uuid4)
    None,       \* no session, plan or run
    Env,        \* the optional behaviours of the surroundings, see EnvChoices
    MaxRound,   \* bound: rounds one session goes through
    MaxBoot,    \* bound: boots of the simulator
    MaxCall     \* bound: intent, start and pause requests under way at once

(* "pause"          some client calls /api/run/pause;                      *)
(* "overlap"        a session sends an intent and a start concurrently;    *)
(* "kiosk"          the kiosk asks whether it may close its window;        *)
(* "cold"           the simulator may be down when the server starts;      *)
(* "fall"           the stand manager may report the boot lost;            *)
(* "docker_timeout" a docker command exceeds its time limit and raises.    *)
EnvChoices == {"pause", "overlap", "kiosk", "cold", "fall", "docker_timeout"}

ASSUME EnvAssumption == Env \subseteq EnvChoices
ASSUME NoneAssumption == None \notin Session \cup Plan \cup Run
ASSUME BoundAssumption == MaxRound \in Nat /\ MaxBoot \in Nat /\ MaxCall \in Nat

NoBoot == 0     \* no boot nonce is known; real nonces are 1, 2, ...
Phase == {"NONE", "READY", "INTERPRETING", "CLARIFY", "REVIEW", "RUNNING",
          "RESULT", "FAULT", "RESETTING"}

VARIABLES
    rounds,        \* session -> its current RoundState
    runLock,       \* run_lock
    admission,     \* _admission_open
    kioskHold,     \* now < _kiosk_exit_until
    latest,        \* _latest_spec_session
    svcBoot,       \* boot_nonce
    intent,        \* session -> the interpret() call in flight
    plans,         \* plan -> the session and round it was built for
    approvals,     \* <<plan, boot>> of the records that can still be consumed
    starting,      \* session -> the /api/runs request between read and lock
    runs,          \* run -> its owner, its runner thread and its container
    reset,         \* the reset() holding _reset_mu
    pausing,       \* session -> its /api/run/pause request
    sim,           \* state of the simulator containers
    nonce          \* nonce of the latest boot

svcVars   == <<rounds, runLock, admission, kioskHold, latest, svcBoot>>
intentVars == <<intent, plans, approvals>>
runVars   == <<starting, runs>>
ctlVars   == <<reset, pausing>>
simVars   == <<sim, nonce>>
vars == <<svcVars, intentVars, runVars, ctlVars, simVars>>

-----------------------------------------------------------------------------
RoundState ==
    [id: Nat, phase: Phase, plan: Plan \cup {None}, run: Run \cup {None},
     result: Run \cup {None}, spec: BOOLEAN, specBoot: Nat,
     game: Run \cup {None}]

NewRound(n) ==
    [id |-> n, phase |-> "READY", plan |-> None, run |-> None,
     result |-> None, spec |-> FALSE, specBoot |-> NoBoot,
     game |-> None]

NoRound == [NewRound(0) EXCEPT !.phase = "NONE"]

(* A runner thread (_execute_run, _execute_game) goes check -> launch ->   *)
(* created -> waiting -> finish -> done.  "finishTold": the result names   *)
(* the boot.  A container is up (booting), armed (it verified the boot and *)
(* publishes) or exited (result.json is written).  A game has no plan.     *)
Thread    == {"none", "check", "launch", "created", "waiting", "finish",
              "finishTold", "done"}
Container == {"none", "up", "armed", "exited"}
RunState  == [session: Session \cup {None}, round: Nat, boot: Nat,
              plan: Plan \cup {None}, thread: Thread, container: Container]
UnusedRun == [session |-> None, round |-> 0, boot |-> NoBoot, plan |-> None,
              thread |-> "none", container |-> "none"]

IsRunning(s) == rounds[s].phase = "RUNNING"
AnyRunning   == \E s \in Session : IsRunning(s)
Exists(s)    == rounds[s].phase # "NONE"
Started      == {r \in Run : runs[r].thread # "none"}

(* _boot_ready(): the nonce in boot-ready.json unless boot-lost.json       *)
(* exists; NoBoot when the simulator is not ready.                         *)
BootReady == IF sim = "ready" THEN nonce ELSE NoBoot

OwnsRun(r) ==
    LET s == runs[r].session IN
    s \in Session /\ IsRunning(s) /\ rounds[s].run = r

NoStart == [boot |-> NoBoot, plan |-> None]

(* The container publishes stick commands that the present boot obeys.     *)
Actuating(r) ==
    /\ runs[r].container = "armed"
    /\ runs[r].boot = nonce
    /\ sim \in {"ready", "lost"}

(* display_spec(): the session whose target the renderer draws.            *)
Displayed ==
    {s \in Session : /\ admission
                     /\ s = latest
                     /\ rounds[s].spec
                     /\ rounds[s].specBoot = BootReady}

(* Mutations: one of the two tests of every start is forgotten.            *)
AdmittingInHold == admission
AdmittingClosed == ~kioskHold

(* New runs and targets are admitted.                                      *)
Admitting == admission /\ ~kioskHold

(* The requests that have done one of their steps and not yet the last.    *)
Calls == {<<s, "intent">> : s \in {t \in Session : intent[t].pc # "idle"}}
         \cup {<<s, "start">> : s \in {t \in Session : starting[t] # NoStart}}
         \cup {<<s, "pause">> : s \in {t \in Session : pausing[t] # "idle"}}

MayCall == Cardinality(Calls) < MaxCall

-----------------------------------------------------------------------------
Init ==
    /\ rounds = [s \in Session |-> NoRound]
    /\ runLock = FALSE /\ admission = TRUE /\ kioskHold = FALSE
    /\ latest = None /\ svcBoot = NoBoot
    /\ intent = [s \in Session |-> [pc |-> "idle", round |-> 0]]
    /\ plans = [p \in Plan |-> [session |-> None, round |-> 0]]
    /\ approvals = {}
    /\ starting = [s \in Session |-> NoStart]
    /\ runs = [r \in Run |-> UnusedRun]
    /\ reset = [pc |-> "idle", session |-> None]
    /\ pausing = [s \in Session |-> "idle"]
    /\ \/ sim = "ready" /\ nonce = 1
       \/ sim = "down" /\ nonce = NoBoot /\ "cold" \in Env

CreateSession(s) ==
    /\ ~Exists(s)
    /\ rounds' = [rounds EXCEPT ![s] = NewRound(1)]
    /\ UNCHANGED <<runLock, admission, kioskHold, latest, svcBoot,
                   intentVars, runVars, ctlVars, simVars>>

ReserveKioskExit ==
    /\ "kiosk" \in Env
    /\ admission /\ ~runLock
    /\ \A s \in Session : rounds[s].phase \notin {"RUNNING", "RESETTING"}
    /\ kioskHold' = TRUE
    /\ UNCHANGED <<rounds, runLock, admission, latest, svcBoot,
                   intentVars, runVars, ctlVars, simVars>>

KioskHoldExpires ==
    /\ kioskHold
    /\ kioskHold' = FALSE
    /\ UNCHANGED <<rounds, runLock, admission, latest, svcBoot,
                   intentVars, runVars, ctlVars, simVars>>

(* Mutation: only the lock is tested, as if no pause could free it.         *)
WorldUnlocked == ~runLock

(* No run holds the world that a spawn would change.                       *)
WorldFree == ~runLock /\ ~AnyRunning

(* /api/round/spawn holds _reset_mu from the live observation to the lock, *)
(* so no reset lies between them; svcBoot, once known, is the boot seen.   *)
SpawnRound(s) ==
    /\ Exists(s)
    /\ reset.pc = "idle"
    /\ BootReady # NoBoot
    /\ svcBoot \in {NoBoot, BootReady}
    /\ Admitting /\ rounds[s].phase # "RESETTING"
    /\ WorldFree
    /\ rounds[s].phase = "READY" /\ ~rounds[s].spec
    /\ rounds' = [rounds EXCEPT ![s].spec = TRUE, ![s].specBoot = BootReady]
    /\ latest' = s
    /\ UNCHANGED <<runLock, admission, kioskHold, svcBoot,
                   intentVars, runVars, ctlVars, simVars>>

-----------------------------------------------------------------------------
(* interpret(): run_lock is tested without _run_mu, the phase is written   *)
(* a moment later, and once more when the answer is there - all of it on   *)
(* the RoundState object read at the start.                                *)
MayInterpretAlways(s) == Exists(s)      \* mutation: the lock is not tested

MayInterpret(s) == Exists(s) /\ ~runLock

InterpretBegin(s) ==
    /\ MayInterpret(s) /\ MayCall
    /\ intent[s].pc = "idle"
    /\ "overlap" \in Env \/ starting[s] = NoStart
    /\ intent' = [intent EXCEPT ![s] = [pc |-> "checked",
                                        round |-> rounds[s].id]]
    /\ UNCHANGED <<svcVars, plans, approvals,
                   runVars, ctlVars, simVars>>

(* The RoundState that intent[s] holds is still the session's own.         *)
SameRound(s) == intent[s].round = rounds[s].id

InterpretMark(s) ==
    /\ intent[s].pc = "checked"
    /\ intent' = [intent EXCEPT ![s].pc = "thinking"]
    /\ rounds' = IF SameRound(s)
                 THEN [rounds EXCEPT ![s].phase = "INTERPRETING"] ELSE rounds
    /\ UNCHANGED <<runLock, admission, kioskHold, latest, svcBoot,
                   plans, approvals,
                   runVars, ctlVars, simVars>>

(* reject, clarify or LLM failure: READY, CLARIFY or FAULT.                *)
InterpretNoPlan(s) ==
    /\ intent[s].pc = "thinking"
    /\ intent' = [intent EXCEPT ![s] = [pc |-> "idle", round |-> 0]]
    /\ \E phase \in {"READY", "CLARIFY", "FAULT"} :
          rounds' = IF SameRound(s)
                    THEN [rounds EXCEPT ![s].phase = phase] ELSE rounds
    /\ UNCHANGED <<runLock, admission, kioskHold, latest, svcBoot,
                   plans, approvals,
                   runVars, ctlVars, simVars>>

(* A plan was built: REVIEW.  post_intent registers it in _pending, which a*)
(* reset clears; a plan absent from it is refused, so no plan is lost here.*)
InterpretPlan(s, p) ==
    /\ intent[s].pc = "thinking"
    /\ plans[p].session = None
    /\ intent' = [intent EXCEPT ![s] = [pc |-> "idle", round |-> 0]]
    /\ plans' = [plans EXCEPT ![p] = [session |-> s,
                                      round |-> intent[s].round]]
    /\ rounds' = IF SameRound(s)
                 THEN [rounds EXCEPT ![s].phase = "REVIEW",
                                     ![s].plan = p]
                 ELSE rounds
    /\ UNCHANGED <<runLock, admission, kioskHold, latest, svcBoot,
                   approvals, runVars, ctlVars, simVars>>

(* approve(): the record is bound to the plan - and so to its session and  *)
(* round - and to the boot that is ready now, else to the last one known.  *)
Approve(s) ==
    /\ rounds[s].phase = "REVIEW" /\ rounds[s].plan # None
    /\ LET boot == IF BootReady # NoBoot THEN BootReady ELSE svcBoot IN
          /\ boot # NoBoot
          /\ approvals' = approvals \cup {<<rounds[s].plan, boot>>}
    /\ UNCHANGED <<svcVars, intent, plans,
                   runVars, ctlVars, simVars>>

-----------------------------------------------------------------------------
(* Mutation: the run is bound to no boot.                                  *)
NewRunUnbound(r, s, boot, plan) ==
    [runs EXCEPT ![r] = [session |-> s, round |-> rounds[s].id,
                         boot |-> None, plan |-> plan,
                         thread |-> "check", container |-> "none"]]

NewRun(r, s, boot, plan) ==
    [runs EXCEPT ![r] = [session |-> s, round |-> rounds[s].id,
                         boot |-> boot, plan |-> plan,
                         thread |-> "check", container |-> "none"]]

(* /api/game/start.  The nonce read by the handler must still be the one   *)
(* start_game() reads under the lock, so one read stands for both.         *)
StartGame(s, r) ==
    /\ Exists(s)
    /\ r \notin Started
    /\ "overlap" \in Env \/ intent[s].pc = "idle"
    /\ BootReady # NoBoot
    /\ Admitting
    /\ rounds[s].spec /\ latest = s /\ rounds[s].specBoot = BootReady
    /\ ~IsRunning(s) /\ ~runLock
    /\ runLock' = TRUE
    /\ rounds' = [rounds EXCEPT ![s].phase = "RUNNING", ![s].run = r,
                                ![s].game = r]
    /\ runs' = NewRun(r, s, BootReady, None)
    /\ UNCHANGED <<admission, kioskHold, latest, svcBoot,
                   intentVars, starting, ctlVars, simVars>>

(* /api/runs reads _pending and the boot before start_run() takes the lock.*)
StartRunRead(s, p) ==
    /\ starting[s] = NoStart /\ MayCall
    /\ "overlap" \in Env \/ intent[s].pc = "idle"
    /\ plans[p].session = s
    /\ BootReady # NoBoot
    /\ starting' = [starting EXCEPT ![s] = [boot |-> BootReady, plan |-> p]]
    /\ UNCHANGED <<svcVars, intentVars, runs, ctlVars, simVars>>

(* ApprovalStore.verify_and_consume() of an approval of plan p.            *)
Grantable(s, p, boot) ==
    /\ <<p, boot>> \in approvals
    /\ plans[p].session = s
    /\ plans[p].round = rounds[s].id

(* Mutation: the plan is compared, the phase is not.                       *)
InReviewAnyPhase(s, p) == rounds[s].plan = p

InReview(s, p) == rounds[s].phase = "REVIEW" /\ rounds[s].plan = p

(* Mutation: the run lock is not tested.                                   *)
CanStartRunUnlocked(s) ==
    LET p == starting[s].plan IN
    Admitting /\ InReview(s, p) /\ Grantable(s, p, starting[s].boot)

CanStartRun(s) ==
    LET p == starting[s].plan IN
    /\ Admitting
    /\ InReview(s, p)
    /\ ~runLock
    /\ Grantable(s, p, starting[s].boot)

(* One record is consumed; a second approval of the plan may be left.      *)
StartRunCommit(s, r) ==
    /\ starting[s] # NoStart
    /\ CanStartRun(s)
    /\ r \notin Started
    /\ starting' = [starting EXCEPT ![s] = NoStart]
    /\ approvals' \in {approvals,
                      approvals \ {<<starting[s].plan, starting[s].boot>>}}
    /\ runLock' = TRUE
    /\ rounds' = [rounds EXCEPT ![s].phase = "RUNNING", ![s].run = r]
    /\ runs' = NewRun(r, s, starting[s].boot, starting[s].plan)
    /\ UNCHANGED <<admission, kioskHold, latest, svcBoot, intent, plans, ctlVars, simVars>>

(* Refused: CanStartRun fails, or the approval has expired by now.         *)
StartRunRefused(s) ==
    /\ starting[s] # NoStart
    /\ starting' = [starting EXCEPT ![s] = NoStart]
    /\ UNCHANGED <<svcVars, intentVars, runs, ctlVars, simVars>>

-----------------------------------------------------------------------------
(* The runner thread of run r: what _execute_run and _execute_game share.  *)
ThreadTo(r, from, to) ==
    /\ runs[r].thread = from
    /\ runs' = [runs EXCEPT ![r].thread = to]

(* The generation is tested before the launch; a thread that lost it       *)
(* returns without a finish_run().                                         *)
ExecCheck(r) ==
    /\ ThreadTo(r, "check", IF OwnsRun(r) THEN "launch" ELSE "done")
    /\ UNCHANGED <<svcVars, intentVars, starting, ctlVars, simVars>>

ExecLaunch(r) ==
    /\ runs[r].thread = "launch"
    /\ \/ runs' = [runs EXCEPT ![r].thread = "created",
                               ![r].container = "up"]
       \/ runs' = [runs EXCEPT ![r].thread = "finish"]
       \/ /\ "docker_timeout" \in Env
          /\ runs' = [runs EXCEPT ![r].thread = "finish",
                                  ![r].container = "up"]
    /\ UNCHANGED <<svcVars, intentVars, starting, ctlVars, simVars>>

(* docker rm -f of one container.                                          *)
Removed(c) == IF c \in {"up", "armed"} THEN "none" ELSE c

RemoveNever(c) == {c}      \* mutation: the container is left behind

RemoveTried(c) == {Removed(c)} \cup (IF "docker_timeout" \in Env THEN {c} ELSE {})

(* The generation is tested again once the container exists.               *)
ExecRecheck(r) ==
    /\ runs[r].thread = "created"
    /\ IF OwnsRun(r)
       THEN runs' = [runs EXCEPT ![r].thread = "waiting"]
       ELSE \E c \in RemoveTried(runs[r].container) :
               runs' = [runs EXCEPT ![r].thread = "finish",
                                    ![r].container = c]
    /\ UNCHANGED <<svcVars, intentVars, starting, ctlVars, simVars>>

(* docker wait returned, or its time (300 s / 420 s) is over; then rm -f,  *)
(* of the exited container too: its result is with the thread by now.      *)
ExecCollect(r) ==
    /\ runs[r].thread = "waiting"
    /\ \E c \in RemoveTried(runs[r].container) :
          runs' = [runs EXCEPT ![r].thread = IF runs[r].container = "exited"
                                             THEN "finishTold" ELSE "finish",
                               ![r].container =
                                  IF c = "exited" THEN "none" ELSE c]
    /\ UNCHANGED <<svcVars, intentVars, starting, ctlVars, simVars>>

(* The container: it arms once it saw the boot it was made for, and ends   *)
(* by itself, with a result that names the boot if it got that far.        *)
RunnerArms(r) ==
    /\ runs[r].container = "up"
    /\ sim \in {"ready", "lost"}
    /\ runs[r].boot = nonce
    /\ runs' = [runs EXCEPT ![r].container = "armed"]
    /\ UNCHANGED <<svcVars, intentVars, starting, ctlVars, simVars>>

RunnerExits(r) ==
    /\ runs[r].container \in {"up", "armed"}
    /\ runs' = [runs EXCEPT ![r].container =
                    IF @ = "armed" THEN "exited" ELSE "none"]
    /\ UNCHANGED <<svcVars, intentVars, starting, ctlVars, simVars>>

(* finish_run(): everything it does depends on the generation.  An orphan  *)
(* changes nothing (it is only noted in the round's history).              *)
FinishesRunning(r) == IsRunning(runs[r].session)     \* mutation: any run_id
FinishesTold(r) == OwnsRun(r) /\ runs[r].thread = "finishTold"  \* mutation
Finishes(r) == OwnsRun(r)

FinishRun(r) ==
    LET s == runs[r].session IN
    /\ runs[r].thread \in {"finish", "finishTold"}
    /\ runs' = [runs EXCEPT ![r].thread = "done"]
    /\ IF Finishes(r)
       THEN /\ runLock' = FALSE
            /\ rounds' = [rounds EXCEPT ![s].phase = "RESULT",
                                        ![s].result = r]
            /\ svcBoot' = IF runs[r].thread = "finishTold"
                          THEN runs[r].boot ELSE svcBoot
       ELSE UNCHANGED <<runLock, rounds, svcBoot>>
    /\ UNCHANGED <<admission, kioskHold, latest, intentVars, starting,
                   ctlVars, simVars>>

-----------------------------------------------------------------------------
(* _kill_runners(): docker rm -f of every kotoba-runner-* container.       *)
KilledRuns == [r \in Run |->
                  [runs[r] EXCEPT !.container = Removed(@)]]

(* /api/run/pause: sim.pause(), then _kill_runners(), then abort_run() as  *)
(* a step of its own.  That the simulator stands still only delays the     *)
(* world's steps, which they may be at any time.                           *)
PauseKill(s) ==
    /\ "pause" \in Env
    /\ Exists(s) /\ MayCall
    /\ pausing[s] = "idle"
    /\ pausing' = [pausing EXCEPT ![s] = "killed"]
    /\ runs' = KilledRuns
    /\ UNCHANGED <<svcVars, intentVars, starting, reset, simVars>>

AbortRun(s) ==
    /\ pausing[s] = "killed"
    /\ pausing' = [pausing EXCEPT ![s] = "idle"]
    /\ runLock' = FALSE
    /\ IF IsRunning(s)
       THEN /\ admission' = FALSE
            /\ rounds' = [rounds EXCEPT ![s].run = None, ![s].plan = None,
                                        ![s].game = None,
                                        ![s].phase = "FAULT"]
       ELSE UNCHANGED <<admission, rounds>>
    /\ UNCHANGED <<kioskHold, latest, svcBoot, intentVars, runVars, reset,
                   simVars>>

-----------------------------------------------------------------------------
(* reset(): one at a time, under _reset_mu.  The generation is revoked     *)
(* first, then the runners are killed, then the simulator restarts.        *)
OtherBusyIgnored(s) == FALSE     \* mutation: a reset asks about nobody else

OtherBusy(s) ==
    \/ \E t \in Session \ {s} : IsRunning(t)
    \/ runLock /\ ~IsRunning(s)

ResetBegin(s) ==
    /\ Exists(s)
    /\ reset.pc = "idle"
    /\ nonce < MaxBoot /\ rounds[s].id < MaxRound
    /\ ~OtherBusy(s)
    /\ ~kioskHold
    /\ reset' = [pc |-> "closed", session |-> s]
    /\ admission' = FALSE
    /\ latest' = s
    /\ runLock' = FALSE
    /\ rounds' = [rounds EXCEPT ![s].run = None, ![s].plan = None,
                                ![s].phase = "RESETTING"]
    /\ UNCHANGED <<kioskHold, svcBoot, intentVars, runVars, pausing, simVars>>

ResetKill ==
    /\ reset.pc = "closed"
    /\ reset' = [reset EXCEPT !.pc = "killed"]
    /\ runs' = KilledRuns
    /\ UNCHANGED <<svcVars, intentVars, starting, pausing, simVars>>

(* SimControl.restart(): stop, remove the markers, start a new boot.       *)
ResetRestart ==
    /\ reset.pc = "killed"
    /\ reset' = [reset EXCEPT !.pc = "restarting"]
    /\ sim' = "starting"
    /\ nonce' = nonce + 1
    /\ UNCHANGED <<svcVars, intentVars, runVars, pausing>>

ResetDone ==
    /\ reset.pc = "restarting"
    /\ sim \in {"ready", "lost"}
    /\ reset' = [pc |-> "idle", session |-> None]
    /\ svcBoot' = nonce
    /\ rounds' = [s \in Session |->
                    IF s = reset.session THEN NewRound(rounds[s].id + 1)
                    ELSE rounds[s]]
    /\ latest' = reset.session
    /\ admission' = TRUE
    /\ UNCHANGED <<runLock, kioskHold, intent, plans,
                   approvals, runVars, pausing, simVars>>

(* Mutation: the phase is left as it was.                                  *)
ResetFailedSilently ==
    /\ reset.pc = "restarting"
    /\ reset' = [pc |-> "idle", session |-> None]
    /\ UNCHANGED <<svcVars, intentVars, runVars, pausing, simVars>>

(* boot-ready.json did not appear in time: the admission stays closed.     *)
ResetFailed ==
    /\ reset.pc = "restarting"
    /\ reset' = [pc |-> "idle", session |-> None]
    /\ rounds' = [s \in Session |->
                    IF s = reset.session
                    THEN [rounds[s] EXCEPT !.phase = "FAULT"] ELSE rounds[s]]
    /\ UNCHANGED <<runLock, admission, kioskHold, latest, svcBoot, intentVars,
                   runVars, pausing, simVars>>

(* A docker command raised: only _reset_mu is released.                    *)
ResetRaised ==
    /\ "docker_timeout" \in Env
    /\ reset.pc # "idle"
    /\ reset' = [pc |-> "idle", session |-> None]
    /\ UNCHANGED <<svcVars, intentVars, runVars, pausing, simVars>>

(* The stand manager verifies the boot, and may report it lost.            *)
StandReady ==
    /\ sim = "starting"
    /\ sim' = "ready"
    /\ UNCHANGED <<svcVars, intentVars, runVars, ctlVars, nonce>>

StandLost ==
    /\ "fall" \in Env
    /\ sim = "ready"
    /\ sim' = "lost"
    /\ UNCHANGED <<svcVars, intentVars, runVars, ctlVars, nonce>>

-----------------------------------------------------------------------------
UserNext ==
    \/ ReserveKioskExit
    \/ \E s \in Session :
          \/ CreateSession(s) \/ SpawnRound(s)
          \/ InterpretBegin(s) \/ Approve(s)
          \/ \E r \in Run : StartGame(s, r)
          \/ \E p \in Plan : StartRunRead(s, p)
          \/ PauseKill(s) \/ ResetBegin(s)

ThreadNext ==
    \/ ResetKill \/ ResetRestart \/ ResetDone \/ ResetFailed
    \/ ResetRaised
    \/ \E s \in Session :
          \/ InterpretMark(s) \/ InterpretNoPlan(s)
          \/ \E p \in Plan : InterpretPlan(s, p)
          \/ \E r \in Run : StartRunCommit(s, r)
          \/ StartRunRefused(s)
          \/ AbortRun(s)
    \/ \E r \in Run :
          \/ ExecCheck(r) \/ ExecLaunch(r) \/ ExecRecheck(r)
          \/ ExecCollect(r) \/ FinishRun(r)

WorldNext ==
    \/ KioskHoldExpires \/ StandReady \/ StandLost
    \/ \E r \in Run : RunnerArms(r) \/ RunnerExits(r)

Next == UserNext \/ ThreadNext \/ WorldNext

Spec == Init /\ [][Next]_vars

(* The threads of the server run to their end: every docker, wait and boot *)
(* step they do has a time limit.  Users and the world owe nothing.        *)
ExecStep(r) == ExecCheck(r) \/ ExecLaunch(r) \/ ExecRecheck(r)
               \/ ExecCollect(r) \/ FinishRun(r)
ResetStep   == ResetKill \/ ResetRestart \/ ResetDone \/ ResetFailed

Fairness ==
    /\ WF_vars(ResetStep)
    /\ \A r \in Run : WF_vars(ExecStep(r))

FairSpec == Spec /\ Fairness

-----------------------------------------------------------------------------
(* The types of the variables of service.py, app.py and the containers.    *)
TypeOK ==
    /\ rounds \in [Session -> RoundState]
    /\ runLock \in BOOLEAN /\ admission \in BOOLEAN /\ kioskHold \in BOOLEAN
    /\ latest \in Session \cup {None} /\ svcBoot \in Nat
    /\ intent \in [Session -> [pc: {"idle", "checked", "thinking"},
                              round: Nat]]
    /\ plans \in [Plan -> [session: Session \cup {None}, round: Nat]]
    /\ approvals \subseteq Plan \X Nat
    /\ starting \in [Session -> [boot: Nat, plan: Plan \cup {None}]]
    /\ runs \in [Run -> RunState]
    /\ reset \in [pc: {"idle", "closed", "killed", "restarting"},
                  session: Session \cup {None}]
    /\ pausing \in [Session -> {"idle", "killed"}]
    /\ sim \in {"down", "starting", "ready", "lost"}
    /\ nonce \in Nat

(* A round shows the outcome of a run of its own, and of none started      *)
(* before the last reset: finish_run() quarantines late results (R2-B).    *)
ResultBelongsToRound ==
    \A s \in Session : rounds[s].result # None =>
        LET r == rounds[s].result IN
        /\ runs[r].session = s
        /\ runs[r].round = rounds[s].id
        /\ runs[r].thread = "done"

(* No late result takes the known boot back to an earlier one (R2-B).      *)
BootNeverGoesBack == [][svcBoot' >= svcBoot]_vars

(* While a session plays a game, the renderer draws its target or none:    *)
(* neither a spawn nor a reset of another session replaces it.             *)
DisplayIsTargetInPlay ==
    \A s \in Session :
        IsRunning(s) /\ rounds[s].run = rounds[s].game => Displayed \subseteq {s}

(* However often a plan is approved and sent to /api/runs, one run at most *)
(* carries it out.                                                         *)
PlanRunsOnce ==
    \A r, q \in Started :
        runs[r].plan # None /\ runs[r].plan = runs[q].plan => r = q

(* Between a granted exit-ready and its expiry no session runs or resets,  *)
(* so that the kiosk window may close.                                     *)
KioskHoldQuiet ==
    kioskHold => \A s \in Session :
                    rounds[s].phase \notin {"RUNNING", "RESETTING"}

(* run_lock: one run at a time, and a running session holds it.            *)
SingleRun ==
    /\ AnyRunning => runLock
    /\ \A s, t \in Session : IsRunning(s) /\ IsRunning(t) => s = t

(* At most one container moves the robot of the present boot.              *)
OneActuator ==
    \A r, q \in Started : Actuating(r) /\ Actuating(q) => r = q

(* While the admission is closed no session runs.                          *)
ClosedIsQuiet == ~admission => ~AnyRunning

(* The lock is held for a run that its session still owns and whose thread *)
(* has not ended, so that its finish_run() will free it.                   *)
LockHasOwner ==
    runLock => \E r \in Started : OwnsRun(r) /\ runs[r].thread # "done"

(* A container that moves the robot works for the session that runs it,    *)
(* but for the moments in which a reset is stopping it.                    *)
ActuatorIsOwned ==
    \A r \in Started : Actuating(r) /\ reset.pc = "idle" => OwnsRun(r)

(* C13: once no reset and no pause is in progress, every container up is   *)
(* one whose run is still the session's own, or whose thread removes it.   *)
NoOrphanRunner ==
    (reset.pc = "idle" /\ \A s \in Session : pausing[s] = "idle") =>
        \A r \in Started :
            runs[r].container \in {"up", "armed"} =>
                OwnsRun(r) \/ runs[r].thread = "created"

(* The orchestrator implements RunLease: run_lock, the phases and the      *)
(* generation tests of owns_run() and finish_run() give one run at a time  *)
(* the robot, and no revoked run its result a place on the screen.         *)
Owner == IF AnyRunning
         THEN rounds[CHOOSE s \in Session : IsRunning(s)].run ELSE None

Lease == INSTANCE RunLease WITH
            owner <- Owner, granted <- Started, open <- admission,
            shown <- {rounds[s].result : s \in Session} \ {None}

ImplementsLease == Lease!LeaseSpec

(* Every run ends and gives the lock back.                                 *)
LockReleased == runLock ~> ~runLock

(* Every reset ends: _reset_mu is free again and no round stays RESETTING. *)
ResetEnds ==
    \A s \in Session : rounds[s].phase = "RESETTING" ~>
                          rounds[s].phase # "RESETTING"
=============================================================================
