# Verification of kotoba-robocon

TLA+ models of the parts of kotoba-robocon that decide *who may move the robot
and what a visitor is told about it*, the TLC runs that check them on small
instances, and TLAPS proofs for every value of the constants.

Source paths are relative to the repository:
`service.py` and `app.py` are in `services/orchestrator/src/kotoba_api/`,
`approval_store.py` in `services/orchestrator/src/kotoba_orchestrator/`,
`control.py`, `motion.py`, `trial.py`, `auth.py`, `observer.py` in
`services/harness/src/kotoba_harness/`, and
`kotoba_game_controller.py`, `kotoba_stand_manager.py`, `kotoba_runner.py`,
`kotoba_steps_runner.py` in `services/runtime/`,
`App.tsx`, `spawn_reconcile.ts`, `mode_return.ts` in `apps/kiosk/src/`.

## 1. Inventory of the system

A visitor speaks or types in a browser (the kiosk). The orchestrator, a FastAPI
process, turns words into a plan (approved, then run once) or into a game (a
round of bounded commands: move, stop, strike, end). A run is carried out by a
runner container that it starts with docker, in front of a simulator that it
restarts with docker. All of them share one robot and one run directory per run.

| Component | State it keeps | Operations | Talks to |
|---|---|---|---|
| `ProductSession` (service.py) | per session a `RoundState` (phase, plan, run, result, spec, game); `run_lock`, `_admission_open`, `_kiosk_exit_until`, `_latest_spec_session`, `boot_nonce` | create_session, spawn_round, interpret, approve, start_run, start_game, game_command, finish_run, abort_run, reset, reserve_kiosk_exit | called by the handlers and the runner threads of app.py; calls the language model, the approval store, SimControl |
| HTTP handlers and runner threads (app.py) | `_pending`, `_run_display`; one thread per run | /api/intents, /api/approve, /api/runs, /api/game/*, /api/run/pause, /api/reset; `_execute_run`, `_execute_game`, `_kill_runners` | docker, run directories |
| SimControl (app.py) | the simulator containers, boot-ready.json, boot-lost.json | restart, pause, resume, `_boot_ready` | docker; stand manager, by marker files |
| ApprovalStore | records (plan hash, world, session, round, boot, expiry) | issue, verify_and_consume | start_run |
| Game half of ProductSession | `game`: seq, epoch, input_seq, strike_pending | game_command, `_game_write`, `_strike_pending_resolve`, outcome in finish_run | language model outside the lock; control.json, strike.json, control_state.json |
| Game controller | gate, StrikeFSM, seen / expired / unverified strikes, current move, health, round end | 20 Hz loop, end of round, result.json | control files, the send gateway |
| MotionExecutor (motion.py) | phase, step, jog, corrections, deadlines | begin, tick, request_stop, abort | steps runner, game controller |
| End hold (`_verify_end_hold`) | settle window, time held, gap | settle, hold | all runners, at their end |
| Control channel (control.py) | two mailbox files | write_command, write_strike_event, LatestWinsGate, check_fresh | API and controller |
| TrialFSM, FallLatch, ReadyGate (trial.py) | phase, latches | transition, observe | runners, stand manager |
| SendGateway, manifests (auth.py), scheduler.py | manifest expiry, budget, deadlines | prepare, issue | runners |
| Observation (observer.py, `Observer` of kotoba_runner.py, kotoba_live_observer.py) | last packet of each stream, the bound pair, the pin, the clock gate | accept, bind, latest | UDP from simulator and controller; runners |
| Stand manager | last sample, clock, hold; passive-detected, boot-ready.json, boot-lost.json | burst, verify, publish, monitor | UDP; SimControl by files |
| Steps runner (kotoba_steps_runner.py) | executor, fall latch, outage, shutdown reason, verdict | setup, loop, end, result.json | executor, gateway, run_cmd.json, heartbeat.json |
| Plan runner (kotoba_runner.py) | ready gate, stop trigger, stop policy, corrections, tail, verdict | bind, ready wait, walk, decelerate, burst, stand, tail, score | observer, gateway, result.json |
| Language model, parser, plan validation | none | decide, parse, validate | service.py |
| Kiosk (App.tsx, spawn_reconcile.ts, mode_return.ts) | session, its generation, the round and target on the screen, the spawn attempt | poll, newInstruction, switchToGame, switchToNormal, resetRound, reconcileSpawn | the API, over a network that loses and delays |
| ASR, local entry, geometry, probes | audio cursor | - | the API |

What is hard in it:

* *Threads.* Handlers run in a thread pool, every run has a thread of its own.
  `_run_mu` is held for short blocks and given up around docker calls, language
  model calls (up to 40 s) and simulator restarts. What was read before may be
  wrong after: the run lock, the boot, the plan, the generation of a run.
* *Revocation.* A reset or a pause revokes a run whose thread and container go
  on for a while; late results must not be shown and late containers not move.
* *Two writers, two files.* The API and the controller share files that are
  overwritten, read again in every pass, and lag (the state is written twice a
  second). The strike mailbox and the command mailbox are not ordered.
* *Closed loop.* What a step does next hangs on what was observed, on three
  clocks and two counters, which meet at their limits; and the robot moves on after
  the stick is released.
* *Marker files.* A boot is trusted on the strength of files written by a process
  that may die, be late, or outlive the boot it watched.
* *Two streams.* The state of the robot names no boot and the clock has no
  posture; a pair of them is trusted only if they arrived together.
* *Lost answers.* The kiosk gives up a POST after 8 s; it may still be applied, and
  only GETs, one after the other, can tell.
* *Faults.* docker commands time out, the simulator does not come up, the boot
  is lost, observations stop, the manifest expires, the container is killed.

The properties that make each part right are listed with its runs in section 3;
`PROJECT.json` lists the hazards at their lines.

## 2. The modules and the code

### ProductSession, RunLease, MCProductSession

`ProductSession.tla` models service.py with the handlers and threads of app.py.
Every block under `_run_mu` is one action; every read or call between two
such blocks is another. Correspondence:

| Variables | Code |
|---|---|
| `rounds`, `runLock`, `admission`, `kioskHold`, `latest`, `svcBoot` | the fields of `ProductSession` |
| `intent` | a call of `interpret()`: *checked* after the unlocked test of `run_lock`, *thinking* after the first write of the phase; it keeps the round it read |
| `plans`, `approvals` | plan ids with the session and round they were made for; records of the store |
| `starting` | a request to /api/runs between its reads and `start_run()` |
| `runs` | a run's owner, boot, plan, its thread (check, launch, created, waiting, finish, done) and container (up, armed, exited) |
| `reset`, `pausing` | the `reset()` that holds `_reset_mu`; a pause between `_kill_runners()` and `abort_run()` |
| `sim`, `nonce` | simulator and boot number |

`RunLease.tla` is what all this is for: a run is granted the robot at most once,
alone, while admission is open, and only a run that ends as its owner is shown.
`ProductSession!ImplementsLease` is the refinement.

`Env` switches on optional behaviours of the surroundings. It exists
because some of them break properties (section 4): a run that checks such a
property leaves the behaviour out, and says so; another run shows the violation.
`"overlap"` is an intent and a start of *one* session under way together; the
kiosk disables its buttons then, other clients need not.

Left out: texts, histories and `last_intent`; `world_version`; the coalescing of
a second reset (it changes nothing); refusals that change nothing (403, 404,
409, offline mode); the expiry of an approval - `StartRunRefused` may happen at
any time; the clearing of `_pending` (a missing entry is a refusal); sim.pause()
(a standing simulator only delays steps that may be late anyway).

### GameMailbox, GameCommands, GameController, GameRound

`GameMailbox.tla` has the files of a run directory. `GameCommands.tla` is the API
side: numbering, reservation of strikes, questions to the language model whose
answers come back later, the outcome. `GameController.tla` is the
controller: one pass of the loop is three steps (control.json, strike.json, the
robot), so that a write of the API can fall between two reads. `GameRound.tla`
composes both with the passing of time (commands grow stale, strikes expire).

Deadlines inside the loop, the arena border, the fall latch, the hit judgement
and the end hold are choices that may fall at any pass. `write_state` publishes
or does not, after each pass, so that the API sees states that lag. One
assumption about time is built in, and named: `StrikeOverdue` - a second after
the expiry of a strike the controller has written its state at least once since
it took it. The code writes it every half second in the loop.

Left out: stick values and poses; the truncation of lists in control_state.json
to the last five; a lost control file; field validation; `strike_unconfirmed`
(display only); the input deadline (an answer may be dropped at any time);
lease checks.

### OrderedSteps, MotionExecutor, EndHold, StepsRunner

`MotionExecutor.tla` is motion.py. The disjuncts of `Tick` are the ways through
`tick()`, in its order: the anchor of a new step, the limits that are checked in
every phase (`Trips`), then what the phase does. `EndHold.tla` is
`_verify_end_hold()`; `StepsRunner.tla` is the runner of the ordinary mode with
both: a pass of its loop is `Poll` (observation, fall, stop file, heartbeat) and
`Drive` (tick and frame), so that the manifest can expire and a stop arrive in
between. `OrderedSteps.tla` is what a list of steps promises, whatever is
observed: the steps one after the other, a rest after every burst, a bounded
number of bursts, nothing after a failure. `StepsRunner!ImplementsOrder` is the
refinement.

| Variables | Code |
|---|---|
| `program`, `i`, `phase`, `applyLeft`, `corrections`, `correcting`, `stopReq`, `jogEnd`, `reason` | the attributes of `MotionExecutor` (`i` counts from 1, 0 is before `begin()`) |
| `elapsed`, `stalled`, `rest` | `now` minus `_t0`, `_last_prog_t`, `_settle_since`; -1 for None |
| `out` | the return value of `tick()` |
| `fallen`, `endStage`, `window`, `stable`, `held`, `gap`, `budget` | the fall latch; the locals of `_verify_end_hold()` |
| `pc`, `missed`, `shutdown`, `stopFile`, `expired`, `stood`, `verdict` | place in `main()`; `obs_dead_since`, `shutdown_reason`, the command file, the manifest, the sends of combo_pd_stand, result.json |
| `sinceStick`, `watched` | history, read by properties only: time since the last stick; time seen standing within the limits without a gap |

Poses, speeds and sticks are left out. Of an observation the model keeps the
answers `tick()` asks of it, each free in every pass: drift, progress, target
reached, boundary near, standing still, short of or beyond the target. Time is
counted in passes of the 20 Hz loop, simulated time of the end hold in units of
its own that may stand still while passes go by. After an outage the next tick
is several passes long, as in the code (the comment at kotoba_steps_runner.py:193
says that the executor's clock stands still; it reads `now` and does not). Clocks
are kept up to the first value their limits tell apart. `Abort` belongs to the
executor but is called by the game controller only, so that no step of this
run takes it; the game modules have it as the end of a move.

Left out: run_state.json, the events, the frames sent by `finally`; the messages
of an exception (all are `FAIL_RAISED`); the fields of result.json other than the
verdict.

### BootGate, StandManager, SimBoot

`StandManager.tla` is kotoba_stand_manager.py, one action per pass of its
loops. `SimBoot.tla` puts it under SimControl of app.py: `restart()` step by step -
each docker command and each wait may fail - with the controller, the watcher of its
log, the simulator, the robot, and `_boot_ready()`, which tells the server from two
files whether a boot may be trusted. `BootGate.tla` is what the files are for: the
gate is open only for the boot that is up, at most once in each, and closed
before the next begins. `SimBoot!ImplementsGate` is the refinement.

| Variables | Code |
|---|---|
| `boot`, `sim`, `ctl`, `posture` | the nonce that kotoba-mujoco was started with; the two containers; the robot |
| `passiveFlag`, `ready`, `stale`, `lost` | passive-detected; the nonce in boot-ready.json, and its `verified_at`; boot-lost.json |
| `mg` | place in `main()` of the manager: burst, verify, verified (about to write), monitor, losing (between the two writes), off |
| `seen`, `seenAge`, `nonce`, `clockGap`, `held` | `samples[-1]` and its age; `clock_nonce`; time since `clock_sim_t` changed; now minus `stand_since` |
| `rs`, `rcOk`, `told` | place in `restart()`; the return codes it adds up; its answer |
| `touching` | the thread that follows the log of the controller, between line and touch |
| `watched`, `certified`, `opened` | history, read by properties only |

Time is counted in passes. `restart()` is called at most `MaxBoots` times;
`restart_with_retry()` has no caller in the repository and is left out, as are the render proxy
and the live observer, which are killed and started with the rest. The exit code
NO_PASSIVE_ENTRY cannot be reached (the flag is there before the manager
starts), nor can the reason `sim_clock_stalled`. `docker rm -f` is taken to
remove what it names. In ProductSession a restart is one step that succeeds or not
and the lost boot an event; SimBoot is what justifies that step.

### Observation, PlanRunner

`Observation.tla` is the `Observer` thread of kotoba_runner.py with the
`ClockGate` of observer.py: pin, sequence and progress of the clock, and the pair of
state and clock that arrived together. `PlanRunner.tla` is the body of
kotoba_runner.py with the ready gate, stop policy, fall latch and scorer of trial.py.

| Variables | Code |
|---|---|
| `publishing` | the boot whose packets are under way, none between two |
| `pin`, `stateOf`, `clockOf` | `_expected_nonce`; `_state` and `_clock` while they are young enough to be bound |
| `ahead`, `boundAge`, `boundOf`, `held` | simulated time of the accepted clock beyond the bound one; age and origin of `_bound`; its simulated time minus `tail_start_sim` |
| `expect` | `boot_expect` of the manifest |
| `pc`, `okFor`, `triggered`, `stillFor`, `decelFor`, `prevErr`, `corrections`, `fallen`, `tailOk`, `expired`, `verdict` | place in `main()` and its locals; the attributes of `ReadyGate`, `NormalStopPolicy`, `FallLatch`; the manifest; result.json |
| `frame` | the last frame sent |
| `stood`, `sound`, `strange` | history, read by properties only |

A sample is a class: posture (standing, out of the window, fallen), speed (three
classes, cut at the two thresholds) and distance (three classes). Ticks are
0.25 s; a restart of the simulator takes more than one, a packet that comes late is
one of an earlier clock. After a sequence of sends no pair is young enough
(`ObsAges(TRUE)`). Left out: target.json, the events and run_state.json, headings
and stick values, the frames of the exception handler's `finally`,
`LatestStateObserver` and the live observer.

### RoundServer, KioskRounds, KioskNavigation

`KioskRounds.tla` has the kiosk's poll and the judgement of spawn_reconcile.ts,
`KioskNavigation.tla` the ways from one round to another. An action goes from one
`await` to the next, because other callbacks run there. `RoundServer.tla` is the
server as the kiosk sees it: a short abstraction of ProductSession, with the boot
that live.json names, which lags.

| Variables | Code |
|---|---|
| `rounds`, `lastRound`, `boot`, `observed`, `resetting`, `admission` | the server: `RoundState` per session, `boot_nonce`, live.json, `_reset_mu`, `_admission_open` |
| `sid`, `outdated` | `sessionId`; which of the flights began under an earlier `sessionGeneration` |
| `shown`, `game`, `attempt`, `changed` | `state`, `game`, `spawnAttempt`, `spawnGenerationChanged` |
| `poll`, `nav`, `again` | the locals of `poll()`; of the navigation that is under way; `resetRound()` from its own button |
| `call`, `late` | the POST that is awaited; the POSTs that were given up and may still be applied |
| `floor` | history: the round the kiosk was last told of, by the answer to a POST or by its own inspection |

Rounds are numbers in the order they begin. Assumed: the first session exists when the page is up;
a `setState` is seen by the next timer or click. Left out: a server that restarts
(404), runs and games of the kiosk (`Works` uses up a round instead), the reset that is coalesced
with one less than 2 s ago, speech and audio, wording.

## 3. The runs

Module MCProductSession:

| Run | Question | Size |
|---|---|---|
| session_games | Two sessions, two games, pauses, overlapping requests, docker timeouts. `ResultBelongsToRound`: no round shows a run of another session or round. `DisplayIsTargetInPlay`: the drawn target is that of the game in play. `BootNeverGoesBack`: no late result takes the known boot back. | 5.1 M states |
| session_plans | Two sessions, a plan and games, kiosk exit, lost boots. `SingleRun`, `LockHasOwner`: the lock is held for a run whose thread will still free it. `OneActuator`, `ActuatorIsOwned`: phase and moving container agree. `ClosedIsQuiet`, `KioskHoldQuiet`: nothing runs while admission is closed or the kiosk may exit. `PlanRunsOnce`. `ImplementsLease`. | 2.9 M |
| session_live | `LockReleased`, `ResetEnds`, with a simulator that may be down at first. | 2 min |
| lock_stolen | section 4 | seconds |

Bounds: two sessions are what a conflict needs (each acts as the other's
stranger); two runs give a late thread of one while the other is current, two
rounds and two boots a late thread of an earlier round and boot. One plan and
two runs suffice for a plan carried out twice. `MaxCall` = 1 lets one request be
half done at a time, next to all runner threads and a reset; every known conflict
needs one half-done request. Symmetry is used for the safety runs only.

Module MCGameRound:

| Run | Question | Size |
|---|---|---|
| game_round | `OneStrikeAhead`: at most one strike may still swing, though the API decides on stale states. `DecidedNeverBegins`, `NoReplay`: no file is applied twice. `NoLateInterpretation`: an answer of the language model has no effect once another input was taken. `NoSwingAfterEnd`. `FaultIsShown`: an outcome other than fault means a healthy controller. | 3.1 M |
| game_live | `EndEndsLoop`, `StrikeIsDecided`. | 0.8 M |
| game_stop, game_jog | section 4 | seconds |

Bounds: three commands are two strikes and a stop, end or move before, between or
after them, which is what the reservation and the gate have to tell apart;
MaxSwings = 2 makes the last permitted swing differ from the first; a
question to the language model and two inputs overtaking it fit in MaxInput = 3.
The liveness run uses two commands and one swing: its properties speak of one
command each.

Module MCStepsRunner:

| Run | Question | Size |
|---|---|---|
| steps_trial | `CompletedAtRest`: no step counts as completed before the stick was withdrawn for settle_hold_s - after corrections too, and not on the strength of the rest of an earlier step. `ImplementsOrder`. `HoldWasWatched`: no gap counts as standing. `PassIsEarned`: PASS means all steps completed, no fall, no shutdown, stand sent, hold seen. `RunEnds`: finite steps end although they may be corrected, and nobody can jog for ever. | 1.7 M states, 2 min |

Bounds: the programs are two finite steps of different kinds (a second step meets
what the first left behind, a turn has other limits than a translation) and a
jog. One correction allowed makes the last one differ from the first; two
passes of sticks and of rest make a first, a last and an interrupted one;
`StepDeadline` = 6 is shorter than a step with its correction, so that every limit
can come first. One pass may be missed and the second ends the run. Two units of
hold can be interrupted, and the budgets are longer than the shortest success.

Module MCSimBoot:

| Run | Question | Size |
|---|---|---|
| boot_life | `ReadyWasHeld`: ready names the boot that is up, whose robot was seen standing without a gap for the whole hold. `RestartTellsItsBoot`: `restart()` never answers with the boot of an earlier call whose manager wrote late. `ImplementsGate`. `FallClosesGate`: the gate does not stay open over a robot that lies. | 0.28 M |

Bounds: three boots are a manager or a watcher that outlives its boot by one, and
a third boot that would inherit its files; Hold = 3 can be interrupted in the middle
and near its end; Fresh and Stall are the first values that forgive one pass.
`StreamsSplit` = FALSE says that state and clock fail together, up to `MaxApart`
passes: both come from one simulator process. With TRUE the last property fails
(section 4).

Module MCPlanRunner:

| Run | Question | Size |
|---|---|---|
| plan_trial | `PlanPassIsEarned`: PASS means observations of the approved boot only, a whole ready hold, the stand, and a whole tail without a bad sample. `PlanEnds`, though nothing may arrive and simulated time may stand. | 40 thousand |

Bounds: ready hold, tail, stop confirmation and corrections each have a first, a
middle and a last value; a pair may be one or two ticks old before it is too old;
two boots are the approved one and any other.

Module MCKiosk:

| Run | Question | Size |
|---|---|---|
| kiosk_rounds | `NoOldRound`: once the kiosk was told of a new round no answer brings an older one, or one of another session, back to the screen. `VerdictIsTrue`: a spawn is taken for done only in the boot it was asked for, and the flight's "changed" is true. `SpawnSettled`: a pending spawn is decided or offered again, whatever the network does. | 3.1 M, 2.5 min |

Bounds: two sessions, rounds and boots make one change of each; a poll is a
machine that begins anew every time, so that one that overlaps everything else is
every poll; two attempts are one and its retry; one late POST is the one that
matters, as a second would find the target already there. AbsentReads = 1 is the
shortest way to a retry.

Deadlock checking is off: a session may be left alone for good, the counters are
bounded, and a game that ended does nothing more.

Fairness. The runner threads and a reset run to their end because every docker,
wait and marker step in app.py has a time limit (`Fairness` of ProductSession;
users, language model and simulator owe nothing). The steps runner is one thread
that waits for nobody - every loop in it has its own deadline - so that weak
fairness of its steps together (`Runs`) is its due; stop requests and the expiry of
the manifest are owed nothing, and `RunEnds` does not use them. The loop of the
controller runs at 20 Hz (weak fairness of `Setup` and `Tick`), and each phase of a strike
has a deadline after which it advances or ends, however often it only waits
(strong fairness of `StrikeAdvances` or `StrikeOver`).
The stand manager and `restart()` are loops of their own processes that wait for
nobody (a manager may still die at any moment), and an hour ends (`GoesStale`).
The plan runner is a thread whose waits all have deadlines (`RunnerRaises`). Of the
kiosk only the browser's timers are fair, the 8 s of a POST and the 12 s of an
attempt; the network, the server and the visitor owe nothing.

Where a run names no `TypeOK` the types are proved (section 5).

Every property of a passing run has a mutant in `PROJECT.json`: a plausible bug
in a mapped definition under which TLC finds the property violated.

## 4. What the models found

| Run | Property | What happens |
|---|---|---|
| lock_stolen | `OneActuator` | `abort_run()` frees the run lock also when the session that pauses is not the one running. A second run is admitted and two containers move the robot (service.py:974; the header promises one run lock). |
| game_stop | `StopCancelsStrike` | The strike mailbox has no sequence gate: a strike that waits begins after a later STOP was applied (kotoba_game_controller.py:765). |
| game_jog | `StopEndsJog` | A STOP in the first ticks of a jog is used up without effect: `jogging` is already true, `request_stop()` does not listen yet (motion.py:365). |

`session_plans` checks lock, actuator and lease without pauses, overlapping
requests and docker time-outs, because each of these breaks some of them (section 5).

Divergences of the same weight without a run of their own. The first three are
shown by TLC with the definition named and the given constants:

* `LockHasOwner`, MCProductSession as in session_plans with "overlap" in `Env`:
  `interpret()` tests the lock without the mutex and writes the phase
  afterwards. It takes RUNNING from a run started in between, whose
  `finish_run()` no longer matches; nobody releases the lock, and reset refuses
  (service.py:617-622).
* `NoOrphanRunner`, the same with "pause": a pause kills the containers *before* it
  revokes the run. A container created in between passes the second generation
  test and moves on for a round in FAULT (app.py:477, against the comment at 639).
  The property is violated by "overlap" and by "docker_timeout" alone as well, and
  proved without the three.
* `ResettingIsReset` (ProductRuns_proofs), the same with "docker_timeout": a docker
  command that raises inside `reset()` leaves the round RESETTING with the admission
  closed, and nothing but another reset ends it (service.py:1055).
* `FaultIsNamed`, MCGameRound as in game_round: after a lost observation the phase
  machine refuses WALK -> DONE, the exception skips `result["control"]`, and
  obs_lost is never reported by name (kotoba_game_controller.py:1066).
  `FaultIsShown` still holds: it is shown as a fault.
* `FallClosesGate` with `StreamsSplit` = TRUE: the monitor looks at the progress of
  the clock only. A stream of states that ends alone leaves the gate open over a
  robot that falls, against the comment at kotoba_stand_manager.py:190-194.
  A related one: a simulator paused for more than a second is reported as lost.
* An expired manifest is never reported as `manifest_expired` by the steps runner,
  because the gateway raises before the runner asks (kotoba_steps_runner.py:245,
  251), and such a run makes no attempt to stand; the time of an outage counts
  towards the rest of a step (lines 193, 243).
* `NormalStopPolicy._still_since` survives a correction burst (trial.py:137): one
  slow sample after it confirms the standstill.
* A walk of the plan runner that runs out of its 40 s before the stop was triggered
  ends through an illegal transition, hence as an exception; the last frame sent may then be a
  stick (kotoba_runner.py:463).
* A poll whose first two GETs were answered before a spawn was asked for can judge the
  attempt by them and say "changed" when nothing has changed; the kiosk then
  offers a reset. `VerdictIsTrue` claims "changed" of the flight's own snapshots
  only. A reset POST that arrives late has no number of its own and may reset a newer round.

## 5. What is proved

`ProductSession_proofs.tla`, `ProductRuns_proofs.tla`, `GameRound_proofs.tla`, `StepsRunner_proofs.tla`,
`SimBoot_proofs.tla`, `PlanRunner_proofs.tla`, `Kiosk_proofs.tla` and
`KioskVerdict_proofs.tla` hold theorems for every value of the constants - any number of sessions, runs, commands, swings,
steps, boots, rounds, any hold and time-out - checked by TLAPS down to the last leaf. The assumptions are those of the
modules: the bounds are natural numbers, MaxSwings is at least 1, `None` is no
session, plan or run, `Env` is a set of the named choices.

| Theorem | Says | Argument |
|---|---|---|
| ProductSession: `TypeCorrect` | `[]TypeOK` | a table is typed first, then the rest follows; one step per action |
| ProductSession: `OneRunAtATime` | without pauses, `[](SingleRun /\ ClosedIsQuiet)` | `LockInv`: the two properties and that no pause is under way are inductive. `IsRunning` is entered only by StartGame and StartRunCommit, which test the lock; the lock is dropped only by the owner's `finish_run()` and by a reset that has asked about the others |
| ProductRuns: `ClosedMeansQuiet` | without pauses, `[]ClosedIsQuiet` | from `OneRunAtATime` |
| ProductRuns: `ResultsBelong` | `[]ResultBelongsToRound` | the run a round names is one it started itself (`RoundsOwnRun`); a run never changes its session and round, a thread that ended stays ended (`RunKept`) |
| ProductRuns: `HoldIsQuiet` | `[]KioskHoldQuiet` | RUNNING and RESETTING are entered only by steps that test the hold (`RunningStep`, `ResettingStep`) |
| ProductRuns: `PlayedTargetDisplayed` | `[]DisplayIsTargetInPlay` | `DisplayInv`: a reset under way keeps everybody from running (`ResetQuiet`); a session in the run of its game is the latest |
| ProductRuns: `BootOnlyAdvances` | `BootNeverGoesBack` | `BootInv`: only a run of the latest boot that still owns its round can tell a boot |
| ProductRuns: `PlansRunOnce` | `[]PlanRunsOnce` | `PlanInv`: a plan in review has no run yet, and belongs to one session |
| ProductRuns: `LockIsOwned` | without overlapping requests, `[]LockHasOwner` | `RestsInv`: while the lock is held some session runs, does not interpret, and its run's thread has not ended (`RunnerKeepsLock`); whatever revokes a run - its end, a pause, a reset - drops the lock in the same step |
| ProductRuns: `ActuatorAlone` | without pauses and docker time-outs, `[]OneActuator` | `AloneInv`: a container that is up in the present boot, or about to be, keeps the others from starting through the lock or through the reset that stops it (`LiveHolds`); a thread that has ended left none behind (`ThreadFits`) |
| ProductRuns: `ActuatorOwned` | without pauses, overlapping requests and docker time-outs, `[]ActuatorIsOwned` | a session that interprets does not run and one that starts does not interpret (`OwnerInv`), so a container belongs to an owner, to an earlier boot or to a reset that is stopping it (`LiveOwned`) |
| ProductRuns: `NobodyOrphaned` | under the same assumptions, `[]NoOrphanRunner` | `AwaitedOwned`: a container somebody waits for is owned until the reset that revokes its run has killed it (`ClosedUntilKill`) |
| ProductRuns: `ResetCarriesOn` | without docker time-outs, a round is RESETTING only while a reset of it is under way | a reset goes on for its session until it is done or has failed (`ResetGoesOn`), and both leave the phase |
| ProductRuns: `LeaseRefined` | without pauses and overlapping requests, `ImplementsLease` | `LeaseInv`: starts are Grants, the owner's end a Report, a reset closes and reopens, every other step is a stutter |
| GameRound: `TypeCorrect` | `[]TypeOK`, with it: `strikes_started` never exceeds `max_swings` | `TypeInv`: an epoch has a number of its own (`EpochOK`), a strike that has not swung is not consumed (`FsmOK`), a looping controller has a swing left or is in the last one (`Budget`) |
| GameRound: `EndStopsSwings` | `[]NoSwingAfterEnd` | `EndOK`: after an END the loop only goes on while a strike recovers |
| GameRound: `DecidedStaysDecided` | `DecidedNeverBegins` | `SeenOK`: decided strikes were seen, and only an unseen one begins |
| GameRound: `LateAnswersDropped` | `NoLateInterpretation` | `AskOK`: an overtaken question has a ticket below the input counter |
| GameRound: `MovesOnce` | `NoReplay` | from the gate, step by step |
| GameRound: `FaultsAreShown` | `[]FaultIsShown` | `ResultOK`, `OutcomeOK`: results are final, a PASS needs a healthy controller |
| GameRound: `StrikesOneAtATime` | `[]OneStrikeAhead` | `AheadInv`, below |
| GameRound: `StrikesAreAccounted` | every strike the controller took is under way, or in the lists of what was executed, expired or unverified | `FateInv`: strikes are over in the order they were sent; strike.json is only replaced by a later one (`BoxGrows`) |
| StepsRunner: `TypeCorrect` | `[]TypeOK`, with it: never more than `max_corrections` | module by module: the executor's actions keep `ExTypeOK`, the hold's keep `HoldTypeOK` |
| StepsRunner: `CompletedOnlyAtRest` | `CompletedAtRest` | `RestInv`: a rest that is being measured is never longer than the time since the stick; it is unset in every phase that sends one |
| StepsRunner: `HoldIsWatched` | `[]HoldWasWatched` | `WatchInv`: with no gap open the time held is the time watched; the first sample after a gap starts both anew |
| StepsRunner: `PassCorrect` | `[]PassIsEarned` | inductive with `WatchInv`, `StepInv` (a completed run is at its last step) and `VerdictInv` (after the verdict nothing follows) |
| StepsRunner: `StepsInOrder` | `ImplementsOrder` | `StepInv` bounds the step and the bursts; every action of the executor is a step of OrderedSteps or a stutter |
| SimBoot: `TypeCorrect`, `ReadyHeld`, `RestartHonest`, `GateRefined` | `[]TypeOK`, `[]ReadyWasHeld`, `[]RestartTellsItsBoot`, `ImplementsGate` | one inductive invariant: where `restart()` is tells which containers and files can exist (`RestartInv`); what the manager has counted was seen (`ManagerInv`); ready is of the present boot and certified (`FilesInv`); a manager that is still to bring up its boot is of a boot the gate was not yet open for (`OnceInv`) |
| PlanRunner: `TypeCorrect`, `PassCorrect` | `[]TypeOK`, `[]PlanPassIsEarned` | state and clock of one tick are of the boot that is up and the clock is of the pin, so that a bound pair is of the pinned boot (`SentInv`); past its boot check the runner is pinned to the approved one (`BootInv`); what the gate counted was seen (`ReadyInv`), and a bad sample spoils the tail (`TailInv`) |
| Kiosk: `NoOldRoundShown` | `[]NoOldRound` | rounds of a session only grow; a flight that is not outdated reads the kiosk's session, nothing older than the floor (`PollInv`, `NavInv`); whatever raises the floor outdates all flights |
| Kiosk: `KioskTypes` | `[]TypeOK` | with `NoOldRoundShown`'s invariant, variable by variable |
| Kiosk: `AttemptsCarried` | an attempt that is not settled has its own POST under way | only the answer or the time limit takes a flight from its POST (`PostGoesOn`), and both settle it (`UnsettledStep`) |
| KioskVerdict: `VerdictInductive`, `VerdictShown` | `[](KInv /\ VInv)`, `[]VerdictIsTrue` | `VInv`, below |

`OneStrikeAhead` is the one that is not obvious. The API decides on a state that
may be old. The invariant says why this suffices: every strike that may still
make the robot swing is reserved (`strike_pending`) or is *shown* as under way in
the published state (`AheadOK`), what the published state tells of a strike is
true once and for all (`PublishedOK`, `SeenOK`), and numbers are not used twice
(`IdsOK`). A reservation can be given up unanswered only a second after its
expiry; by then a strike that was taken in time is shown, and one that was
not taken has expired. So when a strike is accepted nothing may swing
(`AcceptedAlone`).

`VerdictIsTrue` speaks of snapshots put together from three GETs that were answered
at different times. `VInv` dates each part: none is newer than what the server
says now, the target is no newer than the boot that was read after it, a target is
made only in the boot live.json names and is not exchanged within its round, and an
attempt is no newer than what its own flight reads after the POST. The boot in which
the target was read thus lies between that of the target and the one that was read
last, and a spawn is taken for done when both are the attempt's.

`ResultsBelong`, `HoldIsQuiet`, `PlayedTargetDisplayed`, `BootOnlyAdvances` and
`PlansRunOnce` hold in every environment - pauses, overlapping requests, docker
time-outs, falls. The others leave out behaviours that break them: those of
section 4, and a `docker run` that times out after it created the container, whose
thread ends and releases the lock while the container is up (app.py:641). No
assumption is there for the sake of a proof: with `Env` reduced to the one
behaviour it excludes and the other constants of session_plans, TLC finds the
property violated, for each assumption of each of these theorems.

Only model-checked: the eight liveness properties, as fairness is out of the
prover's reach. Of four of them the part that is no liveness is proved, which says
that what they wait for has somebody who is at it: of `LockReleased` that the lock
is held for a thread that has not ended (`LockIsOwned`), of `ResetEnds` that a
RESETTING round has its reset (`ResetCarriesOn`), of `StrikeIsDecided` that a strike
is under way or has its fate (`StrikesAreAccounted`), of `SpawnSettled` that an
attempt has its POST (`AttemptsCarried`). `NoOrphanRunner` and the three statements that are
no property of a run were checked by TLC at the bounds of session_plans, game_round and
kiosk_rounds before they were proved.

## 6. What is not modelled

| Part | Why |
|---|---|
| Send gateway beyond its expiry, send scheduler | budget, sequence numbers and deadlines of single frames; a runner sends a frame or raises |
| `LatestStateObserver`, the live observer | the steps runner and the game controller take "observed or not" as a choice; live.json is `observed` of RoundServer |
| Word parser, plan validation | functions of texts and numbers; the models take their verdict as a choice |
| Kinematics, hit boxes, world geometry | floating-point numbers |
| Speech recognition, local entry, render proxy, health, history | input and output, no shared state the properties depend on |
| The rest of the kiosk | speech, audio cursor, layout, the start of runs and games: ProductSession allows these requests at any time |
| A full disk or a crash of the orchestrator | the orchestrator keeps its state in memory and starts anew; a write that fails before `finish_run()` is listed as a hazard |

## 7. Plan

1. *(done)* ProductSession with RunLease: the run lock, revocation, reset.
2. *(done)* The game: commands, mailbox files, controller, round.
3. *(done)* `MotionExecutor` with `EndHold` in `StepsRunner`, as an
   implementation of `OrderedSteps`.
4. *(done)* `StandManager` with SimControl in `SimBoot`, as an implementation of
   `BootGate`.
5. *(done)* `Observation` with `PlanRunner`.
6. *(done)* The kiosk: `RoundServer`, `KioskRounds`, `KioskNavigation`.
7. Left: `SendGateway` with the scheduler (budget, deadlines of frames); the audio
   cursor; the coalesced reset and a server that restarts under the kiosk.

Every safety property the passing runs check is a theorem; further ones belong to the
parts of item 7.
