------------------------- MODULE ProductRuns_proofs -------------------------
(***************************************************************************)
(* Runs, results, plans, targets and the actuator of ProductSession: the   *)
(* properties that need more than the run lock, and the refinement of      *)
(* RunLease, for any number of sessions, plans and runs.                   *)
(***************************************************************************)
EXTENDS ProductSession_proofs

-----------------------------------------------------------------------------
(* The steps, by what they write.                                          *)

Starts(s, r) == StartGame(s, r) \/ StartRunCommit(s, r)

(* The steps of the runner thread and of the container of run r.           *)
RunStep(r) == \/ ExecCheck(r) \/ ExecLaunch(r) \/ ExecRecheck(r)
              \/ ExecCollect(r) \/ FinishRun(r)
              \/ RunnerArms(r) \/ RunnerExits(r)

LEMMA RunsWriters ==
    ASSUME [Next]_vars
    PROVE  \/ runs' = runs
           \/ \E s \in Session : \E r \in Run : Starts(s, r)
           \/ \E s \in Session : PauseKill(s)
           \/ ResetKill
           \/ \E r \in Run : RunStep(r)
<1> USE DEF vars, svcVars, intentVars, runVars, ctlVars, simVars
<1>1. CASE UserNext
  BY <1>1 DEF UserNext, CreateSession, ReserveKioskExit, SpawnRound,
              InterpretBegin, Approve, StartRunRead, ResetBegin, Starts
<1>2. CASE ThreadNext
  BY <1>2 DEF ThreadNext, InterpretMark, InterpretNoPlan, InterpretPlan,
              StartRunRefused, AbortRun, ResetRestart, ResetDone,
              ResetFailed, ResetRaised, Starts, RunStep
<1>3. CASE WorldNext
  BY <1>3 DEF WorldNext, KioskHoldExpires, StandReady, StandLost, RunStep
<1>4. CASE UNCHANGED vars
  BY <1>4
<1> QED
  BY <1>1, <1>2, <1>3, <1>4 DEF Next

(* What a run is never changes, and a thread that ended stays ended.       *)
SameRun(r) ==
    /\ runs[r].session = runs'[r].session
    /\ runs[r].round = runs'[r].round
    /\ runs[r].boot = runs'[r].boot
    /\ runs[r].plan = runs'[r].plan
    /\ runs[r].thread # "none" => runs'[r].thread # "none"
    /\ runs[r].thread = "done" => runs'[r].thread = "done"
    /\ runs[r].thread = "none" => runs'[r].thread = "none"

LEMMA KilledSame ==
    ASSUME TypeOK, runs' = KilledRuns, NEW r \in Run
    PROVE  SameRun(r)
<1>1. runs[r] \in RunState
  BY DEF TypeOK
<1>2. runs'[r] = [runs[r] EXCEPT !.container = Removed(@)]
  BY DEF KilledRuns
<1> QED
  BY <1>1, <1>2 DEF SameRun, RunState

(* A step of a run writes its thread and its container only.               *)
Writes(r, th, c) ==
    /\ runs' = [runs EXCEPT ![r] = [runs[r] EXCEPT !.thread = th,
                                                   !.container = c]]
    /\ runs[r].thread \in {"none", "done"} => th = runs[r].thread
    /\ runs[r].thread # "none" => th # "none"

LEMMA RunStepWrites ==
    ASSUME TypeOK, NEW r \in Run, RunStep(r)
    PROVE  \E th \in Thread, c \in Container : Writes(r, th, c)
<1>1. runs \in [Run -> RunState] /\ runs[r] \in RunState
  BY DEF TypeOK
<1>2. runs[r].thread \in Thread /\ runs[r].container \in Container
  BY <1>1 DEF RunState
<1> DEFINE Th(th) == runs' = [runs EXCEPT ![r].thread = th]
           Co(c) == runs' = [runs EXCEPT ![r].container = c]
           Both(th, c) == runs' = [runs EXCEPT ![r].thread = th,
                                               ![r].container = c]
<1>3. ASSUME NEW th \in Thread, Th(th),
             runs[r].thread \notin {"none", "done"}, th # "none"
      PROVE  Writes(r, th, runs[r].container)
  BY <1>1, <1>3 DEF Writes, RunState
<1>4. ASSUME NEW c \in Container, Co(c)
      PROVE  Writes(r, runs[r].thread, c)
  BY <1>1, <1>4 DEF Writes, RunState
<1>5. ASSUME NEW th \in Thread, NEW c \in Container, Both(th, c),
             runs[r].thread \notin {"none", "done"}, th # "none"
      PROVE  Writes(r, th, c)
  BY <1>1, <1>5 DEF Writes, RunState
<1>6. CASE ExecCheck(r)
  <2>1. /\ runs[r].thread = "check"
        /\ Th("launch") \/ Th("done")
    BY <1>6 DEF ExecCheck, ThreadTo
  <2>2. "launch" \in Thread /\ "done" \in Thread
    BY DEF Thread
  <2> QED
    BY <1>2, <1>3, <2>1, <2>2
<1>7. CASE ExecLaunch(r)
  <2>1. /\ runs[r].thread = "launch"
        /\ Both("created", "up") \/ Th("finish") \/ Both("finish", "up")
    BY <1>7 DEF ExecLaunch
  <2>2. "created" \in Thread /\ "finish" \in Thread /\ "up" \in Container
    BY DEF Thread, Container
  <2> QED
    BY <1>2, <1>3, <1>5, <2>1, <2>2
<1>8. CASE ExecRecheck(r)
  <2>1. /\ runs[r].thread = "created"
        /\ Th("waiting") \/ \E c \in RemoveTried(runs[r].container) : Both("finish", c)
    BY <1>8 DEF ExecRecheck
  <2>2. "waiting" \in Thread /\ "finish" \in Thread
    BY DEF Thread
  <2>3. RemoveTried(runs[r].container) \subseteq Container
    BY <1>2 DEF RemoveTried, Removed, Container
  <2> QED
    BY <1>2, <1>3, <1>5, <2>1, <2>2, <2>3
<1>9. CASE ExecCollect(r)
  <2>1. PICK c \in RemoveTried(runs[r].container) :
           Both(IF runs[r].container = "exited" THEN "finishTold" ELSE "finish",
                IF c = "exited" THEN "none" ELSE c)
    BY <1>9 DEF ExecCollect
  <2>2. runs[r].thread = "waiting"
    BY <1>9 DEF ExecCollect
  <2>3. "finishTold" \in Thread /\ "finish" \in Thread /\ "none" \in Container
    BY DEF Thread, Container
  <2>4. RemoveTried(runs[r].container) \subseteq Container
    BY <1>2 DEF RemoveTried, Removed, Container
  <2> QED
    BY <1>5, <2>1, <2>2, <2>3, <2>4
<1>10. CASE FinishRun(r)
  <2>1. runs[r].thread \in {"finish", "finishTold"} /\ Th("done")
    BY <1>10 DEF FinishRun
  <2>2. "done" \in Thread
    BY DEF Thread
  <2> QED
    BY <1>2, <1>3, <2>1, <2>2
<1>11. CASE RunnerArms(r)
  <2>1. Co("armed")
    BY <1>11 DEF RunnerArms
  <2> QED
    BY <1>2, <1>4, <2>1 DEF Container
<1>12. CASE RunnerExits(r)
  <2>1. Co("exited") \/ Co("none")
    BY <1>1, <1>12 DEF RunnerExits
  <2> QED
    BY <1>2, <1>4, <2>1 DEF Container
<1> QED
  BY <1>6, <1>7, <1>8, <1>9, <1>10, <1>11, <1>12 DEF RunStep

LEMMA StartWrites ==
    ASSUME TypeOK, NEW s \in Session, NEW r \in Run, Starts(s, r)
    PROVE  /\ r \notin Started
           /\ \E b \in Nat, p \in Plan \cup {None} :
                 runs' = [runs EXCEPT ![r] =
                            [session |-> s, round |-> rounds[s].id, boot |-> b,
                             plan |-> p, thread |-> "check",
                             container |-> "none"]]
<1>1. BootReady \in Nat /\ None \in Plan \cup {None}
  BY BootReadyType
<1>2. starting[s].boot \in Nat /\ starting[s].plan \in Plan \cup {None}
  BY DEF TypeOK
<1> QED
  BY <1>1, <1>2 DEF Starts, StartGame, StartRunCommit, NewRun

(* A run that was started keeps what it is; one that was not is either not *)
(* started by this step or is started by a session for its round.          *)
LEMMA RunKept ==
    ASSUME TypeOK, [Next]_vars, NEW r \in Run
    PROVE  \/ SameRun(r)
           \/ \E s \in Session : Starts(s, r)
<1>1. runs \in [Run -> RunState]
  BY DEF TypeOK
<1>2. CASE runs' = runs
  BY <1>2 DEF SameRun
<1>3. ASSUME NEW s \in Session, NEW q \in Run, Starts(s, q), q # r
      PROVE  SameRun(r)
  BY <1>1, <1>3, StartWrites DEF SameRun
<1>4. CASE \E s \in Session : PauseKill(s)
  BY <1>4, KilledSame DEF PauseKill
<1>5. CASE ResetKill
  BY <1>5, KilledSame DEF ResetKill
<1>6. ASSUME NEW q \in Run, RunStep(q) PROVE SameRun(r)
  <2>1. PICK th \in Thread, c \in Container : Writes(q, th, c)
    BY <1>6, RunStepWrites
  <2>2. CASE q = r
    <3>1. runs'[r] = [runs[r] EXCEPT !.thread = th, !.container = c]
      BY <1>1, <2>1, <2>2 DEF Writes
    <3>2. runs[r] \in RunState
      BY <1>1
    <3> QED
      BY <2>1, <2>2, <3>1, <3>2 DEF Writes, SameRun, RunState
  <2>3. CASE q # r
    BY <1>1, <2>1, <2>3 DEF Writes, SameRun
  <2> QED
    BY <2>2, <2>3
<1> QED
  BY <1>2, <1>3, <1>4, <1>5, <1>6, RunsWriters

LEMMA StartedKept ==
    ASSUME TypeOK, [Next]_vars, NEW r \in Started
    PROVE  /\ r \in Started' /\ SameRun(r)
           /\ \A s \in Session : ~Starts(s, r)
<1>1. r \in Run
  BY DEF Started
<1>2. \A s \in Session : ~Starts(s, r)
  BY <1>1, StartWrites
<1>3. SameRun(r)
  BY <1>1, <1>2, RunKept
<1> QED
  BY <1>1, <1>2, <1>3 DEF Started, SameRun

LEMMA StartedGrows ==
    ASSUME TypeOK, [Next]_vars, NEW r \in Started', r \notin Started
    PROVE  \E s \in Session : Starts(s, r)
BY RunKept DEF Started, SameRun

-----------------------------------------------------------------------------
(* What a step may do to the round of session t: keep its run and result,  *)
(* forget them, start a run or end its run.                                *)
Keeps(t) ==
    /\ rounds'[t].id = rounds[t].id
    /\ rounds'[t].run = rounds[t].run
    /\ rounds'[t].result = rounds[t].result
    /\ rounds'[t].game = rounds[t].game
    /\ IsRunning(t)' => IsRunning(t)

Forgets(t) ==
    /\ rounds'[t].run = None
    /\ rounds'[t].game \in {None, rounds[t].game}
    /\ \/ rounds'[t].result = None
       \/ rounds'[t].result = rounds[t].result /\ rounds'[t].id = rounds[t].id
    /\ ~IsRunning(t)'

Ends(t, r) ==
    /\ FinishRun(r) /\ OwnsRun(r) /\ runs[r].session = t
    /\ rounds' = [rounds EXCEPT ![t] = [rounds[t] EXCEPT !.phase = "RESULT",
                                                         !.result = r]]

LEMMA RoundStep ==
    ASSUME TypeOK, [Next]_vars, NEW t \in Session
    PROVE  \/ Keeps(t)
           \/ Forgets(t)
           \/ \E r \in Run : Starts(t, r)
           \/ \E r \in Run : Ends(t, r)
<1>1. rounds \in [Session -> RoundState] /\ rounds[t] \in RoundState
  BY DEF TypeOK
<1>2. ASSUME rounds' = rounds PROVE Keeps(t)
  BY <1>2 DEF Keeps, IsRunning
<1>3. ASSUME NEW s \in Session, CreateSession(s) PROVE Keeps(t) \/ Forgets(t)
  <2>1. rounds' = [rounds EXCEPT ![s] = NewRound(1)]
    BY <1>3 DEF CreateSession
  <2>2. CASE s = t
    BY <1>1, <2>1, <2>2 DEF Forgets, NewRound, IsRunning
  <2>3. CASE s # t
    BY <1>1, <2>1, <2>3 DEF Keeps, IsRunning
  <2> QED
    BY <2>2, <2>3
<1>4. ASSUME NEW s \in Session, SpawnRound(s) PROVE Keeps(t)
  BY <1>1, <1>4 DEF SpawnRound, Keeps, IsRunning, RoundState
<1>5. ASSUME NEW s \in Session,
             InterpretMark(s) \/ InterpretNoPlan(s)
             \/ \E p \in Plan : InterpretPlan(s, p)
      PROVE  Keeps(t)
  <2>1. CASE InterpretMark(s)
    BY <1>1, <2>1 DEF InterpretMark, Keeps, IsRunning, RoundState
  <2>2. CASE InterpretNoPlan(s)
    BY <1>1, <2>2 DEF InterpretNoPlan, Keeps, IsRunning, RoundState
  <2>3. ASSUME NEW p \in Plan, InterpretPlan(s, p) PROVE Keeps(t)
    BY <1>1, <2>3 DEF InterpretPlan, Keeps, IsRunning, RoundState
  <2> QED
    BY <1>5, <2>1, <2>2, <2>3
<1>6. ASSUME NEW s \in Session, NEW r \in Run, Starts(s, r), s # t
      PROVE  Keeps(t)
  BY <1>1, <1>6 DEF Starts, StartGame, StartRunCommit, Keeps, IsRunning
<1>7. ASSUME NEW s \in Session, AbortRun(s) PROVE Keeps(t) \/ Forgets(t)
  <2>1. CASE IsRunning(s) /\ s = t
    BY <1>1, <1>7, <2>1 DEF AbortRun, Forgets, IsRunning, RoundState
  <2>2. CASE IsRunning(s) /\ s # t
    BY <1>1, <1>7, <2>2 DEF AbortRun, Keeps, IsRunning
  <2>3. CASE ~IsRunning(s)
    BY <1>2, <1>7, <2>3 DEF AbortRun
  <2> QED
    BY <2>1, <2>2, <2>3
<1>8. ASSUME NEW s \in Session, ResetBegin(s) PROVE Keeps(t) \/ Forgets(t)
  <2>1. CASE s = t
    BY <1>1, <1>8, <2>1 DEF ResetBegin, Forgets, IsRunning, RoundState
  <2>2. CASE s # t
    BY <1>1, <1>8, <2>2 DEF ResetBegin, Keeps, IsRunning
  <2> QED
    BY <2>1, <2>2
<1>9. CASE ResetDone
  BY <1>1, <1>9 DEF ResetDone, Keeps, Forgets, NewRound, IsRunning
<1>10. CASE ResetFailed
  BY <1>1, <1>10 DEF ResetFailed, Keeps, IsRunning, RoundState
<1>11. ASSUME NEW r \in Run, FinishRun(r)
       PROVE  Keeps(t) \/ Ends(t, r)
  <2>1. CASE Finishes(r)
    <3> DEFINE s == runs[r].session
    <3>1. /\ s \in Session /\ OwnsRun(r)
          /\ rounds' = [rounds EXCEPT ![s].phase = "RESULT", ![s].result = r]
      BY <1>11, <2>1 DEF FinishRun, Finishes, OwnsRun
    <3>2. rounds' = [rounds EXCEPT ![s] = [rounds[s] EXCEPT !.phase = "RESULT",
                                                            !.result = r]]
      BY <1>1, <3>1 DEF RoundState
    <3>3. CASE s = t
      BY <1>11, <3>1, <3>2, <3>3 DEF Ends
    <3>4. CASE s # t
      BY <1>1, <3>1, <3>2, <3>4 DEF Keeps, IsRunning
    <3> QED
      BY <3>3, <3>4
  <2>2. CASE ~Finishes(r)
    BY <1>2, <1>11, <2>2 DEF FinishRun
  <2> QED
    BY <2>1, <2>2
<1> QED
  BY <1>2, <1>3, <1>4, <1>5, <1>6, <1>7, <1>8, <1>9, <1>10, <1>11, QuietSteps
     DEF Starts

-----------------------------------------------------------------------------
(* Results: the run a round names is one it has started itself.            *)
RoundsOwnRun ==
    \A s \in Session : rounds[s].run # None =>
        /\ rounds[s].run \in Started
        /\ runs[rounds[s].run].session = s
        /\ runs[rounds[s].run].round = rounds[s].id

ResultInv == RoundsOwnRun /\ ResultBelongsToRound

LEMMA DoneIsStarted ==
    ASSUME TypeOK, ResultBelongsToRound, NEW s \in Session,
           rounds[s].result # None
    PROVE  rounds[s].result \in Started
<1>1. rounds[s] \in RoundState
  BY DEF TypeOK
<1>2. rounds[s].result \in Run
  BY <1>1 DEF RoundState
<1> QED
  BY <1>2 DEF ResultBelongsToRound, Started

LEMMA ResultStep == TypeOK /\ ResultInv /\ [Next]_vars => ResultInv'
<1> SUFFICES ASSUME TypeOK, RoundsOwnRun, ResultBelongsToRound, [Next]_vars,
                    NEW t \in Session
             PROVE  /\ rounds'[t].run # None =>
                          /\ rounds'[t].run \in Started'
                          /\ runs'[rounds'[t].run].session = t
                          /\ runs'[rounds'[t].run].round = rounds'[t].id
                    /\ rounds'[t].result # None =>
                          /\ runs'[rounds'[t].result].session = t
                          /\ runs'[rounds'[t].result].round = rounds'[t].id
                          /\ runs'[rounds'[t].result].thread = "done"
  BY DEF ResultInv, RoundsOwnRun, ResultBelongsToRound
<1>1. rounds \in [Session -> RoundState] /\ runs \in [Run -> RunState]
  BY DEF TypeOK
<1>2. ASSUME rounds[t].run # None
      PROVE  /\ rounds[t].run \in Started' /\ SameRun(rounds[t].run)
             /\ runs[rounds[t].run].session = t
             /\ runs[rounds[t].run].round = rounds[t].id
  BY <1>2, StartedKept DEF RoundsOwnRun
<1>3. ASSUME rounds[t].result # None
      PROVE  /\ SameRun(rounds[t].result)
             /\ runs[rounds[t].result].session = t
             /\ runs[rounds[t].result].round = rounds[t].id
             /\ runs[rounds[t].result].thread = "done"
             /\ rounds[t].result \in Started
  BY <1>3, StartedKept, DoneIsStarted DEF ResultBelongsToRound
<1>4. CASE Keeps(t)
  BY <1>2, <1>3, <1>4 DEF Keeps, SameRun
<1>5. CASE Forgets(t)
  BY <1>2, <1>3, <1>5 DEF Forgets, SameRun
<1>6. ASSUME NEW r \in Run, Starts(t, r)
      PROVE  /\ rounds'[t].run = r /\ rounds'[t].id = rounds[t].id
             /\ rounds'[t].result = rounds[t].result
             /\ r \in Started' /\ runs'[r].session = t
             /\ runs'[r].round = rounds[t].id
  <2>1. /\ rounds'[t].run = r /\ rounds'[t].id = rounds[t].id
        /\ rounds'[t].result = rounds[t].result
    BY <1>1, <1>6 DEF Starts, StartGame, StartRunCommit, RoundState
  <2>2. PICK b \in Nat, p \in Plan \cup {None} :
           runs'[r] = [session |-> t, round |-> rounds[t].id, boot |-> b,
                       plan |-> p, thread |-> "check", container |-> "none"]
    BY <1>1, <1>6, StartWrites
  <2> QED
    BY <2>1, <2>2 DEF Started
<1>7. CASE \E r \in Run : Starts(t, r)
  BY <1>3, <1>6, <1>7 DEF SameRun
<1>8. ASSUME NEW r \in Run, Ends(t, r)
      PROVE  /\ rounds'[t].run = r /\ rounds[t].run = r
             /\ rounds'[t].id = rounds[t].id
             /\ rounds'[t].result = r
             /\ runs'[r].thread = "done" /\ SameRun(r)
  <2>1. rounds[t].run = r /\ r # None
    BY <1>8, NoneAssumption DEF Ends, OwnsRun
  <2>2. /\ rounds'[t].run = r /\ rounds'[t].id = rounds[t].id
        /\ rounds'[t].result = r
    BY <1>1, <1>8, <2>1 DEF Ends, RoundState
  <2>3. runs'[r].thread = "done"
    BY <1>1, <1>8 DEF Ends, FinishRun, RunState
  <2> QED
    BY <1>2, <2>1, <2>2, <2>3
<1>9. CASE \E r \in Run : Ends(t, r)
  <2>1. PICK r \in Run : Ends(t, r)
    BY <1>9
  <2>2. r # None
    BY NoneAssumption
  <2> QED
    BY <1>2, <1>8, <2>1, <2>2 DEF SameRun
<1> QED
  BY <1>4, <1>5, <1>7, <1>9, RoundStep

LEMMA ResultInit == Init => ResultInv
BY DEF Init, ResultInv, RoundsOwnRun, ResultBelongsToRound, NoRound, NewRound

(* A round shows the result of a run of its own, that has ended, and of    *)
(* none started before its last reset - with pauses, overlapping requests  *)
(* and docker time-outs (the quarantine of finish_run(), service.py).      *)
THEOREM ResultsBelong == Spec => []ResultBelongsToRound
<1>1. ResultInv => ResultBelongsToRound
  BY DEF ResultInv
<1> QED
  BY <1>1, ResultInit, ResultStep, TypeCorrect, PTL DEF Spec

-----------------------------------------------------------------------------
(* Who writes the gate, the reset, the renderer's session and the boots.   *)
LEMMA GateWriters ==
    ASSUME [Next]_vars
    PROVE  \/ UNCHANGED <<admission, kioskHold, latest, svcBoot, nonce, reset>>
           \/ \E s \in Session : SpawnRound(s) \/ ResetBegin(s) \/ AbortRun(s)
           \/ \E r \in Run : FinishRun(r)
           \/ ReserveKioskExit \/ KioskHoldExpires
           \/ ResetKill \/ ResetRestart \/ ResetDone \/ ResetFailed
           \/ ResetRaised
<1> USE DEF vars, svcVars, intentVars, runVars, ctlVars, simVars
<1>1. CASE UserNext
  BY <1>1 DEF UserNext, CreateSession, InterpretBegin, Approve, StartGame,
              StartRunRead, PauseKill
<1>2. CASE ThreadNext
  BY <1>2 DEF ThreadNext, InterpretMark, InterpretNoPlan, InterpretPlan,
              StartRunCommit, StartRunRefused, ExecCheck, ExecLaunch,
              ExecRecheck, ExecCollect, ThreadTo
<1>3. CASE WorldNext
  BY <1>3 DEF WorldNext, StandReady, StandLost, RunnerArms, RunnerExits
<1>4. CASE UNCHANGED vars
  BY <1>4
<1> QED
  BY <1>1, <1>2, <1>3, <1>4 DEF Next

LEMMA ServiceWriters ==
    ASSUME [Next]_vars
    PROVE  /\ admission' => admission \/ ResetDone
           /\ kioskHold' => kioskHold \/ ReserveKioskExit
           /\ latest' = latest \/ ResetDone
              \/ \E s \in Session : SpawnRound(s) \/ ResetBegin(s)
           /\ svcBoot' = svcBoot \/ ResetDone \/ \E r \in Run : FinishRun(r)
           /\ nonce' = nonce \/ ResetRestart
<1> USE DEF svcVars, intentVars, runVars, ctlVars, simVars
<1>1. CASE \E s \in Session : SpawnRound(s) \/ ResetBegin(s) \/ AbortRun(s)
  <2>1. PICK s \in Session : SpawnRound(s) \/ ResetBegin(s) \/ AbortRun(s)
    BY <1>1
  <2>2. UNCHANGED <<kioskHold, svcBoot, nonce>>
    BY <2>1 DEF SpawnRound, ResetBegin, AbortRun
  <2>3. AbortRun(s) => latest' = latest
    BY DEF AbortRun
  <2>4. admission' => admission
    BY <2>1 DEF SpawnRound, ResetBegin, AbortRun
  <2> QED
    BY <2>1, <2>2, <2>3, <2>4
<1>2. CASE \E r \in Run : FinishRun(r)
  <2>1. UNCHANGED <<admission, kioskHold, latest, nonce>>
    BY <1>2 DEF FinishRun
  <2> QED
    BY <1>2, <2>1
<1>3. CASE ReserveKioskExit \/ KioskHoldExpires
  BY <1>3 DEF ReserveKioskExit, KioskHoldExpires
<1>4. CASE ResetKill \/ ResetRestart
  BY <1>4 DEF ResetKill, ResetRestart
<1>5. CASE ResetDone \/ ResetFailed \/ ResetRaised
  BY <1>5 DEF ResetDone, ResetFailed, ResetRaised
<1> QED
  BY <1>1, <1>2, <1>3, <1>4, <1>5, GateWriters

LEMMA ResetWriters ==
    ASSUME TypeOK, [Next]_vars, reset'.pc # "idle"
    PROVE  \/ reset' = reset
           \/ \E s \in Session : ResetBegin(s)
           \/ ResetKill \/ ResetRestart
<1> USE DEF svcVars, intentVars, runVars, ctlVars, simVars
<1>1. CASE \E s \in Session : SpawnRound(s) \/ AbortRun(s)
  BY <1>1 DEF SpawnRound, AbortRun
<1>2. CASE \E r \in Run : FinishRun(r)
  BY <1>2 DEF FinishRun
<1>3. CASE ReserveKioskExit \/ KioskHoldExpires
  BY <1>3 DEF ReserveKioskExit, KioskHoldExpires
<1>4. CASE ResetDone \/ ResetFailed \/ ResetRaised
  BY <1>4 DEF ResetDone, ResetFailed, ResetRaised
<1> QED
  BY <1>1, <1>2, <1>3, <1>4, GateWriters

LEMMA RunningStep ==
    ASSUME TypeOK, [Next]_vars, NEW t \in Session, IsRunning(t)'
    PROVE  \/ IsRunning(t) /\ rounds'[t].run = rounds[t].run
                           /\ rounds'[t].game = rounds[t].game
           \/ \E r \in Run : Starts(t, r)
<1>1. rounds \in [Session -> RoundState]
  BY DEF TypeOK
<1>2. ASSUME NEW r \in Run, Ends(t, r) PROVE FALSE
  BY <1>1, <1>2 DEF Ends, IsRunning, RoundState
<1> QED
  BY <1>2, RoundStep DEF Keeps, Forgets

LEMMA StartsTest ==
    ASSUME TypeOK, NEW s \in Session, NEW r \in Run, Starts(s, r)
    PROVE  /\ admission /\ ~kioskHold /\ ~runLock
           /\ rounds'[s].run = r /\ rounds'[s].phase = "RUNNING"
           /\ UNCHANGED <<admission, kioskHold, latest, svcBoot, reset, nonce,
                          sim, pausing, intent, plans>>
<1>1. rounds \in [Session -> RoundState]
  BY DEF TypeOK
<1> QED
  BY <1>1 DEF Starts, StartGame, StartRunCommit, CanStartRun, Admitting,
              RoundState, intentVars, ctlVars, simVars

(* The reset that is under way keeps everybody from running.               *)
ResetQuiet == reset.pc # "idle" => ~admission /\ ~AnyRunning

LEMMA ResetQuietStep == TypeOK /\ ResetQuiet /\ [Next]_vars => ResetQuiet'
<1> SUFFICES ASSUME TypeOK, ResetQuiet, [Next]_vars, reset'.pc # "idle"
             PROVE  ~admission' /\ ~AnyRunning'
  BY DEF ResetQuiet
<1>1. reset \in [pc: {"idle", "closed", "killed", "restarting"},
                 session: Session \cup {None}]
  BY DEF TypeOK
<1>2. CASE \E s \in Session : ResetBegin(s)
  <2>1. PICK s \in Session : ResetBegin(s)
    BY <1>2
  <2>2. ~admission' /\ \A t \in Session \ {s} : ~IsRunning(t)
    BY <2>1 DEF ResetBegin, OtherBusy
  <2>3. ~IsRunning(s)' /\ \A t \in Session : IsRunning(t)' => IsRunning(t)
    BY <2>1, PhaseKept, PhaseLeft
  <2> QED
    BY <2>2, <2>3 DEF AnyRunning, IsRunning
<1>3. CASE ~\E s \in Session : ResetBegin(s)
  <2>1. ~ResetDone /\ reset.pc # "idle"
    BY <1>1, <1>3, ResetWriters DEF ResetKill, ResetRestart, ResetDone
  <2>2. ~admission /\ ~AnyRunning
    BY <2>1 DEF ResetQuiet
  <2>3. ~admission'
    BY <2>1, <2>2, ServiceWriters
  <2>4. \A t \in Session : ~IsRunning(t)'
    BY <2>2, RunningStep, StartsTest DEF AnyRunning
  <2> QED
    BY <2>3, <2>4 DEF AnyRunning, IsRunning
<1> QED
  BY <1>2, <1>3

LEMMA ResetQuietInit == Init => ResetQuiet
BY DEF Init, ResetQuiet

-----------------------------------------------------------------------------
LEMMA ResettingStep ==
    ASSUME TypeOK, [Next]_vars, NEW t \in Session,
           rounds'[t].phase = "RESETTING"
    PROVE  rounds[t].phase = "RESETTING" \/ ResetBegin(t)
<1>1. rounds \in [Session -> RoundState]
  BY DEF TypeOK
<1> USE <1>1 DEF RoundState
<1>2. ASSUME NEW s \in Session,
             CreateSession(s) \/ SpawnRound(s) \/ InterpretMark(s)
      PROVE  rounds[t].phase = "RESETTING"
  BY <1>2 DEF CreateSession, SpawnRound, InterpretMark, NewRound
<1>3. ASSUME NEW s \in Session,
             InterpretNoPlan(s) \/ \E p \in Plan : InterpretPlan(s, p)
      PROVE  rounds[t].phase = "RESETTING"
  BY <1>3 DEF InterpretNoPlan, InterpretPlan
<1>4. ASSUME NEW s \in Session, NEW r \in Run, Starts(s, r)
      PROVE  rounds[t].phase = "RESETTING"
  BY <1>4 DEF Starts, StartGame, StartRunCommit
<1>5. ASSUME NEW s \in Session, AbortRun(s)
      PROVE  rounds[t].phase = "RESETTING"
  BY <1>5 DEF AbortRun
<1>6. ASSUME NEW s \in Session, ResetBegin(s), s # t
      PROVE  rounds[t].phase = "RESETTING"
  BY <1>6 DEF ResetBegin
<1>7. ASSUME ResetDone \/ ResetFailed
      PROVE  rounds[t].phase = "RESETTING"
  BY <1>7 DEF ResetDone, ResetFailed, NewRound
<1>8. ASSUME NEW r \in Run, FinishRun(r)
      PROVE  rounds[t].phase = "RESETTING"
  BY <1>8 DEF FinishRun, Finishes, OwnsRun
<1>9. CASE UNCHANGED <<rounds, runLock, admission>>
  BY <1>9
<1> QED
  BY <1>2, <1>3, <1>4, <1>5, <1>6, <1>7, <1>8, <1>9, QuietSteps DEF Starts

(* A round that is RESETTING is the one the reset under way restarts.      *)
ResettingIsReset ==
    \A s \in Session : rounds[s].phase = "RESETTING" =>
                          reset.pc # "idle" /\ reset.session = s

LEMMA ResetGoesOn ==
    ASSUME "docker_timeout" \notin Env, TypeOK, [Next]_vars,
           reset.pc # "idle"
    PROVE  \/ reset'.pc # "idle" /\ reset'.session = reset.session
           \/ ResetDone \/ ResetFailed
<1> USE DEF svcVars, intentVars, runVars, ctlVars, simVars
<1>1. CASE \E s \in Session : SpawnRound(s) \/ ResetBegin(s) \/ AbortRun(s)
  BY <1>1 DEF SpawnRound, ResetBegin, AbortRun
<1>2. CASE \E r \in Run : FinishRun(r)
  BY <1>2 DEF FinishRun
<1>3. CASE ReserveKioskExit \/ KioskHoldExpires
  BY <1>3 DEF ReserveKioskExit, KioskHoldExpires
<1>4. CASE ResetKill \/ ResetRestart
  BY <1>4 DEF ResetKill, ResetRestart, TypeOK
<1>5. CASE ResetRaised
  BY <1>5 DEF ResetRaised
<1> QED
  BY <1>1, <1>2, <1>3, <1>4, <1>5, GateWriters

(* While no docker command raises, a round is RESETTING only as long as a  *)
(* reset() of it holds _reset_mu: none is left behind in that phase.       *)
THEOREM ResetCarriesOn ==
    ASSUME "docker_timeout" \notin Env
    PROVE  Spec => []ResettingIsReset
<1>1. Init => ResettingIsReset
  BY DEF Init, ResettingIsReset, NoRound, NewRound
<1>2. TypeOK /\ ResettingIsReset /\ [Next]_vars => ResettingIsReset'
  <2> SUFFICES ASSUME TypeOK, ResettingIsReset, [Next]_vars,
                      NEW t \in Session, rounds'[t].phase = "RESETTING"
               PROVE  reset'.pc # "idle" /\ reset'.session = t
    BY DEF ResettingIsReset
  <2>1. CASE ResetBegin(t)
    BY <2>1 DEF ResetBegin
  <2>2. CASE rounds[t].phase = "RESETTING"
    <3>1. reset.pc # "idle" /\ reset.session = t
      BY <2>2 DEF ResettingIsReset
    <3>2. rounds \in [Session -> RoundState]
      BY DEF TypeOK
    <3>3. ~ResetDone /\ ~ResetFailed
      BY <3>1, <3>2 DEF ResetDone, ResetFailed, NewRound, RoundState
    <3> QED
      BY <3>1, <3>3, ResetGoesOn
  <2> QED
    BY <2>1, <2>2, ResettingStep
<1> QED
  BY <1>1, <1>2, TypeCorrect, PTL DEF Spec

(* From a granted exit-ready to its expiry no session runs or resets,      *)
(* whoever pauses, overlaps or falls (reserve_kiosk_exit, service.py).     *)
THEOREM HoldIsQuiet == Spec => []KioskHoldQuiet
<1>1. Init => KioskHoldQuiet
  BY DEF Init, KioskHoldQuiet
<1>2. TypeOK /\ KioskHoldQuiet /\ [Next]_vars => KioskHoldQuiet'
  <2> SUFFICES ASSUME TypeOK, KioskHoldQuiet, [Next]_vars, kioskHold',
                      NEW t \in Session
               PROVE  rounds'[t].phase \notin {"RUNNING", "RESETTING"}
    BY DEF KioskHoldQuiet
  <2>1. CASE ReserveKioskExit
    BY <2>1 DEF ReserveKioskExit
  <2>2. CASE kioskHold
    <3>1. rounds[t].phase \notin {"RUNNING", "RESETTING"}
      BY <2>2 DEF KioskHoldQuiet
    <3>2. rounds'[t].phase # "RESETTING"
      BY <2>2, <3>1, ResettingStep DEF ResetBegin
    <3>3. rounds'[t].phase # "RUNNING"
      BY <2>2, <3>1, RunningStep, StartsTest DEF IsRunning
    <3> QED
      BY <3>2, <3>3
  <2> QED
    BY <2>1, <2>2, ServiceWriters
<1> QED
  BY <1>1, <1>2, TypeCorrect, PTL DEF Spec

-----------------------------------------------------------------------------
(* The renderer: a session in the run of its game is the one displayed.    *)
GameStarted == \A s \in Session : rounds[s].game # None => rounds[s].game \in Started
RunningHasRun == \A s \in Session : IsRunning(s) => rounds[s].run \in Run
PlayerIsLatest ==
    \A s \in Session :
        IsRunning(s) /\ rounds[s].run = rounds[s].game => latest = s

DisplayInv == ResetQuiet /\ GameStarted /\ RunningHasRun /\ PlayerIsLatest

LEMMA GameStartedStep == TypeOK /\ GameStarted /\ [Next]_vars => GameStarted'
<1> SUFFICES ASSUME TypeOK, GameStarted, [Next]_vars, NEW t \in Session,
                    rounds'[t].game # None
             PROVE  rounds'[t].game \in Started'
  BY DEF GameStarted
<1>1. rounds \in [Session -> RoundState]
  BY DEF TypeOK
<1>2. ASSUME rounds'[t].game = rounds[t].game
      PROVE  rounds'[t].game \in Started'
  BY <1>2, StartedKept DEF GameStarted
<1>3. CASE Keeps(t) \/ Forgets(t)
  BY <1>2, <1>3 DEF Keeps, Forgets
<1>4. ASSUME NEW r \in Run, Starts(t, r) PROVE rounds'[t].game \in Started'
  <2>1. rounds'[t].game \in {r, rounds[t].game}
    BY <1>1, <1>4 DEF Starts, StartGame, StartRunCommit, RoundState
  <2>2. r \in Started'
    <3>1. runs \in [Run -> RunState]
      BY DEF TypeOK
    <3> QED
      BY <1>4, <3>1, StartWrites DEF Started
  <2> QED
    BY <1>2, <2>1, <2>2
<1>5. ASSUME NEW r \in Run, Ends(t, r) PROVE rounds'[t].game \in Started'
  BY <1>1, <1>2, <1>5 DEF Ends, RoundState
<1> QED
  BY <1>3, <1>4, <1>5, RoundStep

LEMMA RunningHasRunStep == TypeOK /\ RunningHasRun /\ [Next]_vars => RunningHasRun'
<1> SUFFICES ASSUME TypeOK, RunningHasRun, [Next]_vars, NEW t \in Session,
                    IsRunning(t)'
             PROVE  rounds'[t].run \in Run
  BY DEF RunningHasRun, IsRunning
<1> QED
  BY RunningStep, StartsTest DEF RunningHasRun

LEMMA PlayerStep ==
    TypeOK /\ DisplayInv /\ [Next]_vars => PlayerIsLatest'
<1> SUFFICES ASSUME TypeOK, DisplayInv, [Next]_vars, NEW t \in Session,
                    IsRunning(t)', rounds'[t].run = rounds'[t].game
             PROVE  latest' = t
  BY DEF PlayerIsLatest, IsRunning
<1>1. rounds \in [Session -> RoundState]
  BY DEF TypeOK
<1>2. ASSUME NEW r \in Run, StartGame(t, r) PROVE latest' = t
  BY <1>2 DEF StartGame
<1>3. ASSUME NEW r \in Run, StartRunCommit(t, r) PROVE FALSE
  <2>1. rounds'[t].run = r /\ rounds'[t].game = rounds[t].game
    BY <1>1, <1>3 DEF StartRunCommit, RoundState
  <2>2. r \notin Started /\ r # None
    BY <1>3, NoneAssumption DEF StartRunCommit
  <2> QED
    BY <2>1, <2>2 DEF DisplayInv, GameStarted
<1>4. CASE IsRunning(t) /\ rounds'[t].run = rounds[t].run
                        /\ rounds'[t].game = rounds[t].game
  <2>1. latest = t
    BY <1>4 DEF DisplayInv, PlayerIsLatest
  <2>2. AnyRunning /\ reset.pc = "idle"
    BY <1>4 DEF AnyRunning, DisplayInv, ResetQuiet
  <2>3. ~ResetDone
    BY <2>2 DEF ResetDone
  <2>4. ASSUME NEW s \in Session, SpawnRound(s) PROVE FALSE
    BY <2>2, <2>4 DEF SpawnRound, WorldFree
  <2>5. ASSUME NEW s \in Session, ResetBegin(s) PROVE FALSE
    <3>1. CASE s = t
      BY <2>5, <3>1, PhaseLeft
    <3>2. CASE s # t
      BY <1>4, <2>5, <3>2 DEF ResetBegin, OtherBusy
    <3> QED
      BY <3>1, <3>2
  <2> QED
    BY <2>1, <2>3, <2>4, <2>5, ServiceWriters
<1> QED
  BY <1>2, <1>3, <1>4, RunningStep DEF Starts

(* While a session plays a game, the renderer draws its target or none:    *)
(* neither a spawn nor a reset of another session replaces it, with pauses,*)
(* overlapping requests and time-outs (display_spec(), service.py).        *)
THEOREM PlayedTargetDisplayed == Spec => []DisplayIsTargetInPlay
<1>1. Init => DisplayInv
  BY ResetQuietInit DEF Init, DisplayInv, GameStarted, RunningHasRun,
     PlayerIsLatest, IsRunning, NoRound, NewRound
<1>2. TypeOK /\ DisplayInv /\ [Next]_vars => DisplayInv'
  BY ResetQuietStep, GameStartedStep, RunningHasRunStep, PlayerStep
     DEF DisplayInv
<1>3. DisplayInv => DisplayIsTargetInPlay
  BY DEF DisplayInv, DisplayIsTargetInPlay, PlayerIsLatest, Displayed
<1> QED
  BY <1>1, <1>2, <1>3, TypeCorrect, PTL DEF Spec

-----------------------------------------------------------------------------
(* Boots: the service never knows a later boot than the latest, and what   *)
(* the run that owns a round can still tell is about the latest.           *)
CanTell(r) == runs[r].container \in {"armed", "exited"}
              \/ runs[r].thread = "finishTold"

BootInv ==
    /\ ResetQuiet
    /\ svcBoot <= nonce
    /\ \A r \in Run : OwnsRun(r) /\ CanTell(r) => runs[r].boot = nonce

LEMMA OwnStep ==
    ASSUME TypeOK, [Next]_vars, NEW r \in Run, OwnsRun(r)',
           \A s \in Session : ~Starts(s, r)
    PROVE  OwnsRun(r) /\ SameRun(r)
<1>1. SameRun(r)
  BY RunKept
<1>2. PICK s \in Session : s = runs[r].session
  BY <1>1 DEF OwnsRun, SameRun
<1>3. IsRunning(s)' /\ rounds'[s].run = r
  BY <1>1, <1>2 DEF OwnsRun, SameRun, IsRunning
<1>4. IsRunning(s) /\ rounds[s].run = r
  BY <1>3, RunningStep, StartsTest
<1> QED
  BY <1>1, <1>2, <1>4 DEF OwnsRun

LEMMA TellStep ==
    ASSUME TypeOK, [Next]_vars, NEW r \in Run, CanTell(r)'
    PROVE  /\ CanTell(r) \/ RunnerArms(r)
           /\ \A s \in Session : ~Starts(s, r)
<1>1. runs \in [Run -> RunState] /\ runs[r] \in RunState
  BY DEF TypeOK
<1> USE DEF CanTell
<1>2. CASE runs' = runs
  BY <1>1, <1>2, StartWrites DEF Started
<1>3. ASSUME NEW s \in Session, Starts(s, r) PROVE FALSE
  BY <1>1, <1>3, StartWrites
<1>4. ASSUME NEW s \in Session, NEW q \in Run, Starts(s, q), q # r
      PROVE  CanTell(r)
  BY <1>1, <1>4, StartWrites
<1>5. ASSUME runs' = KilledRuns PROVE CanTell(r)
  <2>1. runs'[r] = [runs[r] EXCEPT !.container = Removed(@)]
    BY <1>5 DEF KilledRuns
  <2> QED
    BY <1>1, <2>1 DEF Removed, RunState
<1>6. ASSUME NEW q \in Run, RunStep(q), q # r PROVE CanTell(r)
  <2>1. PICK th \in Thread, c \in Container : Writes(q, th, c)
    BY <1>6, RunStepWrites
  <2> QED
    BY <1>1, <1>6, <2>1 DEF Writes
<1>7. ASSUME RunStep(r) PROVE CanTell(r) \/ RunnerArms(r)
  <2>1. CASE ExecCheck(r)
    BY <1>1, <2>1 DEF ExecCheck, ThreadTo, RunState
  <2>2. CASE ExecLaunch(r)
    BY <1>1, <2>2 DEF ExecLaunch, RunState
  <2>3. CASE ExecRecheck(r)
    BY <1>1, <2>3 DEF ExecRecheck, RunState, RemoveTried, Removed
  <2>4. CASE ExecCollect(r)
    BY <1>1, <2>4 DEF ExecCollect, RunState, RemoveTried, Removed
  <2>5. CASE FinishRun(r)
    BY <1>1, <2>5 DEF FinishRun, RunState
  <2>6. CASE RunnerExits(r)
    BY <1>1, <2>6 DEF RunnerExits, RunState
  <2> QED
    BY <1>7, <2>1, <2>2, <2>3, <2>4, <2>5, <2>6 DEF RunStep
<1> QED
  BY <1>2, <1>3, <1>4, <1>5, <1>6, <1>7, RunsWriters DEF PauseKill, ResetKill

LEMMA BootStep ==
    ASSUME TypeOK, BootInv, [Next]_vars
    PROVE  BootInv' /\ svcBoot <= svcBoot'
<1>1. svcBoot \in Nat /\ nonce \in Nat
  BY DEF TypeOK
<1>2. ResetQuiet'
  BY ResetQuietStep DEF BootInv
<1>3. nonce <= nonce'
  BY <1>1, ServiceWriters DEF ResetRestart
<1>4. ASSUME NEW r \in Run, FinishRun(r)
      PROVE  svcBoot' = svcBoot \/ svcBoot' = nonce
  BY <1>4 DEF FinishRun, Finishes, BootInv, CanTell
<1>5. svcBoot' = svcBoot \/ svcBoot' = nonce
  BY <1>4, ServiceWriters DEF ResetDone
<1>6. svcBoot <= svcBoot'
  BY <1>1, <1>5 DEF BootInv
<1>7. svcBoot' <= nonce'
  <2>1. nonce' \in Nat
    BY <1>1, ServiceWriters DEF ResetRestart
  <2> QED
    BY <1>1, <1>3, <1>5, <2>1 DEF BootInv
<1>8. ASSUME NEW r \in Run, OwnsRun(r)', CanTell(r)'
      PROVE  runs'[r].boot = nonce'
  <2>1. /\ CanTell(r) \/ RunnerArms(r)
        /\ OwnsRun(r) /\ runs[r].boot = runs'[r].boot
    BY <1>8, TellStep, OwnStep DEF SameRun
  <2>2. AnyRunning
    BY <2>1 DEF OwnsRun, AnyRunning
  <2>3. nonce' = nonce
    BY <2>2, ServiceWriters DEF ResetRestart, BootInv, ResetQuiet
  <2> QED
    BY <2>1, <2>3 DEF BootInv, RunnerArms
<1> QED
  BY <1>2, <1>6, <1>7, <1>8 DEF BootInv

(* The boot the service tells of is never one earlier than it knew before: *)
(* a late result cannot take it back (finish_run(), service.py).           *)
THEOREM BootOnlyAdvances == Spec => BootNeverGoesBack
<1>1. Init => BootInv
  <2> SUFFICES ASSUME Init PROVE BootInv
    OBVIOUS
  <2>1. svcBoot <= nonce
    BY DEF Init, NoBoot
  <2>2. \A r \in Run : ~OwnsRun(r)
    BY DEF Init, OwnsRun, IsRunning, NoRound, NewRound
  <2> QED
    BY <2>1, <2>2, ResetQuietInit DEF BootInv
<1>2. TypeOK /\ BootInv /\ [Next]_vars => BootInv'
  BY BootStep
<1>3. TypeOK /\ BootInv /\ [Next]_vars => [svcBoot' >= svcBoot]_vars
  <2> SUFFICES ASSUME TypeOK, BootInv, [Next]_vars
               PROVE  svcBoot' >= svcBoot
    OBVIOUS
  <2>1. svcBoot \in Nat /\ svcBoot' \in Nat
    BY StepType DEF TypeOK
  <2> QED
    BY <2>1, BootStep
<1> QED
  BY <1>1, <1>2, <1>3, TypeCorrect, PTL DEF Spec, BootNeverGoesBack

-----------------------------------------------------------------------------
(* Plans: a plan that was issued belongs to one session, and while it is   *)
(* in review no run carries it out.                                        *)
RunPlanIssued ==
    \A r \in Run : runs[r].plan # None => plans[runs[r].plan].session # None

PlanIsOwn ==
    \A s \in Session :
        rounds[s].plan # None => plans[rounds[s].plan].session = s

ReviewIsFresh ==
    \A s \in Session :
        rounds[s].phase = "REVIEW" /\ rounds[s].plan # None =>
            \A r \in Run : runs[r].plan # rounds[s].plan

RunOfPlanAlone ==
    \A r, q \in Run : runs[r].plan # None /\ runs[r].plan = runs[q].plan => r = q

PlanInv == RunPlanIssued /\ PlanIsOwn /\ ReviewIsFresh /\ RunOfPlanAlone

LEMMA PlansWriters ==
    ASSUME [Next]_vars
    PROVE  plans' = plans \/ \E s \in Session, p \in Plan : InterpretPlan(s, p)
<1> USE DEF vars, svcVars, intentVars, runVars, ctlVars, simVars
<1>1. CASE UserNext
  BY <1>1 DEF UserNext, CreateSession, ReserveKioskExit, SpawnRound,
              InterpretBegin, Approve, StartGame, StartRunRead, PauseKill,
              ResetBegin
<1>2. CASE ThreadNext
  BY <1>2 DEF ThreadNext, InterpretMark, InterpretNoPlan,
              StartRunCommit, StartRunRefused, ExecCheck, ExecLaunch,
              ExecRecheck, ExecCollect, FinishRun, AbortRun, ResetKill,
              ResetRestart, ResetDone, ResetFailed, ResetRaised, ThreadTo
<1>3. CASE WorldNext
  BY <1>3 DEF WorldNext, KioskHoldExpires, StandReady, StandLost, RunnerArms,
              RunnerExits
<1>4. CASE UNCHANGED vars
  BY <1>4
<1> QED
  BY <1>1, <1>2, <1>3, <1>4 DEF Next

(* A plan that is issued stays with its session.                           *)
LEMMA PlansKept ==
    ASSUME TypeOK, [Next]_vars, NEW p \in Plan, plans[p].session # None
    PROVE  plans'[p].session = plans[p].session
<1>1. plans \in [Plan -> [session: Session \cup {None}, round: Nat]]
  BY DEF TypeOK
<1>2. ASSUME NEW s \in Session, NEW q \in Plan, InterpretPlan(s, q)
      PROVE  plans'[p].session = plans[p].session
  BY <1>1, <1>2 DEF InterpretPlan
<1> QED
  BY <1>2, PlansWriters

(* The plan of a round is forgotten, kept, or a fresh one of its session.  *)
KeepsPlan(t) == /\ rounds'[t].plan = rounds[t].plan
                /\ rounds'[t].phase = "REVIEW" => rounds[t].phase = "REVIEW"

LEMMA PlanStep ==
    ASSUME TypeOK, [Next]_vars, NEW t \in Session
    PROVE  \/ rounds'[t].plan = None
           \/ KeepsPlan(t)
           \/ \E p \in Plan : InterpretPlan(t, p) /\ rounds'[t].plan = p
<1>1. rounds \in [Session -> RoundState] /\ rounds[t] \in RoundState
  BY DEF TypeOK
<1> USE <1>1 DEF RoundState
<1>2. ASSUME rounds' = rounds PROVE KeepsPlan(t)
  BY <1>2 DEF KeepsPlan
<1>3. ASSUME NEW s \in Session, CreateSession(s)
      PROVE  rounds'[t].plan = None \/ KeepsPlan(t)
  BY <1>3 DEF CreateSession, NewRound, KeepsPlan
<1>4. ASSUME NEW s \in Session, SpawnRound(s) \/ InterpretMark(s)
      PROVE  KeepsPlan(t)
  BY <1>4 DEF SpawnRound, InterpretMark, KeepsPlan
<1>5. ASSUME NEW s \in Session, InterpretNoPlan(s) PROVE KeepsPlan(t)
  BY <1>5 DEF InterpretNoPlan, KeepsPlan
<1>6. ASSUME NEW s \in Session, NEW p \in Plan, InterpretPlan(s, p)
      PROVE  KeepsPlan(t) \/ (s = t /\ rounds'[t].plan = p)
  BY <1>6 DEF InterpretPlan, KeepsPlan
<1>7. ASSUME NEW s \in Session, NEW r \in Run, Starts(s, r)
      PROVE  KeepsPlan(t)
  BY <1>7 DEF Starts, StartGame, StartRunCommit, KeepsPlan
<1>8. ASSUME NEW s \in Session, AbortRun(s) \/ ResetBegin(s)
      PROVE  rounds'[t].plan = None \/ KeepsPlan(t)
  <2>1. CASE s = t
    BY <1>8, <2>1 DEF AbortRun, ResetBegin, KeepsPlan
  <2>2. CASE s # t
    BY <1>8, <2>2 DEF AbortRun, ResetBegin, KeepsPlan
  <2> QED
    BY <2>1, <2>2
<1>9. ASSUME ResetDone \/ ResetFailed
      PROVE  rounds'[t].plan = None \/ KeepsPlan(t)
  BY <1>9 DEF ResetDone, ResetFailed, NewRound, KeepsPlan
<1>10. ASSUME NEW r \in Run, FinishRun(r) PROVE KeepsPlan(t)
  BY <1>10 DEF FinishRun, Finishes, OwnsRun, KeepsPlan
<1> QED
  BY <1>2, <1>3, <1>4, <1>5, <1>6, <1>7, <1>8, <1>9, <1>10, QuietSteps
     DEF Starts

(* What a start binds its run to.                                          *)
LEMMA StartsPlan ==
    ASSUME TypeOK, NEW s \in Session, NEW r \in Run, Starts(s, r)
    PROVE  /\ \A q \in Run \ {r} : runs'[q] = runs[q]
           /\ plans' = plans
           /\ rounds'[s].phase = "RUNNING"
           /\ runs'[r].plan # None =>
                 /\ runs'[r].plan \in Plan
                 /\ runs'[r].plan = rounds[s].plan
                 /\ rounds[s].phase = "REVIEW"
                 /\ plans[runs'[r].plan].session = s
<1>1. runs \in [Run -> RunState]
  BY DEF TypeOK
<1>2. plans' = plans /\ rounds'[s].phase = "RUNNING"
  BY StartsTest
<1>3. \A q \in Run \ {r} : runs'[q] = runs[q]
  BY <1>1, StartWrites
<1>4. CASE StartGame(s, r)
  BY <1>1, <1>2, <1>3, <1>4 DEF StartGame, NewRun
<1>5. CASE StartRunCommit(s, r)
  <2>1. runs'[r].plan = starting[s].plan
    BY <1>1, <1>5 DEF StartRunCommit, NewRun
  <2>2. starting[s].plan \in Plan \cup {None}
    BY DEF TypeOK
  <2>3. /\ starting[s].plan = rounds[s].plan /\ rounds[s].phase = "REVIEW"
        /\ plans[starting[s].plan].session = s
    BY <1>5 DEF StartRunCommit, CanStartRun, InReview, Grantable
  <2> QED
    BY <1>2, <1>3, <2>1, <2>2, <2>3
<1> QED
  BY <1>4, <1>5 DEF Starts

LEMMA PlanInvStep == TypeOK /\ PlanInv /\ [Next]_vars => PlanInv'
<1> SUFFICES ASSUME TypeOK, PlanInv, [Next]_vars PROVE PlanInv'
  OBVIOUS
<1>1. /\ \A r \in Run : runs[r].plan \in Plan \cup {None}
      /\ \A s \in Session : rounds[s].plan \in Plan \cup {None}
  BY DEF TypeOK, RunState, RoundState
<1>2. ASSUME NEW s \in Session, NEW r \in Run, Starts(s, r) PROVE PlanInv'
  <2> DEFINE p == runs'[r].plan
  <2>1. ASSUME p # None
        PROVE  /\ p \in Plan /\ p = rounds[s].plan
               /\ plans[p].session = s
               /\ \A q \in Run : runs[q].plan # p
    BY <1>2, <2>1, StartsPlan DEF PlanInv, ReviewIsFresh
  <2>2. /\ plans' = plans /\ rounds'[s].phase = "RUNNING"
        /\ \A q \in Run \ {r} : runs'[q].plan = runs[q].plan
    BY <1>2, StartsPlan
  <2> HIDE DEF p
  <2>3. RunPlanIssued'
    <3> SUFFICES ASSUME NEW q \in Run, runs'[q].plan # None
                 PROVE  plans'[runs'[q].plan].session # None
      BY DEF RunPlanIssued
    <3> QED
      BY <2>1, <2>2, NoneAssumption DEF p, PlanInv, RunPlanIssued
  <2>4. RunOfPlanAlone'
    <3> SUFFICES ASSUME NEW q \in Run, NEW w \in Run, runs'[q].plan # None,
                        runs'[q].plan = runs'[w].plan
                 PROVE  q = w
      BY DEF RunOfPlanAlone
    <3>1. CASE q = r /\ w # r
      BY <2>1, <2>2, <3>1 DEF p
    <3>2. CASE q # r /\ w = r
      BY <2>1, <2>2, <3>2 DEF p
    <3>3. CASE q # r /\ w # r
      BY <2>2, <3>3 DEF PlanInv, RunOfPlanAlone
    <3> QED
      BY <3>1, <3>2, <3>3
  <2>5. \A t \in Session : rounds'[t].plan = None \/ KeepsPlan(t)
    <3>1. ASSUME NEW t \in Session, NEW q \in Plan, InterpretPlan(t, q)
          PROVE  FALSE
      <4>1. intent[t].pc = "thinking" /\ intent'[t].pc = "idle"
        BY <3>1 DEF InterpretPlan, TypeOK
      <4> QED
        BY <1>2, <4>1, StartsTest
    <3> QED
      BY <3>1, PlanStep
  <2>6. PlanIsOwn'
    BY <2>2, <2>5 DEF PlanInv, PlanIsOwn, KeepsPlan
  <2>7. ReviewIsFresh'
    <3> SUFFICES ASSUME NEW t \in Session, rounds'[t].phase = "REVIEW",
                        rounds'[t].plan # None, NEW q \in Run
                 PROVE  runs'[q].plan # rounds'[t].plan
      BY DEF ReviewIsFresh
    <3>1. t # s /\ KeepsPlan(t)
      BY <2>2, <2>5
    <3>2. runs[q].plan # rounds[t].plan
      BY <3>1 DEF KeepsPlan, PlanInv, ReviewIsFresh
    <3>3. plans[rounds[t].plan].session = t
      BY <3>1 DEF KeepsPlan, PlanInv, PlanIsOwn
    <3> QED
      BY <2>1, <2>2, <3>1, <3>2, <3>3 DEF p, KeepsPlan
  <2> QED
    BY <2>3, <2>4, <2>6, <2>7 DEF PlanInv
<1>3. CASE \A s \in Session, r \in Run : ~Starts(s, r)
  <2>1. \A r \in Run : runs'[r].plan = runs[r].plan
    BY <1>3, RunKept DEF SameRun
  <2>2. RunPlanIssued'
    <3> SUFFICES ASSUME NEW r \in Run, runs'[r].plan # None
                 PROVE  plans'[runs'[r].plan].session # None
      BY DEF RunPlanIssued
    <3> QED
      BY <1>1, <2>1, PlansKept DEF PlanInv, RunPlanIssued
  <2>3. RunOfPlanAlone'
    BY <2>1 DEF PlanInv, RunOfPlanAlone
  <2>4. ASSUME NEW t \in Session, rounds'[t].plan # None
        PROVE  /\ plans'[rounds'[t].plan].session = t
               /\ rounds'[t].phase = "REVIEW" =>
                    \A r \in Run : runs[r].plan # rounds'[t].plan
    <3>1. CASE KeepsPlan(t)
      <4>1. plans[rounds[t].plan].session = t /\ rounds[t].plan \in Plan
        BY <1>1, <2>4, <3>1 DEF KeepsPlan, PlanInv, PlanIsOwn
      <4>2. plans'[rounds[t].plan].session = t
        BY <4>1, NoneAssumption, PlansKept
      <4> QED
        BY <2>4, <3>1, <4>2 DEF KeepsPlan, PlanInv, ReviewIsFresh
    <3>2. ASSUME NEW q \in Plan, InterpretPlan(t, q), rounds'[t].plan = q
          PROVE  /\ plans'[rounds'[t].plan].session = t
                 /\ \A r \in Run : runs[r].plan # rounds'[t].plan
      <4>1. plans[q].session = None /\ plans'[q].session = t
        BY <3>2 DEF InterpretPlan, TypeOK
      <4> QED
        BY <3>2, <4>1, NoneAssumption DEF PlanInv, RunPlanIssued
    <3> QED
      BY <2>4, <3>1, <3>2, PlanStep
  <2>5. PlanIsOwn' /\ ReviewIsFresh'
    BY <2>1, <2>4 DEF PlanIsOwn, ReviewIsFresh
  <2> QED
    BY <2>2, <2>3, <2>5 DEF PlanInv
<1> QED
  BY <1>2, <1>3

(* However often a plan is approved and sent, one run at most carries it   *)
(* out, and another session's start never does (start_run(), service.py).  *)
THEOREM PlansRunOnce == Spec => []PlanRunsOnce
<1>1. Init => PlanInv
  BY DEF Init, PlanInv, RunPlanIssued, PlanIsOwn, ReviewIsFresh,
     RunOfPlanAlone, NoRound, NewRound, UnusedRun
<1>2. TypeOK /\ PlanInv /\ [Next]_vars => PlanInv'
  BY PlanInvStep
<1>3. PlanInv => PlanRunsOnce
  BY DEF PlanInv, RunOfPlanAlone, PlanRunsOnce, Started
<1> QED
  BY <1>1, <1>2, <1>3, TypeCorrect, PTL DEF Spec

-----------------------------------------------------------------------------
(* The owner of the lock.  A client that neither pauses nor sends an       *)
(* intent and a start at once takes no phase away from its own run.        *)
OneRequest == \A s \in Session : starting[s] # NoStart => intent[s].pc = "idle"
ThinksAtRest == \A s \in Session : intent[s].pc # "idle" => ~IsRunning(s)

LockTaken == runLock => AnyRunning

OwnerInv ==
    LockInv /\ ResetQuiet /\ LockTaken /\ OneRequest /\ ThinksAtRest

LEMMA RequestWriters ==
    ASSUME [Next]_vars
    PROVE  \/ UNCHANGED <<intent, starting>>
           \/ \E s \in Session : \/ InterpretBegin(s) \/ InterpretMark(s)
                                 \/ InterpretNoPlan(s)
                                 \/ \E p \in Plan : InterpretPlan(s, p)
                                                    \/ StartRunRead(s, p)
                                 \/ \E r \in Run : StartRunCommit(s, r)
                                 \/ StartRunRefused(s)
<1> USE DEF vars, svcVars, intentVars, runVars, ctlVars, simVars
<1>1. CASE UserNext
  BY <1>1 DEF UserNext, CreateSession, ReserveKioskExit, SpawnRound, Approve,
              StartGame, PauseKill, ResetBegin
<1>2. CASE ThreadNext
  BY <1>2 DEF ThreadNext, ExecCheck, ExecLaunch, ExecRecheck, ExecCollect,
              FinishRun, AbortRun, ResetKill, ResetRestart, ResetDone,
              ResetFailed, ResetRaised, ThreadTo
<1>3. CASE WorldNext
  BY <1>3 DEF WorldNext, KioskHoldExpires, StandReady, StandLost, RunnerArms,
              RunnerExits
<1>4. CASE UNCHANGED vars
  BY <1>4
<1> QED
  BY <1>1, <1>2, <1>3, <1>4 DEF Next

LEMMA OneRequestStep ==
    ASSUME "overlap" \notin Env, TypeOK, OneRequest, [Next]_vars
    PROVE  OneRequest'
<1>1. /\ intent \in [Session -> [pc: {"idle", "checked", "thinking"},
                                 round: Nat]]
      /\ starting \in [Session -> [boot: Nat, plan: Plan \cup {None}]]
  BY DEF TypeOK
<1> SUFFICES ASSUME NEW t \in Session, starting'[t] # NoStart
             PROVE  intent'[t].pc = "idle"
  BY DEF OneRequest, NoStart
<1> USE <1>1 DEF OneRequest
<1>2. CASE UNCHANGED <<intent, starting>>
  BY <1>2
<1>3. ASSUME NEW s \in Session, InterpretBegin(s)
      PROVE  intent'[t].pc = "idle"
  BY <1>3 DEF InterpretBegin, runVars
<1>4. ASSUME NEW s \in Session,
             InterpretMark(s) \/ InterpretNoPlan(s)
             \/ \E p \in Plan : InterpretPlan(s, p)
      PROVE  intent'[t].pc = "idle"
  BY <1>4 DEF InterpretMark, InterpretNoPlan, InterpretPlan, runVars
<1>5. ASSUME NEW s \in Session, NEW p \in Plan, StartRunRead(s, p)
      PROVE  intent'[t].pc = "idle"
  BY <1>5 DEF StartRunRead, intentVars
<1>6. ASSUME NEW s \in Session, NEW r \in Run, StartRunCommit(s, r)
      PROVE  intent'[t].pc = "idle"
  BY <1>6 DEF StartRunCommit
<1>7. ASSUME NEW s \in Session, StartRunRefused(s)
      PROVE  intent'[t].pc = "idle"
  BY <1>7 DEF StartRunRefused, intentVars
<1> QED
  BY <1>2, <1>3, <1>4, <1>5, <1>6, <1>7, RequestWriters

LEMMA ThinksAtRestStep ==
    ASSUME "overlap" \notin Env, TypeOK, OwnerInv, [Next]_vars
    PROVE  ThinksAtRest'
<1>1. /\ intent \in [Session -> [pc: {"idle", "checked", "thinking"},
                                 round: Nat]]
      /\ rounds \in [Session -> RoundState]
  BY DEF TypeOK
<1> SUFFICES ASSUME NEW t \in Session, intent'[t].pc # "idle"
             PROVE  ~IsRunning(t)'
  BY DEF ThinksAtRest, IsRunning
<1>2. ASSUME NEW r \in Run, Starts(t, r) PROVE FALSE
  <2>1. intent[t].pc = "idle"
    BY <1>2 DEF Starts, StartGame, StartRunCommit, OwnerInv, OneRequest
  <2> QED
    BY <1>2, <2>1, StartsTest
<1>3. CASE intent[t].pc # "idle"
  BY <1>2, <1>3, RunningStep DEF OwnerInv, ThinksAtRest
<1>4. CASE intent[t].pc = "idle"
  <2>1. PICK s \in Session :
           \/ InterpretBegin(s) \/ InterpretMark(s) \/ InterpretNoPlan(s)
           \/ \E p \in Plan : InterpretPlan(s, p)
    BY <1>4, RequestWriters
       DEF StartRunRead, StartRunCommit, StartRunRefused, intentVars
  <2>2. InterpretBegin(s)
    BY <1>1, <1>4, <2>1 DEF InterpretMark, InterpretNoPlan, InterpretPlan
  <2>3. ~runLock
    BY <2>2 DEF InterpretBegin, MayInterpret
  <2>4. ~IsRunning(t)
    BY <2>3 DEF OwnerInv, LockInv, SingleRun, AnyRunning
  <2> QED
    BY <1>2, <2>4, RunningStep
<1> QED
  BY <1>3, <1>4

LEMMA LockWriters ==
    ASSUME TypeOK, [Next]_vars, runLock'
    PROVE  runLock \/ \E s \in Session, r \in Run : Starts(s, r)
<1>1. ASSUME NEW s \in Session,
             \/ CreateSession(s) \/ SpawnRound(s) \/ InterpretMark(s)
             \/ InterpretNoPlan(s) \/ \E p \in Plan : InterpretPlan(s, p)
      PROVE  runLock
  BY <1>1 DEF CreateSession, SpawnRound, InterpretMark, InterpretNoPlan,
              InterpretPlan
<1>2. ASSUME NEW s \in Session, AbortRun(s) \/ ResetBegin(s) PROVE FALSE
  BY <1>2 DEF AbortRun, ResetBegin
<1>3. ASSUME ResetDone \/ ResetFailed PROVE runLock
  BY <1>3 DEF ResetDone, ResetFailed
<1>4. ASSUME NEW r \in Run, FinishRun(r) PROVE runLock
  BY <1>4 DEF FinishRun
<1> QED
  BY <1>1, <1>2, <1>3, <1>4, QuietSteps DEF Starts

(* A running session stops running by its own end or its own reset.        *)
LEMMA RunningLost ==
    ASSUME TypeOK, OwnerInv, [Next]_vars, NEW t \in Session,
           IsRunning(t), ~IsRunning(t)'
    PROVE  ResetBegin(t) \/ \E r \in Run : Ends(t, r)
<1>1. rounds \in [Session -> RoundState]
  BY DEF TypeOK
<1>2. reset.pc = "idle"
  BY DEF OwnerInv, ResetQuiet, AnyRunning
<1>3. \A s \in Session : ~AbortRun(s)
  BY DEF OwnerInv, LockInv, AbortRun
<1>4. ~ResetDone /\ ~ResetFailed
  BY <1>2 DEF ResetDone, ResetFailed
<1> USE <1>1 DEF IsRunning, RoundState
<1>5. ASSUME NEW s \in Session, CreateSession(s) \/ SpawnRound(s)
      PROVE  FALSE
  BY <1>5 DEF CreateSession, SpawnRound, Exists
<1>6. ASSUME NEW s \in Session,
             InterpretMark(s) \/ InterpretNoPlan(s)
             \/ \E p \in Plan : InterpretPlan(s, p)
      PROVE  FALSE
  <2>1. s # t
    BY <1>6 DEF InterpretMark, InterpretNoPlan, InterpretPlan, OwnerInv,
                ThinksAtRest
  <2> QED
    BY <1>6, <2>1 DEF InterpretMark, InterpretNoPlan, InterpretPlan
<1>7. ASSUME NEW s \in Session, NEW r \in Run, Starts(s, r) PROVE FALSE
  BY <1>7 DEF Starts, StartGame, StartRunCommit
<1>8. ASSUME NEW s \in Session, ResetBegin(s), s # t PROVE FALSE
  BY <1>8 DEF ResetBegin
<1>9. ASSUME NEW r \in Run, FinishRun(r)
      PROVE  \E q \in Run : Ends(t, q)
  <2>1. OwnsRun(r) /\ runs[r].session = t
    BY <1>9 DEF FinishRun, Finishes, OwnsRun
  <2>2. rounds' = [rounds EXCEPT ![t] = [rounds[t] EXCEPT !.phase = "RESULT",
                                                          !.result = r]]
    BY <1>9, <2>1 DEF FinishRun, Finishes
  <2> QED
    BY <1>9, <2>1, <2>2 DEF Ends
<1> QED
  BY <1>3, <1>4, <1>5, <1>6, <1>7, <1>8, <1>9, QuietSteps DEF Starts

LEMMA OwnerStep ==
    ASSUME "pause" \notin Env, "overlap" \notin Env,
           TypeOK, OwnerInv, [Next]_vars
    PROVE  OwnerInv'
<1>1. LockInv' /\ ResetQuiet' /\ OneRequest' /\ ThinksAtRest'
  BY LockStep, ResetQuietStep, OneRequestStep, ThinksAtRestStep DEF OwnerInv
<1>2. ASSUME runLock' PROVE AnyRunning'
  <2>1. ASSUME NEW s \in Session, NEW r \in Run, Starts(s, r)
        PROVE  AnyRunning'
    BY <2>1, StartsTest DEF AnyRunning, IsRunning
  <2>2. CASE runLock
    <3>1. PICK t \in Session : IsRunning(t)
      BY <2>2 DEF OwnerInv, LockTaken, AnyRunning
    <3>2. ~ResetBegin(t)
      BY <1>2 DEF ResetBegin
    <3>3. ASSUME NEW r \in Run, Ends(t, r) PROVE FALSE
      BY <1>2, <3>3 DEF Ends, FinishRun, Finishes
    <3>4. IsRunning(t)'
      BY <3>1, <3>2, <3>3, RunningLost
    <3> QED
      BY <3>4 DEF AnyRunning, IsRunning
  <2> QED
    BY <1>2, <2>1, <2>2, LockWriters
<1> QED
  BY <1>1, <1>2 DEF OwnerInv, LockTaken

LEMMA OwnerInit == Init => OwnerInv
<1> SUFFICES ASSUME Init PROVE OwnerInv
  OBVIOUS
<1>1. \A s \in Session : ~IsRunning(s)
  BY DEF Init, IsRunning, NoRound, NewRound
<1>2. LockInv /\ LockTaken
  BY <1>1 DEF Init, LockInv, SingleRun, ClosedIsQuiet, AnyRunning,
              LockTaken
<1>3. OneRequest /\ ThinksAtRest
  BY DEF Init, OneRequest, ThinksAtRest
<1> QED
  BY <1>2, <1>3, ResetQuietInit DEF OwnerInv

(* Without pauses nobody runs while the admission is closed: neither a     *)
(* start before a reset nor one during it survives (reset(), service.py).  *)
THEOREM ClosedMeansQuiet ==
    ASSUME "pause" \notin Env
    PROVE  Spec => []ClosedIsQuiet
BY OneRunAtATime, PTL

(* The lock alone needs less: whoever revokes a run - its end, a pause of   *)
(* anybody, a reset - frees the lock, and only an intent sent beside the    *)
(* start could take the phase of the run and leave the lock.                *)
Works(r) == runs[r].thread \notin {"none", "done"}

KeepsLock(s, r) ==
    /\ IsRunning(s) /\ intent[s].pc = "idle"
    /\ rounds[s].run = r /\ runs[r].session = s /\ Works(r)

RunnerKeepsLock == runLock => \E s \in Session, r \in Run : KeepsLock(s, r)

RestsInv == ResetQuiet /\ OneRequest /\ RunnerKeepsLock

LEMMA IntentStarts ==
    ASSUME TypeOK, [Next]_vars, runLock, NEW t \in Session,
           intent[t].pc = "idle"
    PROVE  intent'[t].pc = "idle"
<1>1. intent \in [Session -> [pc: {"idle", "checked", "thinking"}, round: Nat]]
  BY DEF TypeOK
<1>2. CASE intent' = intent
  BY <1>2
<1>3. ASSUME NEW s \in Session,
             \/ InterpretMark(s) \/ InterpretNoPlan(s)
             \/ \E p \in Plan : InterpretPlan(s, p)
      PROVE  intent'[t].pc = "idle"
  BY <1>1, <1>3 DEF InterpretMark, InterpretNoPlan, InterpretPlan
<1>4. ASSUME NEW s \in Session, InterpretBegin(s) PROVE FALSE
  BY <1>4 DEF InterpretBegin, MayInterpret
<1> QED
  BY <1>2, <1>3, <1>4, RequestWriters
     DEF StartRunRead, StartRunCommit, StartRunRefused, intentVars

(* While the lock stays taken, a run whose session sends no intent goes on. *)
LEMMA RunGoesOn ==
    ASSUME TypeOK, ResetQuiet, [Next]_vars, runLock, runLock',
           NEW t \in Session, IsRunning(t), intent[t].pc = "idle"
    PROVE  IsRunning(t)'
<1>1. rounds \in [Session -> RoundState]
  BY DEF TypeOK
<1>2. ~ResetDone /\ ~ResetFailed
  BY DEF ResetQuiet, AnyRunning, ResetDone, ResetFailed
<1> USE <1>1 DEF IsRunning, RoundState
<1>3. ASSUME NEW s \in Session, CreateSession(s) \/ SpawnRound(s)
      PROVE  IsRunning(t)'
  BY <1>3 DEF CreateSession, SpawnRound, Exists
<1>4. ASSUME NEW s \in Session,
             \/ InterpretMark(s) \/ InterpretNoPlan(s)
             \/ \E p \in Plan : InterpretPlan(s, p)
      PROVE  IsRunning(t)'
  <2>1. s # t
    BY <1>4 DEF InterpretMark, InterpretNoPlan, InterpretPlan
  <2> QED
    BY <1>4, <2>1 DEF InterpretMark, InterpretNoPlan, InterpretPlan
<1>5. ASSUME NEW s \in Session, NEW r \in Run, Starts(s, r) PROVE FALSE
  BY <1>5, StartsTest
<1>6. ASSUME NEW s \in Session, AbortRun(s) \/ ResetBegin(s) PROVE FALSE
  BY <1>6 DEF AbortRun, ResetBegin
<1>7. ASSUME NEW r \in Run, FinishRun(r) PROVE rounds' = rounds
  BY <1>7 DEF FinishRun
<1> QED
  BY <1>2, <1>3, <1>4, <1>5, <1>6, <1>7, QuietSteps DEF Starts

(* A thread that ends gave the lock back, or its run was not its own.      *)
LEMMA ThreadEnds ==
    ASSUME TypeOK, [Next]_vars, NEW r \in Run,
           runs[r].thread # "done", runs'[r].thread = "done"
    PROVE  FinishRun(r) \/ ~OwnsRun(r)
<1>1. runs \in [Run -> RunState] /\ runs[r] \in RunState
  BY DEF TypeOK
<1> USE <1>1 DEF RunState
<1>2. ASSUME NEW s \in Session, NEW q \in Run, Starts(s, q) PROVE FALSE
  BY <1>2, StartWrites
<1>3. ASSUME runs' = KilledRuns PROVE FALSE
  <2>1. runs'[r] = [runs[r] EXCEPT !.container = Removed(@)]
    BY <1>3 DEF KilledRuns
  <2> QED
    BY <2>1
<1>4. ASSUME NEW q \in Run, RunStep(q), q # r PROVE FALSE
  <2>1. PICK th \in Thread, c \in Container : Writes(q, th, c)
    BY <1>4, RunStepWrites
  <2> QED
    BY <1>4, <2>1 DEF Writes
<1>5. ASSUME RunStep(r) PROVE FinishRun(r) \/ ~OwnsRun(r)
  <2>1. CASE ExecCheck(r)
    BY <2>1 DEF ExecCheck, ThreadTo
  <2>2. CASE ExecLaunch(r) \/ ExecRecheck(r)
    BY <2>2 DEF ExecLaunch, ExecRecheck
  <2>3. CASE ExecCollect(r)
    BY <2>3 DEF ExecCollect
  <2>4. CASE RunnerArms(r) \/ RunnerExits(r)
    BY <2>4 DEF RunnerArms, RunnerExits
  <2> QED
    BY <1>5, <2>1, <2>2, <2>3, <2>4 DEF RunStep
<1> QED
  BY <1>2, <1>3, <1>4, <1>5, RunsWriters DEF PauseKill, ResetKill

LEMMA StartKeepsLock ==
    ASSUME "overlap" \notin Env, TypeOK, OneRequest,
           NEW s \in Session, NEW r \in Run, Starts(s, r)
    PROVE  KeepsLock(s, r)'
<1>1. intent[s].pc = "idle"
  BY DEF Starts, StartGame, StartRunCommit, OneRequest
<1>2. runs'[r].session = s /\ runs'[r].thread = "check"
  BY DEF Starts, StartGame, StartRunCommit, NewRun, TypeOK
<1> QED
  BY <1>1, <1>2, StartsTest DEF KeepsLock, IsRunning, Works

LEMMA RestsStep ==
    ASSUME "overlap" \notin Env, TypeOK, RestsInv, [Next]_vars
    PROVE  RestsInv'
<1> USE DEF RestsInv
<1>1. ASSUME runLock', runLock
      PROVE  \E s \in Session, r \in Run : KeepsLock(s, r)'
  <2>1. PICK s \in Session, r \in Run : KeepsLock(s, r)
    BY <1>1 DEF RunnerKeepsLock
  <2>2. IsRunning(s)' /\ intent'[s].pc = "idle"
    BY <1>1, <2>1, IntentStarts, RunGoesOn DEF KeepsLock
  <2>3. \A q \in Run : ~Starts(s, q)
    BY <1>1, StartsTest
  <2>4. rounds'[s].run = r
    BY <2>1, <2>2, <2>3, RunningStep DEF KeepsLock
  <2>5. OwnsRun(r)
    BY <2>1 DEF KeepsLock, OwnsRun
  <2>6. ~FinishRun(r)
    BY <1>1, <2>5 DEF FinishRun, Finishes
  <2>7. SameRun(r)
    BY <1>1, StartsTest, RunKept
  <2>8. runs'[r].session = s /\ Works(r)'
    BY <2>1, <2>5, <2>6, <2>7, ThreadEnds DEF KeepsLock, SameRun, Works
  <2> QED
    BY <2>2, <2>4, <2>8 DEF KeepsLock, IsRunning, Works
<1>2. RunnerKeepsLock'
  BY <1>1, LockWriters, StartKeepsLock
     DEF RunnerKeepsLock, KeepsLock, IsRunning, Works
<1> QED
  BY <1>2, ResetQuietStep, OneRequestStep

(* Without overlapping requests the lock is held for a run whose thread is *)
(* still on its way to finish_run(), so it is released again (interpret,   *)
(* start_run, start_game, finish_run, abort_run and reset, service.py).    *)
THEOREM LockIsOwned ==
    ASSUME "overlap" \notin Env
    PROVE  Spec => []LockHasOwner
<1>1. Init => RestsInv
  BY ResetQuietInit DEF Init, RestsInv, OneRequest, RunnerKeepsLock
<1>2. TypeOK /\ RestsInv /\ [Next]_vars => RestsInv'
  BY RestsStep
<1>3. RestsInv => LockHasOwner
  BY DEF RestsInv, RunnerKeepsLock, KeepsLock, LockHasOwner, Started, OwnsRun,
         Works
<1> QED
  BY <1>1, <1>2, <1>3, TypeCorrect, PTL DEF Spec

-----------------------------------------------------------------------------
(* The actuator: a container that is up, or about to be, works for the     *)
(* owner of a round, or a reset is stopping it, or its boot is over.       *)
Live(r) == runs[r].container \in {"up", "armed"} \/ runs[r].thread = "launch"

ThreadFits ==
    \A r \in Run :
        /\ runs[r].thread \in {"none", "check", "launch"} =>
              runs[r].container = "none"
        /\ runs[r].thread \in {"finish", "finishTold", "done"} =>
              runs[r].container \in {"none", "exited"}

BootsKnown ==
    /\ \A r \in Run : runs[r].boot <= nonce
    /\ \A s \in Session : starting[s].boot <= nonce

LiveOwned ==
    \A r \in Run : Live(r) => \/ OwnsRun(r) \/ runs[r].boot < nonce
                              \/ reset.pc \in {"closed", "killed"}

LiveAlone ==
    \A r, q \in Run :
        Live(r) /\ Live(q) /\ runs[r].boot = nonce /\ runs[q].boot = nonce
            => r = q

(* A live run of the present boot keeps the lock taken, even when an intent *)
(* took its phase, and nobody but its own session runs beside it.          *)
Holds(r) ==
    /\ runLock
    /\ \A s \in Session :
          IsRunning(s) => rounds[s].run = r /\ runs[r].session = s

LiveHolds ==
    \A r \in Run :
        Live(r) /\ runs[r].boot = nonce /\ reset.pc \notin {"closed", "killed"}
            => Holds(r)

ThreadInv == ThreadFits /\ BootsKnown
AloneInv == LockInv /\ ResetQuiet /\ LiveHolds /\ LiveAlone

LEMMA ThreadFitsStep ==
    ASSUME "docker_timeout" \notin Env, TypeOK, ThreadFits, [Next]_vars
    PROVE  ThreadFits'
<1>1. runs \in [Run -> RunState]
  BY DEF TypeOK
<1> SUFFICES ASSUME NEW t \in Run
             PROVE  /\ runs'[t].thread \in {"none", "check", "launch"} =>
                          runs'[t].container = "none"
                    /\ runs'[t].thread \in {"finish", "finishTold", "done"} =>
                          runs'[t].container \in {"none", "exited"}
  BY DEF ThreadFits
<1>2. /\ runs[t] \in RunState
      /\ runs[t].thread \in {"none", "check", "launch"} =>
            runs[t].container = "none"
      /\ runs[t].thread \in {"finish", "finishTold", "done"} =>
            runs[t].container \in {"none", "exited"}
  BY <1>1 DEF ThreadFits
<1> USE DEF RunState
<1>3. CASE runs' = runs
  BY <1>2, <1>3
<1>4. ASSUME NEW s \in Session, NEW r \in Run, Starts(s, r)
      PROVE  \/ runs'[t] = runs[t]
             \/ runs'[t].thread = "check" /\ runs'[t].container = "none"
  BY <1>1, <1>4, StartWrites
<1>5. ASSUME runs' = KilledRuns
      PROVE  /\ runs'[t].thread = runs[t].thread
             /\ runs'[t].container \in {"none", runs[t].container}
  <2>1. runs'[t] = [runs[t] EXCEPT !.container = Removed(@)]
    BY <1>5 DEF KilledRuns
  <2> QED
    BY <1>2, <2>1 DEF Removed
<1>6. ASSUME NEW q \in Run, RunStep(q), q # t PROVE runs'[t] = runs[t]
  <2>1. PICK th \in Thread, c \in Container : Writes(q, th, c)
    BY <1>6, RunStepWrites
  <2> QED
    BY <1>1, <1>6, <2>1 DEF Writes
<1>7. CASE ExecCheck(t)
  BY <1>1, <1>2, <1>7 DEF ExecCheck, ThreadTo
<1>8. CASE ExecLaunch(t)
  BY <1>1, <1>2, <1>8 DEF ExecLaunch
<1>9. CASE ExecRecheck(t)
  BY <1>1, <1>2, <1>9 DEF ExecRecheck, RemoveTried, Removed, Container
<1>10. CASE ExecCollect(t)
  BY <1>1, <1>2, <1>10 DEF ExecCollect, RemoveTried, Removed, Container
<1>11. CASE FinishRun(t)
  BY <1>1, <1>2, <1>11 DEF FinishRun
<1>12. CASE RunnerArms(t)
  BY <1>1, <1>2, <1>12 DEF RunnerArms, Thread
<1>13. CASE RunnerExits(t)
  BY <1>1, <1>2, <1>13 DEF RunnerExits, Thread
<1>14. CASE \E s \in Session : \E r \in Run : Starts(s, r)
  BY <1>2, <1>4, <1>14
<1>15. CASE runs' = KilledRuns
  BY <1>2, <1>5, <1>15
<1>16. CASE \E q \in Run : q # t /\ RunStep(q)
  BY <1>2, <1>6, <1>16
<1>17. CASE RunStep(t)
  BY <1>7, <1>8, <1>9, <1>10, <1>11, <1>12, <1>13, <1>17 DEF RunStep
<1> QED
  BY <1>3, <1>14, <1>15, <1>16, <1>17, RunsWriters DEF PauseKill, ResetKill

LEMMA NonceGrows ==
    ASSUME TypeOK, [Next]_vars
    PROVE  /\ nonce \in Nat /\ nonce' \in Nat /\ nonce <= nonce'
           /\ nonce' # nonce => reset.pc = "killed" /\ nonce < nonce'
<1>1. nonce \in Nat
  BY DEF TypeOK
<1>2. nonce' = nonce \/ (nonce' = nonce + 1 /\ reset.pc = "killed")
  BY ServiceWriters DEF ResetRestart
<1> QED
  BY <1>1, <1>2

LEMMA BootsKnownStep ==
    ASSUME TypeOK, BootsKnown, [Next]_vars
    PROVE  BootsKnown'
<1>1. nonce \in Nat /\ nonce' \in Nat /\ nonce <= nonce'
  BY NonceGrows
<1>2. runs \in [Run -> RunState] /\ runs' \in [Run -> RunState]
  BY StepType DEF TypeOK
<1>3. /\ starting \in [Session -> [boot: Nat, plan: Plan \cup {None}]]
      /\ starting' \in [Session -> [boot: Nat, plan: Plan \cup {None}]]
  BY StepType DEF TypeOK
<1>4. BootReady <= nonce
  BY <1>1 DEF BootReady, NoBoot
<1>5. ASSUME NEW r \in Run PROVE runs'[r].boot <= nonce'
  <2>1. runs[r].boot \in Nat /\ runs'[r].boot \in Nat
    BY <1>2 DEF RunState
  <2>2. CASE SameRun(r)
    BY <1>1, <2>1, <2>2 DEF SameRun, BootsKnown
  <2>3. ASSUME NEW s \in Session, Starts(s, r)
        PROVE  runs'[r].boot <= nonce
    <3>1. runs'[r].boot \in {BootReady, starting[s].boot}
      BY <1>2, <2>3 DEF Starts, StartGame, StartRunCommit, NewRun
    <3> QED
      BY <1>4, <3>1 DEF BootsKnown
  <2> QED
    BY <1>1, <2>1, <2>2, <2>3, RunKept
<1>6. ASSUME NEW s \in Session PROVE starting'[s].boot <= nonce'
  <2>1. starting[s].boot \in Nat /\ starting'[s].boot \in Nat
    BY <1>3
  <2>2. ASSUME starting'[s].boot \in {starting[s].boot, BootReady, NoBoot}
        PROVE  starting'[s].boot <= nonce'
    BY <1>1, <1>4, <2>1, <2>2 DEF BootsKnown, NoBoot
  <2>3. CASE UNCHANGED <<intent, starting>>
    BY <2>2, <2>3
  <2>4. ASSUME NEW t \in Session, NEW p \in Plan, StartRunRead(t, p)
        PROVE  starting'[s].boot \in {starting[s].boot, BootReady, NoBoot}
    BY <1>3, <2>4 DEF StartRunRead
  <2>5. ASSUME NEW t \in Session, NEW r \in Run, StartRunCommit(t, r)
        PROVE  starting'[s].boot \in {starting[s].boot, BootReady, NoBoot}
    BY <1>3, <2>5 DEF StartRunCommit, NoStart
  <2>6. ASSUME NEW t \in Session, StartRunRefused(t)
        PROVE  starting'[s].boot \in {starting[s].boot, BootReady, NoBoot}
    BY <1>3, <2>6 DEF StartRunRefused, NoStart
  <2>7. ASSUME NEW t \in Session,
               \/ InterpretBegin(t) \/ InterpretMark(t) \/ InterpretNoPlan(t)
               \/ \E p \in Plan : InterpretPlan(t, p)
        PROVE  starting' = starting
    BY <2>7 DEF InterpretBegin, InterpretMark, InterpretNoPlan, InterpretPlan,
                runVars
  <2> QED
    BY <2>2, <2>3, <2>4, <2>5, <2>6, <2>7, RequestWriters
<1> QED
  BY <1>5, <1>6 DEF BootsKnown

(* A live run was live before, or its thread has just passed the check.    *)
LEMMA LiveStep ==
    ASSUME TypeOK, [Next]_vars, NEW r \in Run, Live(r)'
    PROVE  /\ Live(r) \/ (ExecCheck(r) /\ OwnsRun(r))
           /\ SameRun(r)
<1>1. runs \in [Run -> RunState] /\ runs[r] \in RunState
  BY DEF TypeOK
<1> USE <1>1 DEF Live, RunState
<1>2. CASE runs' = runs
  BY <1>2 DEF SameRun
<1>3. ASSUME NEW s \in Session, Starts(s, r) PROVE FALSE
  BY <1>3, StartWrites
<1>4. ASSUME NEW s \in Session, NEW q \in Run, Starts(s, q), q # r
      PROVE  Live(r)
  BY <1>4, StartWrites
<1>5. ASSUME runs' = KilledRuns PROVE Live(r)
  <2>1. runs'[r] = [runs[r] EXCEPT !.container = Removed(@)]
    BY <1>5 DEF KilledRuns
  <2> QED
    BY <2>1 DEF Removed
<1>6. ASSUME NEW q \in Run, RunStep(q), q # r PROVE Live(r)
  <2>1. PICK th \in Thread, c \in Container : Writes(q, th, c)
    BY <1>6, RunStepWrites
  <2> QED
    BY <1>6, <2>1 DEF Writes
<1>7. ASSUME RunStep(r) PROVE Live(r) \/ (ExecCheck(r) /\ OwnsRun(r))
  <2>1. CASE ExecCheck(r)
    BY <2>1 DEF ExecCheck, ThreadTo
  <2>2. CASE ExecLaunch(r)
    BY <2>2 DEF ExecLaunch
  <2>3. CASE ExecRecheck(r)
    BY <2>3 DEF ExecRecheck, RemoveTried, Removed
  <2>4. CASE ExecCollect(r)
    BY <2>4 DEF ExecCollect, RemoveTried, Removed
  <2>5. CASE FinishRun(r)
    BY <2>5 DEF FinishRun
  <2>6. CASE RunnerArms(r) \/ RunnerExits(r)
    BY <2>6 DEF RunnerArms, RunnerExits
  <2> QED
    BY <1>7, <2>1, <2>2, <2>3, <2>4, <2>5, <2>6 DEF RunStep
<1>8. SameRun(r)
  BY <1>3, RunKept
<1> QED
  BY <1>2, <1>3, <1>4, <1>5, <1>6, <1>7, <1>8, RunsWriters
     DEF PauseKill, ResetKill

LEMMA StoppingStep ==
    ASSUME "docker_timeout" \notin Env, TypeOK, [Next]_vars,
           reset.pc \in {"closed", "killed"}
    PROVE  \/ reset'.pc \in {"closed", "killed"}
           \/ nonce < nonce'
<1> USE DEF svcVars, intentVars, runVars, ctlVars, simVars
<1>1. CASE \E s \in Session : SpawnRound(s) \/ ResetBegin(s) \/ AbortRun(s)
  BY <1>1 DEF SpawnRound, ResetBegin, AbortRun
<1>2. CASE \E r \in Run : FinishRun(r)
  BY <1>2 DEF FinishRun
<1>3. CASE ReserveKioskExit \/ KioskHoldExpires
  BY <1>3 DEF ReserveKioskExit, KioskHoldExpires
<1>4. CASE ResetKill
  BY <1>4 DEF ResetKill, TypeOK
<1>5. CASE ResetRestart
  BY <1>5 DEF ResetRestart, TypeOK
<1>6. CASE ResetDone \/ ResetFailed \/ ResetRaised
  BY <1>6 DEF ResetDone, ResetFailed, ResetRaised
<1> QED
  BY <1>1, <1>2, <1>3, <1>4, <1>5, <1>6, GateWriters

(* A run whose thread goes on stays its session's own, or a reset begins.  *)
LEMMA OwnedOn ==
    ASSUME TypeOK, OwnerInv, [Next]_vars, NEW r \in Run, OwnsRun(r),
           SameRun(r), runs'[r].thread # "done"
    PROVE  OwnsRun(r)' \/ reset'.pc = "closed"
<1>1. PICK s \in Session : /\ IsRunning(s) /\ rounds[s].run = r
                           /\ runs[r].session = s /\ runs'[r].session = s
  BY DEF OwnsRun, SameRun
<1>2. runLock
  BY <1>1 DEF OwnerInv, LockInv, SingleRun, AnyRunning
<1>3. CASE IsRunning(s)'
  <2>1. rounds'[s].run = r
    BY <1>1, <1>2, <1>3, RunningStep, StartsTest
  <2> QED
    BY <1>1, <1>3, <2>1 DEF OwnsRun, IsRunning
<1>4. CASE ~IsRunning(s)'
  <2>1. ASSUME NEW q \in Run, Ends(s, q) PROVE FALSE
    <3>1. q = r /\ FinishRun(r)
      BY <1>1, <2>1 DEF Ends, OwnsRun
    <3> QED
      BY <3>1 DEF FinishRun, TypeOK, RunState
  <2>2. ResetBegin(s)
    BY <1>1, <1>4, <2>1, RunningLost
  <2> QED
    BY <2>2 DEF ResetBegin
<1> QED
  BY <1>3, <1>4

LEMMA LiveOwnedStep ==
    ASSUME "docker_timeout" \notin Env, TypeOK, OwnerInv, ThreadInv,
           LiveOwned, ThreadFits', [Next]_vars
    PROVE  LiveOwned'
<1> SUFFICES ASSUME NEW r \in Run, Live(r)'
             PROVE  \/ OwnsRun(r)' \/ runs'[r].boot < nonce'
                    \/ reset'.pc \in {"closed", "killed"}
  BY DEF LiveOwned, Live, OwnsRun, IsRunning
<1>1. SameRun(r)
  BY LiveStep
<1>2. /\ runs[r].boot \in Nat /\ nonce \in Nat /\ nonce' \in Nat
      /\ nonce <= nonce' /\ runs[r].boot <= nonce
      /\ runs'[r].boot = runs[r].boot
  BY <1>1, NonceGrows DEF SameRun, TypeOK, RunState, ThreadInv, BootsKnown
<1>3. CASE OwnsRun(r)
  <2>1. runs'[r].thread # "done"
    BY DEF Live, ThreadFits
  <2> QED
    BY <1>1, <1>3, <2>1, OwnedOn
<1>4. CASE Live(r) /\ ~OwnsRun(r)
  <2>1. CASE runs[r].boot < nonce
    BY <1>2, <2>1
  <2>2. CASE reset.pc \in {"closed", "killed"}
    BY <1>2, <2>2, StoppingStep
  <2> QED
    BY <1>4, <2>1, <2>2 DEF LiveOwned
<1> QED
  BY <1>3, <1>4, LiveStep

LEMMA BootsStay ==
    ASSUME TypeOK, ThreadInv, [Next]_vars, NEW r \in Run, SameRun(r),
           runs'[r].boot = nonce'
    PROVE  nonce' = nonce /\ runs[r].boot = nonce
<1>1. runs[r].boot \in Nat /\ nonce \in Nat /\ nonce' \in Nat /\ nonce <= nonce'
  BY NonceGrows DEF TypeOK, RunState
<1>2. runs[r].boot <= nonce /\ runs[r].boot = nonce'
  BY DEF SameRun, ThreadInv, BootsKnown
<1> QED
  BY <1>1, <1>2

(* While a live run holds the lock, only its own end and a reset free it,  *)
(* and it cannot end before its container is gone.                         *)
LEMMA HoldsOn ==
    ASSUME "docker_timeout" \notin Env, TypeOK, AloneInv, ThreadFits',
           [Next]_vars, NEW r \in Run, Holds(r), Live(r)', SameRun(r)
    PROVE  Holds(r)' \/ reset'.pc = "closed"
<1>1. ASSUME NEW q \in Run, NEW s \in Session, Starts(s, q) PROVE FALSE
  BY <1>1, StartsTest DEF Holds
<1>2. \A s \in Session : IsRunning(s)' => /\ rounds'[s].run = r
                                          /\ runs'[r].session = s
  BY <1>1, RunningStep DEF Holds, SameRun
<1>3. CASE ~runLock'
  <2>1. ASSUME NEW q \in Run, FinishRun(q), Finishes(q) PROVE FALSE
    <3>1. q = r
      BY <2>1 DEF Finishes, OwnsRun, Holds
    <3>2. runs'[r].thread = "done"
      BY <2>1, <3>1 DEF FinishRun, TypeOK, RunState
    <3> QED
      BY <3>2 DEF Live, ThreadFits
  <2>2. ASSUME NEW q \in Run, FinishRun(q), ~Finishes(q) PROVE runLock' = runLock
    BY <2>2 DEF FinishRun
  <2>3. ASSUME NEW s \in Session, AbortRun(s) PROVE FALSE
    BY <2>3 DEF AbortRun, AloneInv, LockInv
  <2>4. ASSUME NEW s \in Session, ResetBegin(s) PROVE reset'.pc = "closed"
    BY <2>4 DEF ResetBegin
  <2>5. ASSUME NEW s \in Session,
               \/ CreateSession(s) \/ SpawnRound(s) \/ InterpretMark(s)
               \/ InterpretNoPlan(s) \/ \E p \in Plan : InterpretPlan(s, p)
        PROVE  runLock' = runLock
    BY <2>5 DEF CreateSession, SpawnRound, InterpretMark, InterpretNoPlan,
                InterpretPlan
  <2>6. ASSUME ResetDone \/ ResetFailed PROVE runLock' = runLock
    BY <2>6 DEF ResetDone, ResetFailed
  <2>7. runLock
    BY DEF Holds
  <2> QED
    BY <1>1, <1>3, <2>1, <2>2, <2>3, <2>4, <2>5, <2>6, <2>7, QuietSteps
       DEF Starts
<1> QED
  BY <1>2, <1>3 DEF Holds, IsRunning

LEMMA LiveHoldsStep ==
    ASSUME "docker_timeout" \notin Env, TypeOK, AloneInv, ThreadInv,
           ThreadFits', [Next]_vars
    PROVE  LiveHolds'
<1> SUFFICES ASSUME NEW r \in Run, Live(r)', runs'[r].boot = nonce',
                    reset'.pc \notin {"closed", "killed"}
             PROVE  Holds(r)'
  BY DEF LiveHolds, Live, Holds, IsRunning
<1>1. SameRun(r)
  BY LiveStep
<1>2. nonce' = nonce /\ runs[r].boot = nonce
  BY <1>1, BootsStay
<1>3. CASE Live(r)
  <2>1. reset.pc \notin {"closed", "killed"}
    BY <1>2, StoppingStep, NonceGrows
  <2>2. Holds(r)
    BY <1>2, <1>3, <2>1 DEF AloneInv, LiveHolds
  <2> QED
    BY <1>1, <2>2, HoldsOn
<1>4. CASE OwnsRun(r)
  <2>1. Holds(r)
    BY <1>4 DEF OwnsRun, Holds, AloneInv, LockInv, SingleRun, AnyRunning
  <2> QED
    BY <1>1, <2>1, HoldsOn
<1> QED
  BY <1>3, <1>4, LiveStep

LEMMA LiveAloneStep ==
    ASSUME TypeOK, AloneInv, ThreadInv, [Next]_vars
    PROVE  LiveAlone'
<1> SUFFICES ASSUME NEW r \in Run, NEW q \in Run, Live(r)', Live(q)',
                    runs'[r].boot = nonce', runs'[q].boot = nonce', r # q
             PROVE  FALSE
  BY DEF LiveAlone, Live
<1>1. runs[r].boot = nonce /\ runs[q].boot = nonce
  BY LiveStep, BootsStay
<1>2. ~(Live(r) /\ Live(q))
  BY <1>1 DEF AloneInv, LiveAlone
<1>3. ~(ExecCheck(r) /\ ExecCheck(q))
  BY DEF ExecCheck, ThreadTo, Live, TypeOK, RunState
<1>4. ASSUME NEW a \in Run, NEW b \in Run, a # b, OwnsRun(a), Live(b),
             runs[b].boot = nonce
      PROVE  FALSE
  <2>1. reset.pc = "idle"
    BY <1>4 DEF OwnsRun, AnyRunning, AloneInv, ResetQuiet
  <2>2. Holds(b)
    BY <1>4, <2>1 DEF AloneInv, LiveHolds
  <2> QED
    BY <1>4, <2>2 DEF OwnsRun, Holds
<1> QED
  BY <1>1, <1>2, <1>3, <1>4, LiveStep

LEMMA ThreadInit == Init => ThreadInv /\ \A r \in Run : ~Live(r)
<1> SUFFICES ASSUME Init PROVE ThreadInv /\ \A r \in Run : ~Live(r)
  OBVIOUS
<1>1. \A r \in Run : runs[r] = UnusedRun
  BY DEF Init
<1>2. nonce \in Nat /\ \A s \in Session : starting[s] = NoStart
  BY DEF Init, NoBoot
<1> QED
  BY <1>1, <1>2 DEF UnusedRun, NoStart, NoBoot, ThreadInv, ThreadFits,
     BootsKnown, Live

LEMMA ThreadsInductive ==
    ASSUME "docker_timeout" \notin Env
    PROVE  Spec => []ThreadInv
<1>1. TypeOK /\ ThreadInv /\ [Next]_vars => ThreadInv'
  BY ThreadFitsStep, BootsKnownStep DEF ThreadInv
<1> QED
  BY <1>1, ThreadInit, TypeCorrect, PTL DEF Spec

(* Without pauses and docker time-outs at most one container moves the     *)
(* robot of the present boot, whatever requests overlap (owns_run() around *)
(* _execute_run and _execute_game, app.py; reset(), service.py).           *)
THEOREM ActuatorAlone ==
    ASSUME "pause" \notin Env, "docker_timeout" \notin Env
    PROVE  Spec => []OneActuator
<1>1. Init => AloneInv
  BY ThreadInit, LockInit, ResetQuietInit
     DEF AloneInv, LiveHolds, LiveAlone
<1>2. TypeOK /\ ThreadInv /\ ThreadInv' /\ AloneInv /\ [Next]_vars => AloneInv'
  BY LockStep, ResetQuietStep, LiveHoldsStep, LiveAloneStep
     DEF AloneInv, ThreadInv
<1>3. AloneInv => OneActuator
  BY DEF OneActuator, Started, Actuating, AloneInv, LiveAlone, Live
<1> QED
  BY <1>1, <1>2, <1>3, ThreadsInductive, TypeCorrect, PTL DEF Spec

(* Without pauses, overlapping requests and docker time-outs it works for  *)
(* the session that runs it, but for the moments in which a reset is       *)
(* stopping it.                                                            *)
THEOREM ActuatorOwned ==
    ASSUME "pause" \notin Env, "overlap" \notin Env,
           "docker_timeout" \notin Env
    PROVE  Spec => []ActuatorIsOwned
<1>1. Init => LiveOwned
  BY ThreadInit DEF LiveOwned
<1>2. TypeOK /\ OwnerInv /\ ThreadInv /\ ThreadInv' /\ LiveOwned /\ [Next]_vars
         => OwnerInv' /\ LiveOwned'
  BY OwnerStep, LiveOwnedStep DEF ThreadInv
<1>3. TypeOK /\ ThreadInv /\ LiveOwned => ActuatorIsOwned
  BY DEF TypeOK, ActuatorIsOwned, Started, Actuating, ThreadInv, BootsKnown,
         LiveOwned, Live
<1> QED
  BY <1>1, <1>2, <1>3, OwnerInit, ThreadsInductive, TypeCorrect, PTL DEF Spec

(* A container whose thread waits for it is one its session still owns, or *)
(* the reset that revoked it has not yet killed the runners.               *)
Awaited(r) == /\ runs[r].thread = "waiting"
              /\ runs[r].container \in {"up", "armed"}

AwaitedOwned == \A r \in Run : Awaited(r) => OwnsRun(r) \/ reset.pc = "closed"

LEMMA AwaitedStep ==
    ASSUME TypeOK, [Next]_vars, NEW r \in Run, Awaited(r)'
    PROVE  /\ Awaited(r) \/ (ExecRecheck(r) /\ OwnsRun(r))
           /\ SameRun(r) /\ ~ResetKill
<1>1. runs \in [Run -> RunState] /\ runs[r] \in RunState
  BY DEF TypeOK
<1> USE <1>1 DEF Awaited, RunState
<1>2. ASSUME NEW s \in Session, NEW q \in Run, Starts(s, q)
      PROVE  q # r /\ Awaited(r)
  BY <1>2, StartWrites
<1>3. ASSUME runs' = KilledRuns PROVE FALSE
  <2>1. runs'[r] = [runs[r] EXCEPT !.container = Removed(@)]
    BY <1>3 DEF KilledRuns
  <2> QED
    BY <2>1 DEF Removed
<1>4. ASSUME NEW q \in Run, RunStep(q), q # r PROVE Awaited(r)
  <2>1. PICK th \in Thread, c \in Container : Writes(q, th, c)
    BY <1>4, RunStepWrites
  <2> QED
    BY <1>4, <2>1 DEF Writes
<1>5. ASSUME RunStep(r) PROVE Awaited(r) \/ (ExecRecheck(r) /\ OwnsRun(r))
  <2>1. CASE ExecCheck(r) \/ ExecLaunch(r)
    BY <2>1 DEF ExecCheck, ThreadTo, ExecLaunch
  <2>2. CASE ExecRecheck(r)
    BY <2>2 DEF ExecRecheck
  <2>3. CASE ExecCollect(r) \/ FinishRun(r)
    BY <2>3 DEF ExecCollect, FinishRun
  <2>4. CASE RunnerArms(r) \/ RunnerExits(r)
    BY <2>4 DEF RunnerArms, RunnerExits
  <2> QED
    BY <1>5, <2>1, <2>2, <2>3, <2>4 DEF RunStep
<1>6. SameRun(r)
  BY <1>2, RunKept
<1> QED
  BY <1>2, <1>3, <1>4, <1>5, <1>6, RunsWriters DEF PauseKill, ResetKill

LEMMA ClosedUntilKill ==
    ASSUME "docker_timeout" \notin Env, [Next]_vars, reset.pc = "closed"
    PROVE  reset'.pc = "closed" \/ ResetKill
<1>1. CASE \E s \in Session : SpawnRound(s) \/ ResetBegin(s) \/ AbortRun(s)
  BY <1>1 DEF SpawnRound, ResetBegin, AbortRun
<1>2. CASE \E r \in Run : FinishRun(r)
  BY <1>2 DEF FinishRun, ctlVars
<1>3. CASE ReserveKioskExit \/ KioskHoldExpires
  BY <1>3 DEF ReserveKioskExit, KioskHoldExpires, ctlVars
<1>4. CASE ResetRestart \/ ResetDone \/ ResetFailed \/ ResetRaised
  BY <1>4 DEF ResetRestart, ResetDone, ResetFailed, ResetRaised
<1> QED
  BY <1>1, <1>2, <1>3, <1>4, GateWriters

(* C13: without pauses, overlapping requests and docker time-outs, and     *)
(* while no reset is in progress, every container up is one whose run is   *)
(* the session's own or whose thread is about to remove it (the second     *)
(* owns_run() of _execute_run and _execute_game, app.py:639; reset()).     *)
THEOREM NobodyOrphaned ==
    ASSUME "pause" \notin Env, "overlap" \notin Env,
           "docker_timeout" \notin Env
    PROVE  Spec => []NoOrphanRunner
<1>1. Init => AwaitedOwned
  BY ThreadInit DEF AwaitedOwned, Awaited, Live
<1>2. TypeOK /\ OwnerInv /\ AwaitedOwned /\ [Next]_vars
         => OwnerInv' /\ AwaitedOwned'
  <2> SUFFICES ASSUME TypeOK, OwnerInv, AwaitedOwned, [Next]_vars
               PROVE  OwnerInv' /\ AwaitedOwned'
    OBVIOUS
  <2>1. ASSUME NEW r \in Run, Awaited(r)'
        PROVE  OwnsRun(r)' \/ reset'.pc = "closed"
    <3>1. /\ Awaited(r) \/ OwnsRun(r)
          /\ SameRun(r) /\ ~ResetKill
      BY <2>1, AwaitedStep
    <3>2. CASE OwnsRun(r)
      BY <2>1, <3>1, <3>2, OwnedOn DEF Awaited
    <3>3. CASE reset.pc = "closed"
      BY <3>1, <3>3, ClosedUntilKill
    <3> QED
      BY <3>1, <3>2, <3>3 DEF AwaitedOwned
  <2> QED
    BY <2>1, OwnerStep DEF AwaitedOwned, Awaited, OwnsRun, IsRunning
<1>3. TypeOK /\ ThreadInv /\ AwaitedOwned => NoOrphanRunner
  BY DEF TypeOK, RunState, Thread, NoOrphanRunner, Started, ThreadInv,
         ThreadFits, AwaitedOwned, Awaited
<1> QED
  BY <1>1, <1>2, <1>3, OwnerInit, ThreadsInductive, TypeCorrect, PTL DEF Spec

-----------------------------------------------------------------------------
(* The refinement of RunLease.                                             *)
Shown == {rounds[s].result : s \in Session} \ {None}

UnopenedIsEmpty ==
    \A s \in Session : rounds[s].phase = "NONE" => rounds[s].result = None

LeaseInv == OwnerInv /\ RunningHasRun /\ UnopenedIsEmpty

LEMMA UnopenedStep ==
    TypeOK /\ UnopenedIsEmpty /\ [Next]_vars => UnopenedIsEmpty'
<1> SUFFICES ASSUME TypeOK, UnopenedIsEmpty, [Next]_vars, NEW t \in Session,
                    rounds'[t].phase = "NONE"
             PROVE  rounds'[t].result = None
  BY DEF UnopenedIsEmpty
<1>1. rounds \in [Session -> RoundState]
  BY DEF TypeOK
<1> USE <1>1 DEF UnopenedIsEmpty, RoundState
<1>2. CASE rounds' = rounds
  BY <1>2
<1>3. ASSUME NEW s \in Session,
             CreateSession(s) \/ SpawnRound(s) \/ InterpretMark(s)
      PROVE  rounds'[t].result = None
  BY <1>3 DEF CreateSession, SpawnRound, InterpretMark, NewRound
<1>4. ASSUME NEW s \in Session,
             InterpretNoPlan(s) \/ \E p \in Plan : InterpretPlan(s, p)
      PROVE  rounds'[t].result = None
  BY <1>4 DEF InterpretNoPlan, InterpretPlan
<1>5. ASSUME NEW s \in Session, NEW r \in Run, Starts(s, r)
      PROVE  rounds'[t].result = None
  BY <1>5 DEF Starts, StartGame, StartRunCommit
<1>6. ASSUME NEW s \in Session, AbortRun(s) \/ ResetBegin(s)
      PROVE  rounds'[t].result = None
  BY <1>6 DEF AbortRun, ResetBegin
<1>7. ASSUME ResetDone \/ ResetFailed PROVE rounds'[t].result = None
  BY <1>7 DEF ResetDone, ResetFailed, NewRound
<1>8. ASSUME NEW r \in Run, FinishRun(r) PROVE rounds'[t].result = None
  BY <1>8 DEF FinishRun, Finishes, OwnsRun
<1> QED
  BY <1>2, <1>3, <1>4, <1>5, <1>6, <1>7, <1>8, QuietSteps DEF Starts

(* Owner, before and after a step.                                         *)
LEMMA OwnerNone == (\A s \in Session : ~IsRunning(s)) => Owner = None
BY DEF Owner, AnyRunning

LEMMA OwnerNoneAfter ==
    (\A s \in Session : ~IsRunning(s)') => Owner' = None
BY DEF Owner, AnyRunning, IsRunning

LEMMA OwnerRun ==
    ASSUME SingleRun, NEW s \in Session, IsRunning(s)
    PROVE  Owner = rounds[s].run
<1>1. (CHOOSE t \in Session : IsRunning(t)) = s
  BY DEF SingleRun
<1> QED
  BY <1>1 DEF Owner, AnyRunning

LEMMA OwnerRunAfter ==
    ASSUME SingleRun', NEW s \in Session, IsRunning(s)'
    PROVE  Owner' = rounds'[s].run
<1>1. (CHOOSE t \in Session : rounds'[t].phase = "RUNNING") = s
  BY DEF SingleRun, IsRunning
<1> QED
  BY <1>1 DEF Owner, AnyRunning, IsRunning

LEMMA OwnerKept ==
    ASSUME SingleRun, SingleRun',
           \A t \in Session : IsRunning(t)' <=> IsRunning(t),
           \A t \in Session : IsRunning(t) => rounds'[t].run = rounds[t].run
    PROVE  Owner' = Owner
<1>1. CASE \A t \in Session : ~IsRunning(t)
  BY <1>1, OwnerNone, OwnerNoneAfter
<1>2. CASE \E t \in Session : IsRunning(t)
  BY <1>2, OwnerRun, OwnerRunAfter
<1> QED
  BY <1>1, <1>2

LEMMA NoStartNoNew ==
    ASSUME TypeOK, [Next]_vars, \A s \in Session, r \in Run : ~Starts(s, r)
    PROVE  Started' = Started
<1>1. Started \subseteq Started'
  BY StartedKept
<1>2. ASSUME NEW r \in Started' PROVE r \in Started
  <2>1. r \in Run
    BY DEF Started
  <2> QED
    BY <2>1, StartedGrows
<1> QED
  BY <1>1, <1>2

(* The steps that change nothing of the lease.                             *)
LEMMA LeaseStutter ==
    ASSUME TypeOK, LeaseInv, SingleRun', [Next]_vars,
           admission' = admission,
           \A s \in Session, r \in Run : ~Starts(s, r),
           \A t \in Session : /\ IsRunning(t)' <=> IsRunning(t)
                              /\ IsRunning(t) => rounds'[t].run = rounds[t].run
                              /\ rounds'[t].result = rounds[t].result
    PROVE  UNCHANGED Lease!lease
<1>1. Owner' = Owner
  BY OwnerKept DEF LeaseInv, OwnerInv, LockInv
<1>2. Started' = Started
  BY NoStartNoNew
<1> QED
  BY <1>1, <1>2 DEF Lease!lease

(* A start grants the robot to a fresh run.                                *)
LEMMA StartGrants ==
    ASSUME TypeOK, LeaseInv, SingleRun', [Next]_vars,
           NEW s \in Session, NEW r \in Run, Starts(s, r)
    PROVE  Lease!Grant(r)
<1>1. admission /\ admission' = admission /\ ~runLock
  BY StartsTest
<1>2. Owner = None
  BY <1>1, OwnerNone DEF LeaseInv, OwnerInv, LockInv, SingleRun, AnyRunning
<1>3. Owner' = r
  BY StartsTest, OwnerRunAfter DEF IsRunning
<1>4. r \notin Started /\ r \in Started'
  <2>1. runs \in [Run -> RunState]
    BY DEF TypeOK
  <2> QED
    BY <2>1, StartWrites DEF Started
<1>5. Started' = Started \cup {r}
  <2>1. \A q \in Run \ {r} : runs'[q] = runs[q]
    BY StartsPlan
  <2> QED
    BY <1>4, <2>1 DEF Started
<1>6. \A t \in Session : rounds'[t].result = rounds[t].result
  <2>1. rounds \in [Session -> RoundState]
    BY DEF TypeOK
  <2> QED
    BY <2>1 DEF Starts, StartGame, StartRunCommit, RoundState
<1> QED
  BY <1>1, <1>2, <1>3, <1>4, <1>5, <1>6 DEF Lease!Grant

(* The finish_run() of the owner reports its result.                       *)
LEMMA EndReports ==
    ASSUME TypeOK, LeaseInv, SingleRun', [Next]_vars,
           NEW t \in Session, NEW r \in Run, Ends(t, r)
    PROVE  Lease!Report(r)
<1>1. rounds \in [Session -> RoundState]
  BY DEF TypeOK
<1>2. IsRunning(t) /\ rounds[t].run = r
  BY DEF Ends, OwnsRun
<1>3. Owner = r
  BY <1>2, OwnerRun DEF LeaseInv, OwnerInv, LockInv
<1>4. Owner' = None
  <2>1. ASSUME NEW s \in Session PROVE ~IsRunning(s)'
    <3>1. CASE s = t
      BY <1>1, <3>1 DEF Ends, IsRunning, RoundState
    <3>2. CASE s # t
      BY <1>1, <1>2, <3>2
         DEF Ends, IsRunning, LeaseInv, OwnerInv, LockInv, SingleRun
    <3> QED
      BY <3>1, <3>2
  <2> QED
    BY <2>1, OwnerNoneAfter
<1>5. Started' = Started
  <2>1. runLock
    BY <1>2 DEF LeaseInv, OwnerInv, LockInv, SingleRun, AnyRunning
  <2> QED
    BY <2>1, StartsTest, NoStartNoNew
<1>6. admission' = admission
  BY DEF Ends, FinishRun
<1>7. /\ rounds'[t].result = r
      /\ \A s \in Session \ {t} : rounds'[s].result = rounds[s].result
  BY <1>1 DEF Ends, RoundState
<1>8. r \in Shown' /\ Shown' \subseteq Shown \cup {r}
  BY <1>7, NoneAssumption DEF Shown
<1> QED
  BY <1>3, <1>4, <1>5, <1>6, <1>8 DEF Lease!Report, Shown

(* A reset closes the lease, its end opens it again.                       *)
LEMMA ResetCloses ==
    ASSUME TypeOK, LeaseInv, [Next]_vars, NEW s \in Session, ResetBegin(s)
    PROVE  Lease!Close
<1>1. rounds \in [Session -> RoundState]
  BY DEF TypeOK
<1>2. \A t \in Session : ~IsRunning(t)'
  <2>1. \A t \in Session : IsRunning(t)' => IsRunning(t)
    BY PhaseKept
  <2>2. \A t \in Session \ {s} : ~IsRunning(t)
    BY DEF ResetBegin, OtherBusy
  <2> QED
    BY <2>1, <2>2, PhaseLeft
<1>3. admission' = FALSE /\ runs' = runs
  BY DEF ResetBegin, runVars
<1>4. \A t \in Session : rounds'[t].result = rounds[t].result
  BY <1>1 DEF ResetBegin, RoundState
<1> QED
  BY <1>2, <1>3, <1>4, OwnerNoneAfter DEF Lease!Close, Started

LEMMA ResetReopens ==
    ASSUME TypeOK, LeaseInv, [Next]_vars, ResetDone
    PROVE  Lease!Reopen
<1>1. ~admission /\ \A t \in Session : ~IsRunning(t)
  BY DEF LeaseInv, OwnerInv, ResetQuiet, AnyRunning, ResetDone
<1>2. Owner = None
  BY <1>1, OwnerNone
<1>3. \A t \in Session : ~IsRunning(t)'
  BY <1>1 DEF ResetDone, IsRunning, NewRound
<1>4. admission' = TRUE /\ runs' = runs
  BY DEF ResetDone, runVars
<1>5. \A t \in Session : rounds'[t].result \in {None, rounds[t].result}
  BY DEF ResetDone, NewRound
<1>6. Shown' \subseteq Shown
  BY <1>5 DEF Shown
<1> QED
  BY <1>1, <1>2, <1>3, <1>4, <1>6, OwnerNoneAfter
     DEF Lease!Reopen, Started, Shown

(* The steps that write a round and leave its run, if it runs, alone.      *)
SameLease(t) == /\ IsRunning(t)' <=> IsRunning(t)
                /\ IsRunning(t) => rounds'[t].run = rounds[t].run
                /\ rounds'[t].result = rounds[t].result

LEMMA SameLeaseStep ==
    ASSUME TypeOK, LeaseInv, NEW t \in Session, NEW s \in Session,
           \/ CreateSession(s) \/ SpawnRound(s) \/ InterpretMark(s)
           \/ InterpretNoPlan(s) \/ \E p \in Plan : InterpretPlan(s, p)
    PROVE  SameLease(t)
<1>1. rounds \in [Session -> RoundState]
  BY DEF TypeOK
<1> USE <1>1 DEF SameLease, IsRunning, RoundState
<1>2. CASE CreateSession(s)
  BY <1>2 DEF CreateSession, Exists, NewRound, LeaseInv, UnopenedIsEmpty
<1>3. CASE SpawnRound(s)
  BY <1>3 DEF SpawnRound
<1>4. CASE InterpretMark(s)
  BY <1>4 DEF InterpretMark, LeaseInv, OwnerInv, ThinksAtRest
<1>5. CASE InterpretNoPlan(s)
  BY <1>5 DEF InterpretNoPlan, LeaseInv, OwnerInv, ThinksAtRest
<1>6. ASSUME NEW p \in Plan, InterpretPlan(s, p) PROVE SameLease(t)
  <2>1. ~IsRunning(s)
    BY <1>6 DEF InterpretPlan, LeaseInv, OwnerInv, ThinksAtRest
  <2>2. \/ rounds' = rounds
        \/ rounds' = [rounds EXCEPT ![s].phase = "REVIEW", ![s].plan = p]
    BY <1>6 DEF InterpretPlan
  <2> QED
    BY <2>1, <2>2
<1> QED
  BY <1>2, <1>3, <1>4, <1>5, <1>6

LEMMA LeaseStep ==
    ASSUME TypeOK, LeaseInv, SingleRun', [Next]_vars
    PROVE  Lease!LeaseNext \/ UNCHANGED Lease!lease
<1>1. rounds \in [Session -> RoundState]
  BY DEF TypeOK
<1>2. ASSUME runLock' = runLock
      PROVE  \A s \in Session, r \in Run : ~Starts(s, r)
  BY <1>2, StartsTest DEF Starts, StartGame, StartRunCommit
<1>3. CASE UNCHANGED <<rounds, runLock, admission>>
  <2>1. \A t \in Session : SameLease(t)
    BY <1>3 DEF SameLease, IsRunning
  <2> QED
    BY <1>2, <1>3, <2>1, LeaseStutter DEF SameLease
<1>4. ASSUME NEW s \in Session,
             \/ CreateSession(s) \/ SpawnRound(s) \/ InterpretMark(s)
             \/ InterpretNoPlan(s) \/ \E p \in Plan : InterpretPlan(s, p)
      PROVE  UNCHANGED Lease!lease
  <2>1. runLock' = runLock /\ admission' = admission
    BY <1>4 DEF CreateSession, SpawnRound, InterpretMark, InterpretNoPlan,
                InterpretPlan
  <2>2. \A t \in Session : SameLease(t)
    BY <1>4, SameLeaseStep
  <2> QED
    BY <1>2, <2>1, <2>2, LeaseStutter DEF SameLease
<1>5. ASSUME NEW s \in Session, NEW r \in Run, Starts(s, r)
      PROVE  Lease!LeaseNext
  BY <1>5, StartGrants DEF Lease!LeaseNext
<1>6. ASSUME NEW s \in Session, AbortRun(s) PROVE FALSE
  BY <1>6 DEF AbortRun, LeaseInv, OwnerInv, LockInv
<1>7. ASSUME NEW s \in Session, ResetBegin(s) PROVE Lease!LeaseNext
  BY <1>7, ResetCloses DEF Lease!LeaseNext
<1>8. CASE ResetDone
  BY <1>8, ResetReopens DEF Lease!LeaseNext
<1>9. CASE ResetFailed
  <2>1. runLock' = runLock /\ admission' = admission
    BY <1>9 DEF ResetFailed
  <2>2. \A t \in Session : ~IsRunning(t)
    BY <1>9 DEF ResetFailed, LeaseInv, OwnerInv, ResetQuiet, AnyRunning
  <2>3. \A t \in Session : SameLease(t)
    BY <1>1, <1>9, <2>2 DEF ResetFailed, SameLease, IsRunning, RoundState
  <2> QED
    BY <1>2, <2>1, <2>3, LeaseStutter DEF SameLease
<1>10. ASSUME NEW r \in Run, FinishRun(r)
       PROVE  Lease!LeaseNext \/ UNCHANGED Lease!lease
  <2>1. CASE Finishes(r)
    <3>1. PICK t \in Session : runs[r].session = t /\ OwnsRun(r)
      BY <2>1 DEF Finishes, OwnsRun
    <3>2. rounds' = [rounds EXCEPT ![t] = [rounds[t] EXCEPT !.phase = "RESULT",
                                                            !.result = r]]
      BY <1>1, <1>10, <2>1, <3>1 DEF FinishRun, RoundState
    <3>3. Ends(t, r)
      BY <1>10, <3>1, <3>2 DEF Ends
    <3> QED
      BY <3>3, EndReports DEF Lease!LeaseNext
  <2>2. CASE ~Finishes(r)
    BY <1>3, <1>10, <2>2 DEF FinishRun
  <2> QED
    BY <2>1, <2>2
<1> QED
  BY <1>3, <1>4, <1>5, <1>6, <1>7, <1>8, <1>9, <1>10, QuietSteps DEF Starts

(* Without pauses and overlapping requests the orchestrator implements     *)
(* RunLease: a run owns the robot once, alone and while runs are admitted, *)
(* and a revoked run never has its result shown (service.py, owns_run()).  *)
THEOREM LeaseRefined ==
    ASSUME "pause" \notin Env, "overlap" \notin Env
    PROVE  Spec => ImplementsLease
<1>1. Init => LeaseInv
  BY OwnerInit DEF Init, LeaseInv, RunningHasRun, UnopenedIsEmpty, IsRunning,
     NoRound, NewRound
<1>2. TypeOK /\ LeaseInv /\ [Next]_vars => LeaseInv'
  BY OwnerStep, RunningHasRunStep, UnopenedStep DEF LeaseInv
<1>3. Init => Lease!LeaseInit
  <2> SUFFICES ASSUME Init PROVE Lease!LeaseInit
    OBVIOUS
  <2>1. \A s \in Session : ~IsRunning(s) /\ rounds[s].result = None
    BY DEF Init, IsRunning, NoRound, NewRound
  <2>2. Owner = None
    BY <2>1, OwnerNone
  <2>3. Started = {}
    BY DEF Init, Started, UnusedRun
  <2>4. {rounds[s].result : s \in Session} \ {None} = {}
    BY <2>1
  <2> QED
    BY <2>2, <2>3, <2>4 DEF Init, Lease!LeaseInit
<1>4. TypeOK /\ LeaseInv /\ LeaseInv' /\ [Next]_vars
         => [Lease!LeaseNext]_Lease!lease
  BY LeaseStep DEF LeaseInv, OwnerInv, LockInv
<1> QED
  BY <1>1, <1>2, <1>3, <1>4, TypeCorrect, PTL
     DEF Spec, ImplementsLease, Lease!LeaseSpec
=============================================================================
