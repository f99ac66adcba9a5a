----------------------- MODULE ProductSession_proofs -----------------------
(***************************************************************************)
(* What ProductSession guarantees for any number of sessions, plans and    *)
(* runs and for any bounds, checked by TLAPS.                              *)
(***************************************************************************)
EXTENDS ProductSession, TLAPS

-----------------------------------------------------------------------------
(* Type correctness: a table that changes is typed first, the rest of      *)
(* TypeOK follows from what the action leaves alone.                       *)
RoundsOK == rounds \in [Session -> RoundState]
RunsOK   == runs \in [Run -> RunState]
IntentsOK == intent \in [Session -> [pc: {"idle", "checked", "thinking"},
                                     round: Nat]]
PlansOK == plans \in [Plan -> [session: Session \cup {None}, round: Nat]]
StartsOK == starting \in [Session -> [boot: Nat, plan: Plan \cup {None}]]

LEMMA BootReadyType == TypeOK => BootReady \in Nat
BY DEF TypeOK, BootReady, NoBoot

LEMMA KilledRunsType == RunsOK => KilledRuns \in [Run -> RunState]
<1> SUFFICES ASSUME RunsOK, NEW r \in Run
             PROVE  [runs[r] EXCEPT !.container = Removed(@)] \in RunState
  BY DEF KilledRuns
<1>1. runs[r] \in RunState
  BY DEF RunsOK
<1>2. Removed(runs[r].container) \in Container
  BY <1>1 DEF Removed, RunState, Container
<1> QED
  BY <1>1, <1>2 DEF RunState

LEMMA InitType == Init => TypeOK
<1> SUFFICES ASSUME Init PROVE TypeOK
  OBVIOUS
<1>1. NoRound \in RoundState
  BY DEF NoRound, NewRound, RoundState, NoBoot, Phase
<1>2. UnusedRun \in RunState
  BY DEF UnusedRun, RunState, Thread, Container, NoBoot
<1>3. NoStart \in [boot: Nat, plan: Plan \cup {None}]
  BY DEF NoStart, NoBoot
<1>4. RoundsOK /\ RunsOK /\ StartsOK
  BY <1>1, <1>2, <1>3 DEF Init, RoundsOK, RunsOK, StartsOK
<1>5. IntentsOK /\ PlansOK
  BY DEF Init, IntentsOK, PlansOK
<1>6. /\ runLock \in BOOLEAN /\ admission \in BOOLEAN /\ kioskHold \in BOOLEAN
      /\ latest \in Session \cup {None} /\ svcBoot \in Nat
      /\ approvals \subseteq Plan \X Nat
  BY DEF Init, NoBoot
<1>7. /\ reset \in [pc: {"idle", "closed", "killed", "restarting"},
                   session: Session \cup {None}]
      /\ pausing \in [Session -> {"idle", "killed"}]
      /\ sim \in {"down", "starting", "ready", "lost"} /\ nonce \in Nat
  BY DEF Init, NoBoot
<1> QED
  BY <1>4, <1>5, <1>6, <1>7
  DEF TypeOK, RoundsOK, RunsOK, StartsOK, IntentsOK, PlansOK

LEMMA StepType == TypeOK /\ [Next]_vars => TypeOK'
<1> SUFFICES ASSUME TypeOK, [Next]_vars PROVE TypeOK'
  OBVIOUS
<1>a. RoundsOK /\ RunsOK /\ IntentsOK /\ PlansOK /\ StartsOK
  BY DEF TypeOK, RoundsOK, RunsOK, IntentsOK, PlansOK, StartsOK
<1>b. BootReady \in Nat /\ svcBoot \in Nat
  BY BootReadyType DEF TypeOK
<1> USE DEF vars, svcVars, intentVars, runVars, ctlVars, simVars
<1>1. ASSUME NEW s \in Session, CreateSession(s) PROVE TypeOK'
  <2>1. RoundsOK'
    BY <1>1, <1>a, <1>b DEF CreateSession, NewRound, NoBoot, RoundsOK, RoundState, Phase
  <2> QED
    BY <1>1, <1>b, <2>1 DEF CreateSession, TypeOK, RoundsOK
<1>2. CASE ReserveKioskExit
  BY <1>2, <1>a, <1>b DEF ReserveKioskExit, TypeOK
<1>3. ASSUME NEW s \in Session, SpawnRound(s) PROVE TypeOK'
  <2>1. RoundsOK'
    <3>1. rounds[s] \in RoundState
      BY <1>a DEF RoundsOK
    <3>2. [rounds[s] EXCEPT !.spec = TRUE, !.specBoot = BootReady] \in RoundState
      BY <1>b, <3>1 DEF RoundState
    <3> QED
      BY <1>3, <1>a, <3>2 DEF SpawnRound, RoundsOK
  <2> QED
    BY <1>3, <1>b, <2>1 DEF SpawnRound, TypeOK, RoundsOK
<1>4. ASSUME NEW s \in Session, InterpretBegin(s) PROVE TypeOK'
  <2>1. IntentsOK'
    BY <1>4, <1>a, <1>b DEF InterpretBegin, IntentsOK, RoundsOK, RoundState
  <2> QED
    BY <1>4, <1>b, <2>1 DEF InterpretBegin, TypeOK, IntentsOK
<1>5. ASSUME NEW s \in Session, InterpretMark(s) PROVE TypeOK'
  <2>1. RoundsOK'
    BY <1>5, <1>a, <1>b DEF InterpretMark, RoundsOK, RoundState, Phase
  <2>2. IntentsOK'
    BY <1>5, <1>a, <1>b DEF InterpretMark, IntentsOK, RoundsOK, RoundState
  <2> QED
    BY <1>5, <1>b, <2>1, <2>2 DEF InterpretMark, TypeOK, IntentsOK, RoundsOK
<1>6. ASSUME NEW s \in Session, InterpretNoPlan(s) PROVE TypeOK'
  <2>1. RoundsOK'
    BY <1>6, <1>a, <1>b DEF InterpretNoPlan, RoundsOK, RoundState, Phase
  <2>2. IntentsOK'
    BY <1>6, <1>a, <1>b DEF InterpretNoPlan, IntentsOK, RoundsOK, RoundState
  <2> QED
    BY <1>6, <1>b, <2>1, <2>2 DEF InterpretNoPlan, TypeOK, IntentsOK, RoundsOK
<1>7. ASSUME NEW s \in Session, NEW p \in Plan, InterpretPlan(s, p)
      PROVE TypeOK'
  <2>1. RoundsOK'
    <3>1. rounds[s] \in RoundState
      BY <1>a DEF RoundsOK
    <3>2. [rounds[s] EXCEPT !.phase = "REVIEW", !.plan = p]
            \in RoundState
      BY <3>1 DEF RoundState, Phase
    <3> QED
      BY <1>7, <1>a, <3>2 DEF InterpretPlan, RoundsOK
  <2>2. IntentsOK'
    BY <1>7, <1>a, <1>b DEF InterpretPlan, IntentsOK, RoundsOK, RoundState
  <2>3. PlansOK'
    BY <1>7, <1>a, <1>b DEF InterpretPlan, PlansOK, IntentsOK
  <2> QED
    BY <1>7, <1>b, <2>1, <2>2, <2>3 DEF InterpretPlan, TypeOK, IntentsOK, PlansOK, RoundsOK
<1>8. ASSUME NEW s \in Session, Approve(s) PROVE TypeOK'
  BY <1>8, <1>a, <1>b DEF Approve, TypeOK, RoundState, RoundsOK
<1>9. ASSUME NEW s \in Session, NEW r \in Run, StartGame(s, r) PROVE TypeOK'
  <2>1. RoundsOK'
    <3>1. rounds[s] \in RoundState
      BY <1>a DEF RoundsOK
    <3>2. [rounds[s] EXCEPT !.phase = "RUNNING", !.run = r, !.game = r]
            \in RoundState
      BY <3>1 DEF RoundState, Phase
    <3> QED
      BY <1>9, <1>a, <3>2 DEF StartGame, RoundsOK
  <2>2. RunsOK'
    <3>1. rounds[s].id \in Nat
      BY <1>a DEF RoundsOK, RoundState
    <3>2. starting[s].boot \in Nat /\ starting[s].plan \in Plan \cup {None}
      BY <1>a DEF StartsOK
    <3> QED
      BY <1>9, <1>a, <1>b, <3>1, <3>2
      DEF StartGame, NewRun, RunsOK, RunState, Thread, Container
  <2> QED
    BY <1>9, <1>b, <2>1, <2>2 DEF StartGame, TypeOK, RoundsOK, RunsOK
<1>10. ASSUME NEW s \in Session, NEW p \in Plan, StartRunRead(s, p)
      PROVE TypeOK'
  <2>1. StartsOK'
    BY <1>10, <1>a, <1>b DEF StartRunRead, StartsOK
  <2> QED
    BY <1>10, <1>b, <2>1 DEF StartRunRead, TypeOK, StartsOK
<1>11. ASSUME NEW s \in Session, NEW r \in Run, StartRunCommit(s, r)
      PROVE TypeOK'
  <2>1. RoundsOK'
    <3>1. rounds[s] \in RoundState
      BY <1>a DEF RoundsOK
    <3>2. [rounds[s] EXCEPT !.phase = "RUNNING", !.run = r] \in RoundState
      BY <3>1 DEF RoundState, Phase
    <3> QED
      BY <1>11, <1>a, <3>2 DEF StartRunCommit, RoundsOK
  <2>2. RunsOK'
    <3>1. rounds[s].id \in Nat
      BY <1>a DEF RoundsOK, RoundState
    <3>2. starting[s].boot \in Nat /\ starting[s].plan \in Plan \cup {None}
      BY <1>a DEF StartsOK
    <3> QED
      BY <1>11, <1>a, <1>b, <3>1, <3>2
      DEF StartRunCommit, NewRun, RunsOK, RunState, Thread, Container
  <2>3. StartsOK'
    BY <1>11, <1>a, <1>b DEF StartRunCommit, NewRun, NoStart, NoBoot, StartsOK
  <2> QED
    BY <1>11, <1>b, <2>1, <2>2, <2>3 DEF StartRunCommit, TypeOK, RoundsOK, RunsOK, StartsOK
<1>12. ASSUME NEW s \in Session, StartRunRefused(s) PROVE TypeOK'
  <2>1. StartsOK'
    BY <1>12, <1>a, <1>b DEF StartRunRefused, NoStart, NoBoot, StartsOK
  <2> QED
    BY <1>12, <1>b, <2>1 DEF StartRunRefused, TypeOK, StartsOK
<1>13. ASSUME NEW r \in Run, ExecCheck(r) PROVE TypeOK'
  <2>1. RunsOK'
    BY <1>13, <1>a, <1>b DEF ExecCheck, ThreadTo, RunsOK, RunState, Thread, Container
  <2> QED
    BY <1>13, <1>b, <2>1 DEF ExecCheck, TypeOK, RunsOK
<1>14. ASSUME NEW r \in Run, ExecLaunch(r) PROVE TypeOK'
  <2>1. RunsOK'
    BY <1>14, <1>a, <1>b DEF ExecLaunch, RunsOK, RunState, Thread, Container
  <2> QED
    BY <1>14, <1>b, <2>1 DEF ExecLaunch, TypeOK, RunsOK
<1>15. ASSUME NEW r \in Run, ExecRecheck(r) PROVE TypeOK'
  <2>1. RunsOK'
    BY <1>15, <1>a, <1>b DEF ExecRecheck, RemoveTried, Removed, RunsOK, RunState, Thread, Container
  <2> QED
    BY <1>15, <1>b, <2>1 DEF ExecRecheck, TypeOK, RunsOK
<1>16. ASSUME NEW r \in Run, ExecCollect(r) PROVE TypeOK'
  <2>1. RunsOK'
    <3>1. runs[r] \in RunState
      BY <1>a DEF RunsOK
    <3>2. \A t \in Thread, c \in Container :
             [runs[r] EXCEPT !.thread = t, !.container = c] \in RunState
      BY <3>1 DEF RunState
    <3>3. RemoveTried(runs[r].container) \subseteq Container
      BY <3>1 DEF RemoveTried, Removed, RunState, Container
    <3>4. PICK c \in Container, t \in Thread, d \in Container :
             runs' = [runs EXCEPT ![r].thread = t, ![r].container = d]
      BY <1>16, <3>3 DEF ExecCollect, Thread, Container
    <3>5. [runs[r] EXCEPT !.thread = t, !.container = d] \in RunState
      BY <3>2
    <3> QED
      BY <1>a, <3>4, <3>5 DEF RunsOK
  <2> QED
    BY <1>16, <1>b, <2>1 DEF ExecCollect, TypeOK, RunsOK
<1>17. ASSUME NEW r \in Run, RunnerArms(r) PROVE TypeOK'
  <2>1. RunsOK'
    BY <1>17, <1>a, <1>b DEF RunnerArms, RunsOK, RunState, Thread, Container
  <2> QED
    BY <1>17, <1>b, <2>1 DEF RunnerArms, TypeOK, RunsOK
<1>18. ASSUME NEW r \in Run, RunnerExits(r) PROVE TypeOK'
  <2>1. RunsOK'
    BY <1>18, <1>a, <1>b DEF RunnerExits, RunsOK, RunState, Thread, Container
  <2> QED
    BY <1>18, <1>b, <2>1 DEF RunnerExits, TypeOK, RunsOK
<1>19. ASSUME NEW r \in Run, FinishRun(r) PROVE TypeOK'
  <2>1. RoundsOK'
    BY <1>19, <1>a, <1>b DEF FinishRun, RoundsOK, RoundState, Phase
  <2>2. RunsOK'
    BY <1>19, <1>a, <1>b DEF FinishRun, RunsOK, RunState, Thread, Container
  <2>3. svcBoot' \in Nat
    BY <1>19, <1>a, <1>b DEF FinishRun, RunsOK, RunState
  <2> QED
    BY <1>19, <1>b, <2>1, <2>2, <2>3 DEF FinishRun, TypeOK, RoundsOK, RunsOK
<1>20. ASSUME NEW s \in Session, PauseKill(s) PROVE TypeOK'
  <2>1. RunsOK'
    BY <1>20, <1>a, KilledRunsType DEF PauseKill, RunsOK
  <2> QED
    BY <1>20, <1>b, <2>1 DEF PauseKill, TypeOK, RunsOK
<1>21. ASSUME NEW s \in Session, AbortRun(s) PROVE TypeOK'
  <2>1. RoundsOK'
    <3>1. rounds[s] \in RoundState
      BY <1>a DEF RoundsOK
    <3>2. [rounds[s] EXCEPT !.run = None, !.plan = None, !.game = None,
                            !.phase = "FAULT"] \in RoundState
      BY <3>1 DEF RoundState, Phase
    <3> QED
      BY <1>21, <1>a, <3>2 DEF AbortRun, RoundsOK
  <2> QED
    BY <1>21, <1>b, <2>1 DEF AbortRun, TypeOK, RoundsOK
<1>22. ASSUME NEW s \in Session, ResetBegin(s) PROVE TypeOK'
  <2>1. RoundsOK'
    <3>1. rounds[s] \in RoundState
      BY <1>a DEF RoundsOK
    <3>2. [rounds[s] EXCEPT !.run = None, !.plan = None, !.phase = "RESETTING"]
            \in RoundState
      BY <3>1 DEF RoundState, Phase
    <3> QED
      BY <1>22, <1>a, <3>2 DEF ResetBegin, RoundsOK
  <2> QED
    BY <1>22, <1>b, <2>1 DEF ResetBegin, TypeOK, RoundsOK
<1>23. CASE ResetKill
  <2>1. RunsOK'
    BY <1>23, <1>a, KilledRunsType DEF ResetKill, RunsOK
  <2> QED
    BY <1>23, <1>b, <2>1 DEF ResetKill, TypeOK, RunsOK
<1>24. CASE ResetRestart
  BY <1>24, <1>a, <1>b DEF ResetRestart, TypeOK
<1>25. CASE ResetDone
  <2>1. RoundsOK'
    BY <1>25, <1>a, <1>b DEF ResetDone, NewRound, NoBoot, RoundsOK, RoundState, Phase
  <2> QED
    BY <1>25, <1>b, <2>1 DEF ResetDone, TypeOK, RoundsOK
<1>26. CASE ResetFailed
  <2>1. RoundsOK'
    BY <1>26, <1>a, <1>b DEF ResetFailed, RoundsOK, RoundState, Phase
  <2> QED
    BY <1>26, <1>b, <2>1 DEF ResetFailed, TypeOK, RoundsOK
<1>27. CASE ResetRaised
  BY <1>27, <1>a, <1>b DEF ResetRaised, TypeOK
<1>28. CASE KioskHoldExpires
  BY <1>28, <1>a, <1>b DEF KioskHoldExpires, TypeOK
<1>29. CASE StandReady
  BY <1>29, <1>a, <1>b DEF StandReady, TypeOK
<1>30. CASE StandLost
  BY <1>30, <1>a, <1>b DEF StandLost, TypeOK
<1>31. CASE UserNext
  BY <1>31, <1>1, <1>2, <1>3, <1>4, <1>8, <1>9, <1>10, <1>20, <1>22 DEF UserNext
<1>32. CASE ThreadNext
  BY <1>32, <1>5, <1>6, <1>7, <1>11, <1>12, <1>13, <1>14, <1>15, <1>16,
     <1>19, <1>21, <1>23, <1>24, <1>25, <1>26, <1>27 DEF ThreadNext
<1>33. CASE WorldNext
  BY <1>33, <1>17, <1>18, <1>28, <1>29, <1>30 DEF WorldNext
<1>34. CASE UNCHANGED vars
  BY <1>34 DEF TypeOK
<1> QED
  BY <1>31, <1>32, <1>33, <1>34 DEF Next

(* The variables keep their types in every behaviour of the orchestrator.  *)
THEOREM TypeCorrect == Spec => []TypeOK
<1>1. Init => TypeOK
  BY InitType
<1>2. TypeOK /\ [Next]_vars => TypeOK'
  BY StepType
<1> QED
  BY <1>1, <1>2, PTL DEF Spec

-----------------------------------------------------------------------------
(* The run lock.  No step but a start makes a session RUNNING, and a start *)
(* tests the lock and the admission; abort_run() is the one operation that *)
(* frees the lock of somebody else, so nobody may pause.                   *)
LockInv ==
    /\ SingleRun
    /\ ClosedIsQuiet
    /\ \A s \in Session : pausing[s] = "idle"

(* The steps that leave the phases, the lock and the admission alone.      *)
LEMMA QuietSteps ==
    ASSUME [Next]_vars
    PROVE  \/ UNCHANGED <<rounds, runLock, admission>>
           \/ \E s \in Session : \/ CreateSession(s) \/ SpawnRound(s)
                                 \/ InterpretMark(s) \/ InterpretNoPlan(s)
                                 \/ \E p \in Plan : InterpretPlan(s, p)
                                 \/ \E r \in Run : StartGame(s, r)
                                                   \/ StartRunCommit(s, r)
                                 \/ AbortRun(s) \/ ResetBegin(s)
           \/ ResetDone \/ ResetFailed
           \/ \E r \in Run : FinishRun(r)
<1> USE DEF vars, svcVars, intentVars, runVars, ctlVars, simVars
<1>1. CASE UserNext
  BY <1>1 DEF UserNext, ReserveKioskExit, InterpretBegin, Approve,
              StartRunRead, PauseKill
<1>2. CASE ThreadNext
  BY <1>2 DEF ThreadNext, StartRunRefused, ExecCheck, ExecLaunch, ExecRecheck,
              ExecCollect, ResetKill, ResetRestart, ResetRaised
<1>3. CASE WorldNext
  BY <1>3 DEF WorldNext, KioskHoldExpires, StandReady, StandLost, RunnerArms,
              RunnerExits
<1>4. CASE UNCHANGED vars
  BY <1>4
<1> QED
  BY <1>1, <1>2, <1>3, <1>4 DEF Next

LEMMA PausingStep ==
    ASSUME "pause" \notin Env, \A s \in Session : pausing[s] = "idle",
           [Next]_vars
    PROVE  pausing' = pausing
<1> USE DEF vars, svcVars, intentVars, runVars, ctlVars, simVars
<1>1. CASE UserNext
  BY <1>1 DEF UserNext, CreateSession, ReserveKioskExit, SpawnRound,
              InterpretBegin, Approve, StartGame, StartRunRead, PauseKill,
              ResetBegin
<1>2. CASE ThreadNext
  BY <1>2 DEF ThreadNext, InterpretMark, InterpretNoPlan, InterpretPlan,
              StartRunCommit, StartRunRefused, ExecCheck, ExecLaunch,
              ExecRecheck, ExecCollect, FinishRun, AbortRun, ResetKill,
              ResetRestart, ResetDone, ResetFailed, ResetRaised
<1>3. CASE WorldNext
  BY <1>3 DEF WorldNext, KioskHoldExpires, StandReady, StandLost, RunnerArms,
              RunnerExits
<1>4. CASE UNCHANGED vars
  BY <1>4
<1> QED
  BY <1>1, <1>2, <1>3, <1>4 DEF Next

(* Only these steps write a phase, and only the two starts write RUNNING.  *)
LEMMA PhaseKept ==
    ASSUME TypeOK, NEW s \in Session,
           \/ CreateSession(s) \/ SpawnRound(s) \/ InterpretMark(s)
           \/ InterpretNoPlan(s) \/ \E p \in Plan : InterpretPlan(s, p)
           \/ ResetDone \/ ResetFailed \/ AbortRun(s) \/ ResetBegin(s)
    PROVE  \A t \in Session : IsRunning(t)' => IsRunning(t)
<1>1. rounds \in [Session -> RoundState]
  BY DEF TypeOK
<1> USE <1>1 DEF IsRunning, RoundState
<1>2. CASE CreateSession(s) \/ SpawnRound(s) \/ InterpretMark(s)
  BY <1>2 DEF CreateSession, SpawnRound, InterpretMark, NewRound
<1>3. CASE InterpretNoPlan(s) \/ \E p \in Plan : InterpretPlan(s, p)
  BY <1>3 DEF InterpretNoPlan, InterpretPlan
<1>4. CASE ResetDone \/ ResetFailed
  BY <1>4 DEF ResetDone, ResetFailed, NewRound
<1>5. CASE AbortRun(s)
  BY <1>5 DEF AbortRun
<1>6. CASE ResetBegin(s)
  BY <1>6 DEF ResetBegin
<1> QED
  BY <1>2, <1>3, <1>4, <1>5, <1>6

LEMMA PhaseLeft ==
    ASSUME TypeOK, NEW s \in Session, ResetBegin(s)
    PROVE  ~IsRunning(s)'
BY DEF TypeOK, ResetBegin, IsRunning, RoundState

LEMMA PhaseStarted ==
    ASSUME TypeOK, NEW s \in Session, NEW r \in Run,
           StartGame(s, r) \/ StartRunCommit(s, r)
    PROVE  /\ runLock' /\ ~runLock /\ admission /\ admission'
           /\ \A t \in Session : IsRunning(t)' => t = s \/ IsRunning(t)
<1>1. rounds \in [Session -> RoundState]
  BY DEF TypeOK
<1> QED
  BY <1>1 DEF StartGame, StartRunCommit, CanStartRun, Admitting, IsRunning,
              RoundState

LEMMA LockStep ==
    ASSUME "pause" \notin Env, TypeOK, LockInv, [Next]_vars
    PROVE  LockInv'
<1> USE DEF LockInv, SingleRun, ClosedIsQuiet, AnyRunning
<1>1. pausing' = pausing
  BY PausingStep
<1>2. CASE UNCHANGED <<rounds, runLock, admission>>
  BY <1>1, <1>2 DEF IsRunning
<1>3. ASSUME \A t \in Session : IsRunning(t)' => IsRunning(t),
             runLock => runLock', admission => admission'
      PROVE  LockInv'
  BY <1>1, <1>3 DEF IsRunning
<1>4. ASSUME NEW s \in Session,
             \/ CreateSession(s) \/ SpawnRound(s) \/ InterpretMark(s)
             \/ InterpretNoPlan(s) \/ \E p \in Plan : InterpretPlan(s, p)
             \/ ResetDone \/ ResetFailed
      PROVE  LockInv'
  <2>1. (runLock => runLock') /\ (admission => admission')
    BY <1>4 DEF CreateSession, SpawnRound, InterpretMark, InterpretNoPlan,
                InterpretPlan, ResetDone, ResetFailed
  <2> QED
    BY <1>3, <1>4, <2>1, PhaseKept
<1>5. ASSUME NEW s \in Session, NEW r \in Run,
             StartGame(s, r) \/ StartRunCommit(s, r)
      PROVE  LockInv'
  BY <1>1, <1>5, PhaseStarted
<1>6. ASSUME NEW s \in Session, AbortRun(s) PROVE LockInv'
  BY <1>6 DEF AbortRun
<1>7. ASSUME NEW s \in Session, ResetBegin(s) PROVE LockInv'
  <2>1. ~OtherBusy(s)
    BY <1>7 DEF ResetBegin
  <2>2. ~IsRunning(s)' /\ \A t \in Session : IsRunning(t)' => IsRunning(t)
    BY <1>7, PhaseKept, PhaseLeft
  <2>3. \A t \in Session : ~IsRunning(t)'
    BY <2>1, <2>2 DEF OtherBusy
  <2> QED
    BY <1>1, <2>3 DEF IsRunning
<1>8. ASSUME NEW r \in Run, FinishRun(r) PROVE LockInv'
  <2>1. CASE Finishes(r)
    <3>1. \A t \in Session : ~IsRunning(t)'
      <4>1. PICK s \in Session : /\ IsRunning(s)
                                 /\ rounds' = [rounds EXCEPT ![s].phase = "RESULT",
                                                           ![s].result = r]
        BY <1>8, <2>1 DEF FinishRun, Finishes, OwnsRun
      <4>2. rounds \in [Session -> RoundState]
        BY DEF TypeOK
      <4> QED
        BY <4>1, <4>2 DEF IsRunning, RoundState
    <3> QED
      BY <1>1, <3>1 DEF IsRunning
  <2>2. CASE ~Finishes(r)
    BY <1>2, <1>8, <2>2 DEF FinishRun
  <2> QED
    BY <2>1, <2>2
<1>9. CASE Session = {}
  BY <1>1, <1>9
<1> QED
  BY <1>2, <1>4, <1>5, <1>6, <1>7, <1>8, <1>9, QuietSteps

LEMMA LockInit == Init => LockInv
BY DEF Init, LockInv, SingleRun, ClosedIsQuiet, AnyRunning, IsRunning,
       NoRound, NewRound

(* Without a pause one session at most runs, it holds the run lock, and    *)
(* nobody runs while the admission is closed (start_run, start_game,       *)
(* finish_run and reset against each other, service.py).                   *)
THEOREM OneRunAtATime ==
    ASSUME "pause" \notin Env
    PROVE  Spec => [](SingleRun /\ ClosedIsQuiet)
<1>1. Init => LockInv
  BY LockInit
<1>2. TypeOK /\ LockInv /\ [Next]_vars => LockInv'
  BY LockStep
<1>3. LockInv => SingleRun /\ ClosedIsQuiet
  BY DEF LockInv
<1> QED
  BY <1>1, <1>2, <1>3, TypeCorrect, PTL DEF Spec
=============================================================================
