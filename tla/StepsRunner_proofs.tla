-------------------------- MODULE StepsRunner_proofs --------------------------
(***************************************************************************)
(* What StepsRunner guarantees for every list of steps and every profile   *)
(* of limits, checked by TLAPS.                                            *)
(***************************************************************************)
EXTENDS StepsRunner, TLAPS

-----------------------------------------------------------------------------
(* The invariant of the executor.  The robot is known to rest only while   *)
(* no stick is sent, and never longer than that.                           *)
RestInv ==
    /\ phase \in Driven => rest = Unset
    /\ rest # Unset => out = "none" /\ rest <= sinceStick

(* Where in the list the executor is.                                      *)
StepInv ==
    /\ i = 0 => phase = "accepted"
    /\ phase = "completed" => i = Len(program)
    /\ phase \in {"jogging", "jog_stopping"} => i = 1 /\ Len(program) = 1

ExInv == ExTypeOK /\ RestInv /\ StepInv

(* The invariant of the verified hold: what counts is what was watched.    *)
WatchInv ==
    /\ endStage = "hold" => watched = IF gap THEN None ELSE held
    /\ endStage = "verified" => watched = HoldFor

(* Observations missed for too long end the loop.                          *)
MissedInv == pc \in {"setup", "poll", "drive"} => missed <= ObsLostAbort

(* There is a verdict only when nothing follows.                           *)
VerdictInv == verdict # "none" => pc = "ended"

-----------------------------------------------------------------------------
(* The constants and the list of steps.                                    *)
LEMMA TopTypes ==
    /\ TopElapsed \in Nat /\ TopStalled \in Nat /\ RestHold \in Nat \ {0}
    /\ MaxCorrections \in Nat /\ ApplyTicks \in Nat \ {0}
    /\ CorrectionTicks \in Nat /\ StallLimit \in Nat
BY ProfileAssumption DEF TopElapsed, TopStalled

LEMMA ProgramType ==
    ASSUME program \in Programs
    PROVE  /\ program \in Seq(Action)
           /\ Len(program) \in Nat \ {0}
           /\ \A k \in 1..Len(program) : program[k] = "jog" => Len(program) = 1
BY ProgramsAssumption DEF Runnable

LEMMA AgedType ==
    ASSUME NEW top \in Nat, NEW age \in Unset..top, NEW dt \in Nat
    PROVE  Aged(age, dt, top) \in 0..top
BY DEF Aged, AtMost, Unset

LEMMA UnsetType ==
    ASSUME NEW top \in Nat PROVE Unset \in Unset..top /\ 0 \in Unset..top
BY DEF Unset

LEMMA ClocksType ==
    ASSUME ExTypeOK, NEW dt \in Nat, NEW advanced \in BOOLEAN
    PROVE  /\ Elapsed(dt) \in Unset..TopElapsed
           /\ Stalled(dt, advanced) \in Unset..TopStalled
<1>1. elapsed \in Unset..TopElapsed /\ stalled \in Unset..TopStalled
  BY DEF ExTypeOK
<1>2. Aged(elapsed, dt, TopElapsed) \in 0..TopElapsed
  BY <1>1, TopTypes, AgedType
<1>3. Aged(stalled, dt, TopStalled) \in 0..TopStalled
  BY <1>1, TopTypes, AgedType
<1> QED
  BY <1>2, <1>3, TopTypes DEF Elapsed, Stalled, Unset

(* While no stick is sent, the time without one grows with that at rest.   *)
LEMMA NoStickType ==
    ASSUME ExTypeOK, NEW dt \in Nat \ {0}, NoStick(dt)
    PROVE  /\ out' = "none" /\ sinceStick' \in 0..RestHold
           /\ out = "none" => sinceStick' = AtMost(sinceStick + dt, RestHold)
           /\ out = "none" => sinceStick <= sinceStick'
<1>1. sinceStick \in 0..RestHold
  BY DEF ExTypeOK
<1> QED
  BY <1>1, TopTypes DEF NoStick, AtMost

LEMMA RestKept ==
    ASSUME ExTypeOK, RestInv, NEW dt \in Nat \ {0}, NoStick(dt), rest' = rest
    PROVE  rest' # Unset => out' = "none" /\ rest' <= sinceStick'
<1>1. sinceStick \in 0..RestHold /\ rest \in Unset..RestHold
  BY DEF ExTypeOK
<1> QED
  BY <1>1, TopTypes, NoStickType DEF RestInv, Unset

-----------------------------------------------------------------------------
(* Every way a tick() goes keeps the invariant of the executor.            *)
LEMMA BeginKeeps ==
    ASSUME ExInv, Begin PROVE ExInv'
<1>1. ExTypeOK'
  <2>1. /\ elapsed' \in Unset..TopElapsed /\ stalled' \in Unset..TopStalled
        /\ rest' \in Unset..RestHold
    BY TopTypes, UnsetType DEF Begin, BeginStep
  <2>2. i' \in 0..Len(program')
    BY ProgramType DEF ExInv, ExTypeOK, Begin, BeginStep
  <2>3. applyLeft' \in Nat /\ corrections' \in 0..MaxCorrections
    BY TopTypes DEF Begin, BeginStep
  <2> QED
    BY <2>1, <2>2, <2>3 DEF ExInv, ExTypeOK, Begin, BeginStep, Phase, Reason
<1>2. RestInv' /\ StepInv'
  BY DEF ExInv, Begin, BeginStep, RestInv, StepInv
<1> QED
  BY <1>1, <1>2 DEF ExInv

LEMMA RequestStopKeeps ==
    ASSUME ExInv, NEW why \in StopReason, RequestStop(why) PROVE ExInv'
<1>1. ExTypeOK'
  BY DEF ExInv, ExTypeOK, RequestStop
<1>2. RestInv' /\ StepInv'
  BY DEF ExInv, RequestStop, RestInv, StepInv
<1> QED
  BY <1>1, <1>2 DEF ExInv

LEMMA AnchorsKeeps ==
    ASSUME ExInv, Anchors PROVE ExInv'
<1>1. ExTypeOK'
  <2>1. /\ elapsed' \in Unset..TopElapsed /\ stalled' \in Unset..TopStalled
        /\ rest' \in Unset..RestHold
    BY TopTypes, UnsetType DEF Anchors, BeginStep
  <2>2. i' \in 0..Len(program')
    BY ProgramType DEF ExInv, ExTypeOK, Anchors, BeginStep
  <2>3. applyLeft' \in Nat /\ corrections' \in 0..MaxCorrections
    BY TopTypes DEF Anchors, BeginStep
  <2>4. out' = "stick" /\ sinceStick' \in 0..RestHold
    BY TopTypes DEF Anchors, Sticks
  <2> QED
    BY <2>1, <2>2, <2>3, <2>4
       DEF ExInv, ExTypeOK, Anchors, BeginStep, Phase, Reason
<1>2. i' # 0
  BY DEF Anchors, BeginStep
<1>3. RestInv' /\ StepInv'
  BY <1>2 DEF Anchors, BeginStep, RestInv, StepInv
<1> QED
  BY <1>1, <1>3 DEF ExInv

LEMMA TripsKeeps ==
    ASSUME ExInv, NEW dt \in Nat \ {0}, NEW drift \in Drift,
           NEW advanced \in BOOLEAN, phase # "accepted",
           Trips(dt, drift, advanced)
    PROVE  ExInv'
<1>1. Limit(dt, drift, advanced) \in Reason
  BY DEF Limit, Reason, Drift
<1>2. ExTypeOK /\ RestInv
  BY DEF ExInv
<1>3. NoStick(dt) /\ rest' = rest
  BY DEF Trips, Fails
<1>4. ExTypeOK'
  BY <1>1, <1>2, <1>3, NoStickType DEF ExTypeOK, Trips, Fails, Phase, Over
<1>5. RestInv'
  BY <1>2, <1>3, RestKept DEF Trips, Fails, RestInv, Driven
<1>6. StepInv'
  BY DEF ExInv, StepInv, Trips, Fails
<1> QED
  BY <1>4, <1>5, <1>6 DEF ExInv

LEMMA AppliesKeeps ==
    ASSUME ExInv, NEW dt \in Nat \ {0}, NEW advanced \in BOOLEAN,
           Applies(dt, advanced)
    PROVE  ExInv'
<1>1. ExTypeOK
  BY DEF ExInv
<1>2. elapsed' \in Unset..TopElapsed /\ stalled' \in Unset..TopStalled
  BY <1>1, ClocksType DEF Applies, Clocks
<1>3. applyLeft' \in Nat
  BY <1>1 DEF Applies, ExTypeOK
<1>4. out' \in {"stick", "slow", "none"} /\ sinceStick' \in 0..RestHold
  BY TopTypes DEF Applies, Sticks
<1>5. ExTypeOK'
  BY <1>1, <1>2, <1>3, <1>4 DEF ExTypeOK, Applies
<1>6. RestInv' /\ StepInv'
  BY DEF ExInv, RestInv, StepInv, Applies, Driven
<1> QED
  BY <1>5, <1>6 DEF ExInv

LEMMA MovesKeeps ==
    ASSUME ExInv, NEW dt \in Nat \ {0}, NEW advanced \in BOOLEAN,
           Moves(dt, advanced)
    PROVE  ExInv'
<1>1. ExTypeOK
  BY DEF ExInv
<1>2. elapsed' \in Unset..TopElapsed /\ stalled' \in Unset..TopStalled
  BY <1>1, ClocksType DEF Moves, Clocks
<1>3. phase \in Driven /\ phase' \in {"moving", "turning"} /\ phase # "accepted"
  BY DEF Moves, Applied, Driven
<1>4. out' \in {"stick", "slow", "none"} /\ sinceStick' \in 0..RestHold
  BY TopTypes DEF Moves, Sticks
<1>5. ExTypeOK'
  BY <1>1, <1>2, <1>3, <1>4 DEF ExTypeOK, Moves, Phase
<1>6. RestInv' /\ StepInv'
  BY <1>3 DEF ExInv, RestInv, StepInv, Moves, Driven
<1> QED
  BY <1>5, <1>6 DEF ExInv

LEMMA ReleasesKeeps ==
    ASSUME ExInv, NEW dt \in Nat \ {0}, NEW advanced \in BOOLEAN,
           Releases(dt, advanced)
    PROVE  ExInv'
<1>1. ExTypeOK
  BY DEF ExInv
<1>2. elapsed' \in Unset..TopElapsed /\ stalled' \in Unset..TopStalled
  BY <1>1, ClocksType DEF Releases, Clocks
<1>3. phase # "accepted" /\ phase' = "settling" /\ rest' \in {Unset, 0}
  BY DEF Releases
<1>4. out' = "none" /\ sinceStick' \in 0..RestHold
  BY <1>1, NoStickType DEF Releases
<1>5. rest' \in Unset..RestHold
  BY <1>3, TopTypes DEF Unset
<1>6. ExTypeOK'
  BY <1>1, <1>2, <1>3, <1>4, <1>5 DEF ExTypeOK, Releases, Phase
<1>7. RestInv'
  BY <1>3, <1>4, TopTypes DEF RestInv, Driven, Unset
<1>8. StepInv'
  BY <1>3 DEF ExInv, StepInv, Releases
<1> QED
  BY <1>6, <1>7, <1>8 DEF ExInv

LEMMA WaitsKeeps ==
    ASSUME ExInv, NEW dt \in Nat \ {0}, NEW advanced \in BOOLEAN,
           Waits(dt, advanced)
    PROVE  ExInv'
<1>1. ExTypeOK /\ RestInv
  BY DEF ExInv
<1>2. elapsed' \in Unset..TopElapsed /\ stalled' \in Unset..TopStalled
  BY <1>1, ClocksType DEF Waits, Clocks
<1>3. phase' = phase /\ phase \notin Driven
  BY DEF Waits, Driven
<1>4. /\ out' = "none" /\ sinceStick' \in 0..RestHold
      /\ out = "none" => sinceStick' = AtMost(sinceStick + dt, RestHold)
  BY <1>1, NoStickType DEF Waits
<1>5. /\ rest \in Unset..RestHold /\ sinceStick \in 0..RestHold
      /\ Aged(rest, dt, RestHold) \in 0..RestHold
  BY <1>1, TopTypes, AgedType DEF ExTypeOK
<1>6. rest' = Unset \/ rest' = Aged(rest, dt, RestHold)
  BY DEF Waits
<1>7. rest' \in Unset..RestHold
  BY <1>5, <1>6, TopTypes DEF Unset
<1>8. rest' # Unset => rest' <= sinceStick'
  <2>1. CASE rest = Unset
    BY <2>1, <1>4, <1>6, TopTypes DEF Aged
  <2>2. CASE rest # Unset
    BY <2>2, <1>1, <1>4, <1>5, <1>6, TopTypes DEF Aged, AtMost, RestInv, Unset
  <2> QED
    BY <2>1, <2>2
<1>9. ExTypeOK'
  BY <1>1, <1>2, <1>4, <1>7 DEF ExTypeOK, Waits
<1>10. RestInv'
  BY <1>3, <1>4, <1>8 DEF RestInv, Driven
<1>11. StepInv'
  BY DEF ExInv, StepInv, Waits
<1> QED
  BY <1>9, <1>10, <1>11 DEF ExInv

LEMMA CorrectsKeeps ==
    ASSUME ExInv, NEW dt \in Nat \ {0}, Corrects(dt) PROVE ExInv'
<1>1. ExTypeOK
  BY DEF ExInv
<1>2. elapsed' \in Unset..TopElapsed /\ stalled' \in Unset..TopStalled
  BY <1>1, ClocksType, UnsetType, TopTypes DEF Corrects
<1>3. out' = "none" /\ sinceStick' \in 0..RestHold
  BY <1>1, NoStickType DEF Corrects
<1>4. corrections' \in 0..MaxCorrections
  BY <1>1, TopTypes DEF ExTypeOK, Corrects
<1>5. applyLeft' \in Nat /\ rest' \in Unset..RestHold
  BY TopTypes, UnsetType DEF Corrects
<1>6. ExTypeOK'
  BY <1>1, <1>2, <1>3, <1>4, <1>5 DEF ExTypeOK, Corrects, Phase
<1>7. RestInv' /\ StepInv'
  BY DEF ExInv, RestInv, StepInv, Corrects
<1> QED
  BY <1>6, <1>7 DEF ExInv

LEMMA MissesKeeps ==
    ASSUME ExInv, NEW dt \in Nat \ {0}, NEW advanced \in BOOLEAN,
           Misses(dt, advanced)
    PROVE  ExInv'
<1>1. ExTypeOK /\ RestInv
  BY DEF ExInv
<1>2. elapsed' \in Unset..TopElapsed /\ stalled' \in Unset..TopStalled
  BY <1>1, ClocksType DEF Misses, Clocks
<1>3. /\ phase = "settling" /\ phase' = "failed"
      /\ reason' \in {"undershoot", "overshoot"}
      /\ NoStick(dt) /\ rest' = rest
      /\ UNCHANGED <<program, i, applyLeft, corrections, correcting, stopReq, jogEnd>>
  BY DEF Misses, Fails
<1>4. ExTypeOK'
  BY <1>1, <1>2, <1>3, NoStickType DEF ExTypeOK, Phase, Over, Reason
<1>5. RestInv'
  BY <1>1, <1>3, RestKept DEF RestInv, Driven
<1>6. StepInv'
  BY <1>3 DEF ExInv, StepInv
<1> QED
  BY <1>4, <1>5, <1>6 DEF ExInv

LEMMA CompletesKeeps ==
    ASSUME ExInv, NEW dt \in Nat \ {0}, NEW advanced \in BOOLEAN,
           Completes(dt, advanced)
    PROVE  ExInv'
<1>1. ExTypeOK /\ RestInv
  BY DEF ExInv
<1>2. elapsed' \in Unset..TopElapsed /\ stalled' \in Unset..TopStalled
  BY <1>1, ClocksType DEF Completes, Clocks
<1>3. NoStick(dt) /\ rest' = rest /\ program' = program
  BY DEF Completes
<1>4. /\ i' \in 0..Len(program) /\ phase' \in {"completed", "accepted"}
      /\ i # 0 /\ i' # 0 /\ phase' = "completed" => i' = Len(program)
  BY <1>1, ProgramType DEF ExInv, ExTypeOK, StepInv, Completes, LastStep
<1>5. ExTypeOK'
  BY <1>1, <1>2, <1>3, <1>4, NoStickType DEF ExTypeOK, Completes, Phase, Over
<1>6. RestInv'
  BY <1>1, <1>3, <1>4, RestKept DEF RestInv, Driven
<1>7. StepInv'
  BY <1>3, <1>4, <1>1 DEF ExInv, StepInv, Completes, LastStep
<1> QED
  BY <1>5, <1>6, <1>7 DEF ExInv

-----------------------------------------------------------------------------
(* The jog.                                                                *)
LEMMA JogEndType ==
    ASSUME ExInv, NEW dt \in Nat \ {0}, NEW near \in BOOLEAN
    PROVE  JogEnd(dt, near) \in JogReason \cup {"none"}
BY DEF ExInv, ExTypeOK, JogEnd, JogReason, StopReason

(* A list with a jog in it has no other step.                              *)
LEMMA JogIsAlone ==
    ASSUME ExInv, Now = "jog", i # 0 PROVE i = 1 /\ Len(program) = 1
<1>1. program \in Programs /\ i \in 1..Len(program)
  BY ProgramType DEF ExInv, ExTypeOK
<1>2. Len(program) = 1
  BY <1>1, ProgramType DEF Now
<1> QED
  BY <1>1, <1>2

LEMMA JogsKeeps ==
    ASSUME ExInv, NEW dt \in Nat \ {0}, NEW advanced \in BOOLEAN,
           NEW near \in BOOLEAN, Jogs(dt, advanced, near)
    PROVE  ExInv'
<1>1. ExTypeOK
  BY DEF ExInv
<1>2. elapsed' \in Unset..TopElapsed /\ stalled' \in Unset..TopStalled
  BY <1>1, ClocksType DEF Jogs, Clocks
<1>3. phase \in Driven /\ phase' = "jogging" /\ i # 0
  BY DEF Jogs, Applied, Driven, ExInv, StepInv
<1>4. i = 1 /\ Len(program) = 1
  BY <1>3, JogIsAlone DEF Jogs, ExInv, StepInv
<1>5. out' = "stick" /\ sinceStick' \in 0..RestHold
  BY TopTypes DEF Jogs, Sticks
<1>6. ExTypeOK'
  BY <1>1, <1>2, <1>3, <1>5 DEF ExTypeOK, Jogs, Phase
<1>7. RestInv' /\ StepInv'
  BY <1>3, <1>4 DEF ExInv, RestInv, StepInv, Jogs
<1> QED
  BY <1>6, <1>7 DEF ExInv

LEMMA StopsJogKeeps ==
    ASSUME ExInv, NEW dt \in Nat \ {0}, NEW advanced \in BOOLEAN,
           NEW near \in BOOLEAN, StopsJog(dt, advanced, near)
    PROVE  ExInv'
<1>1. ExTypeOK
  BY DEF ExInv
<1>2. elapsed' \in Unset..TopElapsed /\ stalled' \in Unset..TopStalled
  BY <1>1, ClocksType DEF StopsJog, Clocks
<1>3. phase \in Driven /\ phase' = "jog_stopping" /\ i # 0 /\ rest' = Unset
  BY DEF StopsJog, Applied, Driven, ExInv, StepInv
<1>4. i = 1 /\ Len(program) = 1
  BY <1>3, JogIsAlone DEF StopsJog, ExInv, StepInv
<1>5. out' = "none" /\ sinceStick' \in 0..RestHold
  BY <1>1, NoStickType DEF StopsJog
<1>6. jogEnd' \in JogReason /\ rest' \in Unset..RestHold
  BY <1>3, JogEndType, UnsetType, TopTypes DEF StopsJog
<1>7. ExTypeOK'
  BY <1>1, <1>2, <1>3, <1>5, <1>6 DEF ExTypeOK, StopsJog, Phase
<1>8. RestInv' /\ StepInv'
  BY <1>3, <1>4 DEF ExInv, RestInv, StepInv, StopsJog, Driven
<1> QED
  BY <1>7, <1>8 DEF ExInv

LEMMA JogCompletesKeeps ==
    ASSUME ExInv, NEW dt \in Nat \ {0}, NEW advanced \in BOOLEAN,
           JogCompletes(dt, advanced)
    PROVE  ExInv'
<1>1. ExTypeOK /\ RestInv
  BY DEF ExInv
<1>2. elapsed' \in Unset..TopElapsed /\ stalled' \in Unset..TopStalled
  BY <1>1, ClocksType DEF JogCompletes, Clocks
<1>3. NoStick(dt) /\ rest' = rest /\ phase' = "completed"
  BY DEF JogCompletes
<1>4. i = 1 /\ Len(program) = 1
  BY DEF JogCompletes, ExInv, StepInv
<1>5. reason' \in Reason
  BY <1>1 DEF JogCompletes, ExTypeOK, Reason
<1>6. ExTypeOK'
  BY <1>1, <1>2, <1>3, <1>5, NoStickType DEF ExTypeOK, JogCompletes, Phase, Over
<1>7. RestInv'
  BY <1>1, <1>3, RestKept DEF RestInv, Driven
<1>8. StepInv'
  BY <1>3, <1>4 DEF StepInv, JogCompletes
<1> QED
  BY <1>6, <1>7, <1>8 DEF ExInv

(* The invariant of the executor, over a whole tick().                     *)
LEMMA TickKeeps ==
    ASSUME ExInv, NEW dt \in Nat \ {0}, Tick(dt) PROVE ExInv'
<1>1. CASE Anchors
  BY <1>1, AnchorsKeeps
<1>2. CASE phase \notin Over \cup {"accepted"} /\ Watches(dt)
  <2>1. PICK drift \in Drift, advanced \in BOOLEAN :
            \/ Trips(dt, drift, advanced)
            \/ Applies(dt, advanced) \/ Moves(dt, advanced)
            \/ Releases(dt, advanced) \/ Waits(dt, advanced)
            \/ Corrects(dt) \/ Misses(dt, advanced) \/ Completes(dt, advanced)
            \/ \E near \in BOOLEAN :
                  Jogs(dt, advanced, near) \/ StopsJog(dt, advanced, near)
            \/ JogCompletes(dt, advanced)
    BY <1>2 DEF Watches
  <2>2. CASE Trips(dt, drift, advanced)
    BY <1>2, <2>2, TripsKeeps
  <2>3. CASE Applies(dt, advanced) \/ Moves(dt, advanced) \/ Releases(dt, advanced)
    BY <2>3, AppliesKeeps, MovesKeeps, ReleasesKeeps
  <2>4. CASE Waits(dt, advanced) \/ Corrects(dt) \/ Misses(dt, advanced)
    BY <2>4, WaitsKeeps, CorrectsKeeps, MissesKeeps
  <2>5. CASE Completes(dt, advanced) \/ JogCompletes(dt, advanced)
    BY <2>5, CompletesKeeps, JogCompletesKeeps
  <2>6. CASE \E near \in BOOLEAN :
               Jogs(dt, advanced, near) \/ StopsJog(dt, advanced, near)
    BY <2>6, JogsKeeps, StopsJogKeeps
  <2> QED
    BY <2>1, <2>2, <2>3, <2>4, <2>5, <2>6
<1> QED
  BY <1>1, <1>2 DEF Tick

-----------------------------------------------------------------------------
(* The verified hold.                                                      *)
LEMMA HoldTypes ==
    /\ Window \in Nat \ {0} /\ StableFor \in Nat \ {0} /\ HoldFor \in Nat \ {0}
    /\ SettleBudget \in Nat /\ HoldBudget \in Nat
BY HoldAssumption

LEMMA SinceType ==
    ASSUME NEW top \in Nat, NEW age \in None..top, NEW d \in {0, 1}
    PROVE  /\ Since(age, d) \in Nat
           /\ Since(age, d) < top => Since(age, d) \in None..top
BY DEF Since, None

LEMMA SettleSampleKeeps ==
    ASSUME HoldTypeOK, WatchInv, NEW d \in {0, 1}, SettleSample(d)
    PROVE  HoldTypeOK' /\ WatchInv'
<1>1. /\ window \in None..Window /\ stable \in None..StableFor
      /\ budget \in 0..(SettleBudget + HoldBudget)
  BY DEF HoldTypeOK
<1>2. window' \in None..Window
  BY <1>1, HoldTypes, SinceType DEF SettleSample, None
<1>3. fallen' \in BOOLEAN
  BY DEF SettleSample, HoldTypeOK
<1>4. CASE Settled(d)
  <2>1. CASE Since(stable, d) >= StableFor
    <3>1. /\ endStage' = "hold" /\ stable' = None /\ held' = 0
          /\ gap' = FALSE /\ watched' = 0 /\ budget' = HoldBudget
      BY <1>4, <2>1 DEF Settled
    <3>2. /\ None \in None..StableFor /\ 0 \in None..HoldFor /\ 0 \in 0..HoldFor
          /\ HoldBudget \in 0..(SettleBudget + HoldBudget)
      BY HoldTypes DEF None
    <3> QED
      BY <1>2, <1>3, <3>1, <3>2 DEF HoldTypeOK, WatchInv
  <2>2. CASE ~(Since(stable, d) >= StableFor)
    <3>1. /\ stable' = Since(stable, d) /\ budget' = budget - 1
          /\ UNCHANGED <<endStage, held, gap, watched>>
      BY <1>4, <2>2 DEF Settled
    <3>2. stable' \in None..StableFor
      <4>1. StableFor \in Nat
        BY HoldTypes
      <4>2. Since(stable, d) \in Nat
        BY <1>1, <4>1, SinceType
      <4>3. Since(stable, d) < StableFor
        BY <2>2, <4>1, <4>2
      <4> QED
        BY <1>1, <3>1, <4>1, <4>3, SinceType
    <3>3. budget' \in 0..(SettleBudget + HoldBudget)
      BY <1>1, <3>1, HoldTypes DEF SettleSample
    <3> QED
      BY <1>2, <1>3, <3>1, <3>2, <3>3 DEF HoldTypeOK, WatchInv
  <2> QED
    BY <2>1, <2>2
<1>5. CASE Unsettled
  <2>1. budget' \in 0..(SettleBudget + HoldBudget)
    BY <1>1, <1>5, HoldTypes DEF SettleSample, Unsettled
  <2>2. stable' \in None..StableFor
    BY <1>5, HoldTypes DEF Unsettled, None
  <2> QED
    BY <1>2, <1>3, <1>5, <2>1, <2>2 DEF HoldTypeOK, WatchInv, Unsettled
<1> QED
  BY <1>4, <1>5 DEF SettleSample

LEMMA HoldSampleKeeps ==
    ASSUME HoldTypeOK, WatchInv, NEW d \in {0, 1}, HoldSample(d)
    PROVE  HoldTypeOK' /\ WatchInv'
<1>1. /\ held \in 0..HoldFor /\ watched \in None..HoldFor /\ gap \in BOOLEAN
      /\ budget \in 0..(SettleBudget + HoldBudget) /\ fallen \in BOOLEAN
  BY DEF HoldTypeOK
<1>2. /\ budget' \in 0..(SettleBudget + HoldBudget) /\ gap' = FALSE
      /\ UNCHANGED <<window, stable>>
  BY <1>1, HoldTypes DEF HoldSample
<1>3. CASE Held(d)
  <2>1. watched = IF gap THEN None ELSE held
    BY DEF HoldSample, WatchInv
  <2>2. Since(watched, d) = HeldTo(d) /\ HeldTo(d) \in Nat
    BY <1>1, <2>1, HoldTypes DEF Since, HeldTo, None
  <2>3. /\ held' = IF HeldTo(d) < HoldFor THEN HeldTo(d) ELSE HoldFor
        /\ endStage' = IF HeldTo(d) >= HoldFor THEN "verified" ELSE "hold"
        /\ watched' = held'
        /\ fallen' = fallen
    BY <1>3, <2>2 DEF Held
  <2>4. held' \in 0..HoldFor /\ watched' \in None..HoldFor
    BY <2>2, <2>3, HoldTypes DEF None
  <2>5. HoldTypeOK'
    BY <1>1, <1>2, <2>3, <2>4 DEF HoldTypeOK
  <2>6. WatchInv'
    BY <1>2, <2>2, <2>3, HoldTypes DEF WatchInv
  <2> QED
    BY <2>5, <2>6
<1>4. CASE Broken
  <2>1. watched' \in None..HoldFor
    BY <1>4, HoldTypes DEF Broken, None
  <2> QED
    BY <1>1, <1>2, <1>4, <2>1 DEF Broken, HoldTypeOK, WatchInv
<1> QED
  BY <1>3, <1>4 DEF HoldSample

LEMMA GapKeeps ==
    ASSUME HoldTypeOK, WatchInv, SettleGap \/ HoldGap
    PROVE  HoldTypeOK' /\ WatchInv'
<1>1. budget \in 0..(SettleBudget + HoldBudget)
  BY DEF HoldTypeOK
<1>2. budget' \in 0..(SettleBudget + HoldBudget)
  BY <1>1, HoldTypes DEF SettleGap, HoldGap
<1>3. None \in None..Window /\ None \in None..StableFor /\ None \in None..HoldFor
  BY HoldTypes DEF None
<1>4. CASE SettleGap
  BY <1>2, <1>3, <1>4 DEF SettleGap, HoldTypeOK, WatchInv
<1>5. CASE HoldGap
  BY <1>2, <1>3, <1>5 DEF HoldGap, HoldTypeOK, WatchInv
<1> QED
  BY <1>4, <1>5

LEMMA EndHoldKeeps ==
    ASSUME HoldTypeOK, WatchInv, EndHoldStep
    PROVE  HoldTypeOK' /\ WatchInv'
<1>1. CASE EndHoldTimeout
  BY <1>1 DEF EndHoldTimeout, HoldTypeOK, WatchInv
<1> QED
  BY <1>1, SettleSampleKeeps, HoldSampleKeeps, GapKeeps DEF EndHoldStep

-----------------------------------------------------------------------------
(* The inductive invariant of the run.                                     *)
IInv ==
    /\ ExInv
    /\ HoldTypeOK /\ WatchInv
    /\ RunTypeOK /\ MissedInv /\ VerdictInv
    /\ PassIsEarned

LEMMA Initially == Init => IInv
<1> SUFFICES ASSUME Init PROVE IInv
  OBVIOUS
<1>1. ExTypeOK
  <2>1. 0 \in 0..Len(program) /\ 0 \in 0..MaxCorrections /\ 0 \in 0..RestHold
    BY TopTypes, ProgramType DEF Init, ExInit
  <2>2. /\ Unset \in Unset..TopElapsed /\ Unset \in Unset..TopStalled
        /\ Unset \in Unset..RestHold
    BY TopTypes, UnsetType
  <2> QED
    BY <2>1, <2>2 DEF Init, ExInit, ExTypeOK, Phase, Reason
<1>2. RestInv /\ StepInv
  BY DEF Init, ExInit, RestInv, StepInv, Driven
<1>3. HoldTypeOK /\ WatchInv
  <2>1. None \in None..Window /\ None \in None..StableFor /\ None \in None..HoldFor
    BY HoldTypes DEF None
  <2>2. 0 \in 0..HoldFor /\ 0 \in 0..(SettleBudget + HoldBudget)
    BY HoldTypes
  <2> QED
    BY <2>1, <2>2 DEF Init, HoldInit, HoldTypeOK, WatchInv
<1>4. RunTypeOK /\ MissedInv /\ VerdictInv /\ PassIsEarned
  <2>1. 0 \in 0..(ObsLostAbort + 1) /\ 0 <= ObsLostAbort
    BY RunnerAssumption
  <2> QED
    BY <2>1 DEF Init, RunTypeOK, MissedInv, VerdictInv, PassIsEarned, Verdict
<1> QED
  BY <1>1, <1>2, <1>3, <1>4 DEF IInv, ExInv

(* No step of the executor is taken, or none of the hold.                  *)
LEMMA ExUnchanged ==
    ASSUME ExInv, UNCHANGED exVars PROVE ExInv'
BY DEF ExInv, exVars, ExTypeOK, RestInv, StepInv

LEMMA HoldUnchanged ==
    ASSUME HoldTypeOK, WatchInv, UNCHANGED holdVars, fallen' \in BOOLEAN
    PROVE  HoldTypeOK' /\ WatchInv'
BY DEF HoldTypeOK, holdVars, WatchInv

(* Nothing follows the end of a run.                                       *)
LEMMA OnlyBefore ==
    ASSUME IInv, Next PROVE pc # "ended" /\ verdict = "none"
BY DEF IInv, VerdictInv, Next, Runs, Setup, ObsGone, Falls, Poll, Drive,
       FinalIdle, FinalStand, FinalHold, FinalVerdict, StopArrives, Expires

(* Each conjunct of the invariant, over one step.                          *)
LEMMA ExKept ==
    ASSUME IInv, Next PROVE ExInv'
<1>1. ExInv
  BY DEF IInv
<1>2. CASE Setup
  BY <1>1, <1>2, BeginKeeps, ExUnchanged DEF Setup
<1>3. CASE Poll
  <2>1. CASE UNCHANGED exVars
    BY <1>1, <2>1, ExUnchanged
  <2>2. CASE ~UNCHANGED exVars
    BY <1>1, <1>3, <2>2, RequestStopKeeps DEF Poll, StopReason
  <2> QED
    BY <2>1, <2>2
<1>4. CASE Drive
  <2>1. missed + 1 \in Nat \ {0}
    BY RunnerAssumption DEF IInv, RunTypeOK
  <2> QED
    BY <1>1, <1>4, <2>1, TickKeeps DEF Drive
<1>5. CASE ~(Setup \/ Poll \/ Drive)
  <2>1. UNCHANGED exVars
    BY <1>5 DEF Next, Runs, ObsGone, Falls, FinalIdle, FinalStand, FinalHold,
                FinalVerdict, StopArrives, Expires
  <2> QED
    BY <1>1, <2>1, ExUnchanged
<1> QED
  BY <1>2, <1>3, <1>4, <1>5

LEMMA HoldKept ==
    ASSUME IInv, Next PROVE HoldTypeOK' /\ WatchInv'
<1>1. HoldTypeOK /\ WatchInv /\ fallen \in BOOLEAN
  BY DEF IInv, HoldTypeOK
<1>2. CASE FinalHold
  BY <1>1, <1>2, EndHoldKeeps DEF FinalHold
<1>3. CASE FinalStand
  <2>1. CASE UNCHANGED holdVars
    BY <1>1, <1>3, <2>1, HoldUnchanged DEF FinalStand
  <2>2. CASE EndHoldBegins
    <3>1. SettleBudget \in 0..(SettleBudget + HoldBudget)
      BY HoldTypes
    <3> QED
      BY <1>1, <1>3, <2>2, <3>1
         DEF FinalStand, EndHoldBegins, HoldTypeOK, WatchInv
  <2> QED
    BY <1>3, <2>1, <2>2 DEF FinalStand
<1>4. CASE ~(FinalHold \/ FinalStand)
  <2>1. UNCHANGED holdVars /\ fallen' \in BOOLEAN
    BY <1>1, <1>4 DEF Next, Runs, Setup, Raises, ObsGone, Falls, Poll, Drive,
                      FinalIdle, FinalVerdict, StopArrives, Expires
  <2> QED
    BY <1>1, <2>1, HoldUnchanged
<1> QED
  BY <1>2, <1>3, <1>4

LEMMA RunKept ==
    ASSUME IInv, Next PROVE RunTypeOK' /\ MissedInv' /\ VerdictInv'
<1>1. RunTypeOK /\ MissedInv /\ verdict = "none"
  BY OnlyBefore DEF IInv
<1>2. CASE Setup \/ Poll
  BY <1>1, <1>2
     DEF Setup, Raises, Poll, RunTypeOK, MissedInv, VerdictInv, Verdict
<1>3. CASE ObsGone
  <2>1. missed \in 0..(ObsLostAbort + 1) /\ missed <= ObsLostAbort /\ missed' = missed + 1
    BY <1>1, <1>3 DEF ObsGone, RunTypeOK, MissedInv
  <2>2. missed' \in 0..(ObsLostAbort + 1)
    BY <2>1, RunnerAssumption
  <2>3. pc' # "idle" => missed' <= ObsLostAbort
    BY <1>3, <2>2, RunnerAssumption DEF ObsGone, Leaves
  <2> QED
    BY <1>1, <1>3, <2>2, <2>3
       DEF ObsGone, Leaves, RunTypeOK, MissedInv, VerdictInv
<1>4. CASE Falls
  BY <1>1, <1>4 DEF Falls, Leaves, RunTypeOK, MissedInv, VerdictInv
<1>5. CASE Drive
  <2>1. 0 \in 0..(ObsLostAbort + 1) /\ 0 <= ObsLostAbort
    BY RunnerAssumption
  <2> QED
    BY <1>1, <1>5, <2>1
       DEF Drive, Raises, RunTypeOK, MissedInv, VerdictInv, Verdict
<1>6. CASE FinalIdle \/ FinalStand \/ FinalHold
  BY <1>1, <1>6
     DEF FinalIdle, FinalStand, FinalHold, RunTypeOK, MissedInv, VerdictInv
<1>7. CASE FinalVerdict
  BY <1>1, <1>7 DEF FinalVerdict, RunTypeOK, MissedInv, VerdictInv, Verdict
<1>8. CASE StopArrives \/ Expires
  BY <1>1, <1>8 DEF StopArrives, Expires, RunTypeOK, MissedInv, VerdictInv
<1> QED
  BY <1>2, <1>3, <1>4, <1>5, <1>6, <1>7, <1>8 DEF Next, Runs

LEMMA PassKept ==
    ASSUME IInv, Next PROVE PassIsEarned'
<1>1. verdict = "none" /\ WatchInv /\ StepInv
  BY OnlyBefore DEF IInv, ExInv
<1>2. CASE FinalVerdict
  <2> SUFFICES ASSUME verdict' = "PASS"
               PROVE  /\ phase' = "completed" /\ i' = Len(program')
                      /\ ~fallen' /\ shutdown' = "none"
                      /\ stood' /\ watched' = HoldFor
    BY DEF PassIsEarned
  <2>1. ~fallen /\ CleanEnd /\ stood /\ endStage = "verified"
    BY <1>2 DEF FinalVerdict
  <2>2. i = Len(program) /\ watched = HoldFor
    BY <1>1, <2>1 DEF CleanEnd, StepInv, WatchInv
  <2>3. UNCHANGED <<exVars, fallen, holdVars, shutdown, stood>>
    BY <1>2 DEF FinalVerdict
  <2> QED
    BY <2>1, <2>2, <2>3 DEF CleanEnd, exVars, holdVars
<1>3. CASE ~FinalVerdict
  <2>1. verdict' # "PASS"
    BY <1>1, <1>3 DEF Next, Runs, Setup, Raises, ObsGone, Falls, Poll, Drive,
                      FinalIdle, FinalStand, FinalHold, StopArrives, Expires
  <2> QED
    BY <2>1 DEF PassIsEarned
<1> QED
  BY <1>2, <1>3

LEMMA Kept == IInv /\ [Next]_vars => IInv'
<1> SUFFICES ASSUME IInv, [Next]_vars PROVE IInv'
  OBVIOUS
<1>1. CASE Next
  BY <1>1, ExKept, HoldKept, RunKept, PassKept DEF IInv
<1>2. CASE UNCHANGED vars
  <2>1. UNCHANGED exVars /\ UNCHANGED fallen /\ UNCHANGED holdVars /\ UNCHANGED runVars
    BY <1>2 DEF vars
  <2>2. ExInv'
    BY <2>1, ExUnchanged DEF IInv
  <2>3. HoldTypeOK' /\ WatchInv'
    BY <2>1, HoldUnchanged DEF IInv, HoldTypeOK
  <2>4. RunTypeOK' /\ MissedInv' /\ VerdictInv'
    BY <2>1 DEF IInv, runVars, RunTypeOK, MissedInv, VerdictInv
  <2>5. PassIsEarned'
    BY <2>1 DEF IInv, PassIsEarned, runVars, exVars, holdVars
  <2> QED
    BY <2>2, <2>3, <2>4, <2>5 DEF IInv
<1> QED
  BY <1>1, <1>2

THEOREM Invariance == Spec => []IInv
BY Initially, Kept, PTL DEF Spec

-----------------------------------------------------------------------------
(* The variables of executor, hold and runner keep their types.            *)
THEOREM TypeCorrect == Spec => []TypeOK
<1>1. IInv => TypeOK
  BY DEF IInv, ExInv, TypeOK
<1> QED
  BY <1>1, Invariance, PTL

(* The time a gap lasts is never counted as standing.                      *)
THEOREM HoldIsWatched == Spec => []HoldWasWatched
<1>1. IInv => HoldWasWatched
  BY DEF IInv, WatchInv, HoldWasWatched
<1> QED
  BY <1>1, Invariance, PTL

(* A run passes only with all its steps done and a hold that was watched.  *)
THEOREM PassCorrect == Spec => []PassIsEarned
<1>1. IInv => PassIsEarned
  BY DEF IInv
<1> QED
  BY <1>1, Invariance, PTL

-----------------------------------------------------------------------------
(* Where a tick() may lead.                                                *)
LEMMA DoneOnlyAtRest ==
    ASSUME ExInv, NEW dt \in Nat \ {0}, Tick(dt), StepDone
    PROVE  sinceStick' = RestHold
<1>1. ~Anchors
  BY DEF StepDone, Anchors, BeginStep
<1>2. PICK drift \in Drift, advanced \in BOOLEAN :
          Completes(dt, advanced) \/ JogCompletes(dt, advanced)
  BY <1>1 DEF Tick, Watches, StepDone, Trips, Fails, Applies, Moves, Releases,
              Waits, Corrects, Misses, Jogs, StopsJog
<1>3. NoStick(dt) /\ rest # Unset /\ rest + dt >= RestHold
  BY <1>2 DEF Completes, JogCompletes, Rested
<1>4. out = "none" /\ rest <= sinceStick
  BY <1>3 DEF ExInv, RestInv
<1>5. sinceStick' = AtMost(sinceStick + dt, RestHold)
  BY <1>3, <1>4, NoStickType DEF ExInv
<1>6. rest \in Int /\ sinceStick \in Int /\ RestHold \in Int
  BY TopTypes DEF ExInv, ExTypeOK, Unset
<1> QED
  BY <1>3, <1>4, <1>5, <1>6 DEF AtMost

(* No step is called completed while the robot may still be moving from    *)
(* the last stick, however many corrections it took.                       *)
THEOREM CompletedOnlyAtRest == Spec => CompletedAtRest
<1>1. IInv /\ [Next]_vars => [StepDone => sinceStick' = RestHold]_vars
  <2> SUFFICES ASSUME IInv, Next, StepDone PROVE sinceStick' = RestHold
    OBVIOUS
  <2>1. Drive
    BY DEF StepDone, Next, Runs, Setup, Begin, BeginStep, ObsGone, Falls, Poll,
           RequestStop, FinalIdle, FinalStand, FinalHold, FinalVerdict,
           StopArrives, Expires, exVars
  <2>2. missed + 1 \in Nat \ {0}
    BY RunnerAssumption DEF IInv, RunTypeOK
  <2> QED
    BY <2>1, <2>2, DoneOnlyAtRest DEF Drive, IInv
<1> QED
  BY <1>1, Invariance, PTL DEF Spec, CompletedAtRest

-----------------------------------------------------------------------------
(* How a tick() maps to a step of OrderedSteps, or to none.                *)
LEMMA ProgramOrder ==
    ASSUME ExInv
    PROVE  /\ Len(program) \in Nat \ {0}
           /\ i \in 0..Len(program)
           /\ corrections \in 0..MaxCorrections /\ MaxCorrections \in Nat
           /\ i = 0 => phase = "accepted"
BY ProgramType, TopTypes DEF ExInv, ExTypeOK, StepInv

LEMMA BeginOrdered ==
    ASSUME ExInv, Begin \/ Anchors PROVE Order!Drive
<1>1. phase = "accepted" /\ phase' = "applying" /\ program' = program
  BY DEF Begin, Anchors, BeginStep
<1>2. OrderStage = "waiting" /\ OrderStage' = "driving"
  BY <1>1 DEF OrderStage, Driven
<1>3. OrderStep' = OrderStep
  BY ProgramOrder DEF OrderStep, Begin, Anchors, BeginStep
<1>4. OrderBursts' = 1
  BY <1>1 DEF OrderBursts, Begin, Anchors, BeginStep, Over
<1> QED
  BY <1>1, <1>2, <1>3, <1>4 DEF Order!Drive

LEMMA FailOrdered ==
    ASSUME ExInv, phase \notin Over, phase' = "failed", UNCHANGED <<program, i>>
    PROVE  Order!Fail
<1>1. phase \in Phase
  BY DEF ExInv, ExTypeOK
<1>2. OrderStage \notin {"done", "failed"}
  BY <1>1 DEF OrderStage, Over, Driven, Phase
<1>3. OrderStage' = "failed"
  BY DEF OrderStage, Driven
<1> QED
  BY <1>2, <1>3 DEF Order!Fail, OrderStep, OrderBursts, Over

(* A tick() that goes on as before.                                        *)
LEMMA StageStutters ==
    ASSUME UNCHANGED <<program, i, corrections>>, OrderStage' = OrderStage,
           phase \notin Over \cup {"accepted"}, phase' \notin Over \cup {"accepted"}
    PROVE  UNCHANGED <<Len(program), OrderStep, OrderStage, OrderBursts>>
BY DEF OrderStep, OrderBursts

LEMMA ReleaseOrdered ==
    ASSUME UNCHANGED <<program, i, corrections>>, phase \in Driven,
           phase' \in {"settling", "jog_stopping"}
    PROVE  Order!Release
<1>1. OrderStage = "driving" /\ OrderStage' = "resting"
  BY DEF OrderStage, Driven
<1> QED
  BY <1>1 DEF Order!Release, OrderStep, OrderBursts, Over, Driven

LEMMA CorrectOrdered ==
    ASSUME ExInv, NEW dt \in Nat \ {0}, Corrects(dt) PROVE Order!DriveAgain
<1>1. phase = "settling" /\ phase' = "applying" /\ UNCHANGED <<program, i>>
  BY DEF Corrects
<1>2. OrderStage = "resting" /\ OrderStage' = "driving"
  BY <1>1 DEF OrderStage, Driven
<1>3. OrderBursts = corrections + 1 /\ OrderBursts' = corrections' + 1
  BY <1>1 DEF OrderBursts, Over
<1>4. corrections < MaxCorrections /\ corrections' = corrections + 1
  BY DEF Corrects
<1>5. OrderBursts < MaxCorrections + 1 /\ OrderBursts' = OrderBursts + 1
  BY <1>3, <1>4, ProgramOrder
<1> QED
  BY <1>1, <1>2, <1>5 DEF Order!DriveAgain, OrderStep

LEMMA CompleteOrdered ==
    ASSUME ExInv, NEW dt \in Nat \ {0}, NEW advanced \in BOOLEAN,
           Completes(dt, advanced) \/ JogCompletes(dt, advanced)
    PROVE  Order!NextStep \/ Order!Finish
<1>1. /\ phase \in {"settling", "jog_stopping"} /\ program' = program /\ i # 0
  BY DEF Completes, JogCompletes, ExInv, StepInv
<1>2. OrderStage = "resting" /\ OrderStep = i
  BY <1>1 DEF OrderStage, OrderStep, Driven
<1>3. CASE phase' = "completed" /\ i' = i /\ i = Len(program)
  <2>1. OrderStage' = "done" /\ OrderBursts' = 0 /\ OrderStep' = OrderStep
    BY <1>3 DEF OrderStage, OrderBursts, OrderStep, Over, Driven
  <2> QED
    BY <1>1, <1>2, <1>3, <2>1 DEF Order!Finish
<1>4. CASE phase' = "accepted" /\ i' = i + 1 /\ i # Len(program)
  <2>1. OrderStage' = "waiting" /\ OrderBursts' = 0
    BY <1>4 DEF OrderStage, OrderBursts
  <2>2. OrderStep' = OrderStep + 1 /\ OrderStep < Len(program)
    BY <1>1, <1>2, <1>4, ProgramOrder DEF OrderStep
  <2> QED
    BY <1>1, <1>2, <2>1, <2>2 DEF Order!NextStep
<1> QED
  BY <1>3, <1>4 DEF Completes, JogCompletes, LastStep, ExInv, StepInv

LEMMA TickOrdered ==
    ASSUME ExInv, NEW dt \in Nat \ {0}, Tick(dt)
    PROVE  [Order!Next]_<<Len(program), OrderStep, OrderStage, OrderBursts>>
<1>1. CASE Anchors
  BY <1>1, BeginOrdered DEF Order!Next
<1>2. CASE phase \notin Over \cup {"accepted"} /\ Watches(dt)
  <2>1. PICK drift \in Drift, advanced \in BOOLEAN :
            \/ Trips(dt, drift, advanced)
            \/ Applies(dt, advanced) \/ Moves(dt, advanced)
            \/ Releases(dt, advanced) \/ Waits(dt, advanced)
            \/ Corrects(dt) \/ Misses(dt, advanced) \/ Completes(dt, advanced)
            \/ \E near \in BOOLEAN :
                  Jogs(dt, advanced, near) \/ StopsJog(dt, advanced, near)
            \/ JogCompletes(dt, advanced)
    BY <1>2 DEF Watches
  <2>2. CASE Trips(dt, drift, advanced) \/ Misses(dt, advanced)
    <3>1. phase' = "failed" /\ UNCHANGED <<program, i>>
      BY <2>2 DEF Trips, Misses, Fails
    <3> QED
      BY <1>2, <3>1, FailOrdered DEF Order!Next
  <2>3. CASE Applies(dt, advanced) \/ Waits(dt, advanced)
    <3>1. UNCHANGED <<program, i, corrections, phase>>
      BY <2>3 DEF Applies, Waits
    <3>2. OrderStage' = OrderStage
      BY <3>1 DEF OrderStage
    <3> QED
      BY <1>2, <3>1, <3>2, StageStutters
  <2>4. CASE Moves(dt, advanced) \/ \E near \in BOOLEAN : Jogs(dt, advanced, near)
    <3>1. /\ UNCHANGED <<program, i, corrections>>
          /\ phase \in Driven /\ phase' \in {"moving", "turning", "jogging"}
      BY <2>4 DEF Moves, Jogs, Applied, Driven
    <3>2. OrderStage' = OrderStage
      BY <3>1 DEF OrderStage, Driven
    <3>3. phase' \notin Over \cup {"accepted"}
      BY <3>1 DEF Over
    <3> QED
      BY <1>2, <3>1, <3>2, <3>3, StageStutters
  <2>5. CASE Releases(dt, advanced) \/ \E near \in BOOLEAN : StopsJog(dt, advanced, near)
    <3>1. /\ UNCHANGED <<program, i, corrections>>
          /\ phase \in Driven /\ phase' \in {"settling", "jog_stopping"}
      BY <2>5 DEF Releases, StopsJog, Applied, Driven
    <3> QED
      BY <3>1, ReleaseOrdered DEF Order!Next
  <2>6. CASE Corrects(dt)
    BY <2>6, CorrectOrdered DEF Order!Next
  <2>7. CASE Completes(dt, advanced) \/ JogCompletes(dt, advanced)
    BY <2>7, CompleteOrdered DEF Order!Next
  <2> QED
    BY <2>1, <2>2, <2>3, <2>4, <2>5, <2>6, <2>7
<1> QED
  BY <1>1, <1>2 DEF Tick

(* Every step of the run drives the steps of its plan in order, in bounded *)
(* bursts, with a rest after each, or leaves them alone.                   *)
THEOREM StepsInOrder == Spec => ImplementsOrder
<1>1. Init => Order!Init
  <2> SUFFICES ASSUME Init PROVE Order!Init
    OBVIOUS
  <2>1. program \in Programs /\ i = 0 /\ phase = "accepted"
    BY DEF Init, ExInit
  <2> QED
    BY <2>1, ProgramType DEF Order!Init, OrderStep, OrderStage, OrderBursts
<1>2. IInv /\ [Next]_vars => [Order!Next]_(Order!orderVars)
  <2> SUFFICES ASSUME IInv, [Next]_vars
               PROVE  [Order!Next]_<<Len(program), OrderStep, OrderStage, OrderBursts>>
    BY DEF Order!orderVars
  <2>1. CASE UNCHANGED exVars
    BY <2>1 DEF exVars, OrderStep, OrderStage, OrderBursts
  <2>2. CASE Setup /\ Begin
    BY <2>2, BeginOrdered DEF IInv, Order!Next
  <2>3. CASE Poll
    <3>1. UNCHANGED <<program, i, phase, corrections>>
      BY <2>3 DEF Poll, RequestStop, exVars
    <3> QED
      BY <3>1 DEF OrderStep, OrderStage, OrderBursts
  <2>4. CASE Drive
    <3>1. missed + 1 \in Nat \ {0}
      BY RunnerAssumption DEF IInv, RunTypeOK
    <3> QED
      BY <2>4, <3>1, TickOrdered DEF Drive, IInv
  <2>5. ~(UNCHANGED exVars) => (Setup /\ Begin) \/ Poll \/ Drive
    BY DEF Next, Runs, Setup, ObsGone, Falls, FinalIdle, FinalStand, FinalHold,
           FinalVerdict, StopArrives, Expires, vars
  <2> QED
    BY <2>1, <2>2, <2>3, <2>4, <2>5
<1> QED
  BY <1>1, <1>2, Invariance, PTL DEF Spec, ImplementsOrder, Order!Spec
=============================================================================
