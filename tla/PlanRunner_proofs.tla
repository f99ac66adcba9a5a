--------------------------- MODULE PlanRunner_proofs ---------------------------
(***************************************************************************)
(* What PlanRunner guarantees for every hold, timeout and number of        *)
(* corrections, checked by TLAPS.                                          *)
(***************************************************************************)
EXTENDS PlanRunner, TLAPS

-----------------------------------------------------------------------------
(* Where a packet comes from.  A state and a clock of one tick are of the  *)
(* boot that is up, and the clock is of the boot the observer is pinned to.*)
SentInv ==
    /\ stateOf # NoBoot /\ publishing # NoBoot => stateOf = publishing
    /\ clockOf # NoBoot /\ publishing # NoBoot => clockOf = publishing
    /\ clockOf # NoBoot => clockOf = pin
    /\ Latest => pin \in Boots /\ boundOf[1] = pin /\ boundOf[2] = pin

ObsInv == ObsTypeOK /\ SentInv

(* The runner goes past its boot check only for the approved boot.         *)
BootInv ==
    /\ expect = 1 => pin = 1
    /\ pc \notin {"bind", "ended"} => expect = 1
    /\ ~strange

(* The time the ready gate has counted is the time the robot was seen to   *)
(* stand.                                                                  *)
ReadyInv ==
    /\ pc = "bind" => okFor = None /\ stood = 0
    /\ pc = "ready" => okFor < ReadyHold /\ stood = okFor + 1
    /\ pc \notin {"bind", "ready", "ended"} => stood = ReadyHold + 1

(* The tail is watched after the robot was put to stand, and a bad sample  *)
(* of it is remembered.                                                    *)
TailInv ==
    /\ pc \in {"settle", "tail", "final"} => frame = "stand"
    /\ pc = "final" => held = TailHold
    /\ pc \notin {"tail", "final", "ended"} => sound
    /\ pc \in {"tail", "final"} => sound \/ ~tailOk

VerdictInv == verdict # "none" => pc = "ended"

RunInv == BootInv /\ ReadyInv /\ TailInv /\ VerdictInv /\ PlanPassIsEarned

IInv == ObsInv /\ RunnerTypeOK /\ RunInv

-----------------------------------------------------------------------------
LEMMA LeastType ==
    ASSUME NEW top \in Nat, NEW n \in Nat
    PROVE  Least(n, top) \in 0..top /\ (n >= top => Least(n, top) = top)
BY DEF Least

LEMMA LimitTypes ==
    /\ MaxAge \in Nat /\ TailHold \in Nat \ {0} /\ ReadyHold \in Nat
    /\ StillConfirm \in Nat /\ DecelTimeout \in Nat /\ MaxCorrections \in Nat
BY ObservationAssumption, PlanAssumption

(* A pair that is bound, when it is the boot that is up that sent it.      *)
LEMMA BindKeeps ==
    ASSUME ObsInv, NEW b \in Boots, NEW n \in Nat,
           Bind(b, b, n), pin' = b, publishing' = publishing
    PROVE  /\ ahead' \in 0..TailHold /\ held' \in 0..TailHold
           /\ boundAge' \in 0..(MaxAge + 1)
           /\ boundOf' \in (Boots \cup {NoBoot}) \X (Boots \cup {NoBoot})
           /\ boundOf'[1] = b /\ boundOf'[2] = b
           /\ held = TailHold => held' = TailHold
<1>1. held \in Nat /\ held + n \in Nat
  BY LimitTypes DEF ObsInv, ObsTypeOK
<1>2. held' \in 0..TailHold /\ (held = TailHold => held' = TailHold)
  BY <1>1, LeastType, LimitTypes DEF Bind
<1> QED
  BY <1>2, LimitTypes DEF Bind

LEMMA OnStateKeeps ==
    ASSUME ObsInv, OnState
    PROVE  ObsInv' /\ pin' = pin /\ (held = TailHold => held' = TailHold)
<1>1. /\ publishing \in Boots /\ stateOf' = publishing
      /\ publishing' = publishing /\ pin' = pin /\ clockOf' = clockOf
  BY DEF OnState, ObsInv, ObsTypeOK
<1>2. CASE clockOf = NoBoot
  BY <1>1, <1>2 DEF OnState, ObsInv, ObsTypeOK, SentInv, Latest
<1>3. CASE clockOf # NoBoot
  <2>1. clockOf = publishing /\ pin = publishing /\ Bind(publishing, publishing, ahead)
    BY <1>1, <1>3 DEF OnState, ObsInv, SentInv, Boots, NoBoot
  <2>2. ahead \in Nat
    BY DEF ObsInv, ObsTypeOK
  <2>3. /\ ahead' \in 0..TailHold /\ held' \in 0..TailHold
        /\ boundAge' \in 0..(MaxAge + 1)
        /\ boundOf' \in (Boots \cup {NoBoot}) \X (Boots \cup {NoBoot})
        /\ boundOf'[1] = publishing /\ boundOf'[2] = publishing
        /\ held = TailHold => held' = TailHold
    BY <1>1, <2>1, <2>2, BindKeeps
  <2>4. ObsTypeOK'
    BY <1>1, <2>3 DEF ObsInv, ObsTypeOK
  <2>5. SentInv'
    BY <1>1, <2>1, <2>3 DEF SentInv
  <2> QED
    BY <1>1, <2>3, <2>4, <2>5 DEF ObsInv
<1> QED
  BY <1>2, <1>3

LEMMA OnClockKeeps ==
    ASSUME ObsInv, OnClock
    PROVE  ObsInv' /\ (pin # NoBoot => pin' = pin) /\ (held = TailHold => held' = TailHold)
<1>1. PICK b \in Boots, kind \in {"new", "late", "frozen"} :
        /\ Arrives(b, kind) /\ Accepts(b, kind) /\ clockOf = NoBoot
        /\ pin' = b /\ clockOf' = b
        /\ IF stateOf = NoBoot
           THEN /\ ahead' = Least(ahead + 1, TailHold)
                /\ UNCHANGED <<boundAge, boundOf, held>>
           ELSE Bind(stateOf, b, ahead + 1)
        /\ UNCHANGED <<publishing, stateOf>>
  BY DEF OnClock
<1>2. b = publishing /\ pin \in {NoBoot, b}
  BY <1>1 DEF Accepts, Arrives
<1>3. ahead + 1 \in Nat
  BY DEF ObsInv, ObsTypeOK
<1>4. CASE stateOf = NoBoot
  <2>1. ahead' \in 0..TailHold
    BY <1>1, <1>3, <1>4, LeastType, LimitTypes
  <2>2. ObsTypeOK'
    BY <1>1, <1>4, <2>1 DEF ObsInv, ObsTypeOK
  <2>3. SentInv'
    BY <1>1, <1>2, <1>4 DEF ObsInv, SentInv, Latest, Boots, NoBoot
  <2> QED
    BY <1>1, <1>2, <1>4, <2>2, <2>3 DEF ObsInv
<1>5. CASE stateOf # NoBoot
  <2>1. stateOf = b /\ Bind(b, b, ahead + 1)
    BY <1>1, <1>2, <1>5 DEF ObsInv, SentInv, Boots, NoBoot
  <2>2. /\ ahead' \in 0..TailHold /\ held' \in 0..TailHold
        /\ boundAge' \in 0..(MaxAge + 1)
        /\ boundOf' \in (Boots \cup {NoBoot}) \X (Boots \cup {NoBoot})
        /\ boundOf'[1] = b /\ boundOf'[2] = b
        /\ held = TailHold => held' = TailHold
    BY <1>1, <1>3, <2>1, BindKeeps
  <2>3. ObsTypeOK'
    BY <1>1, <2>2 DEF ObsInv, ObsTypeOK
  <2>4. SentInv'
    BY <1>1, <1>2, <2>1, <2>2 DEF SentInv
  <2> QED
    BY <1>2, <1>1, <2>2, <2>3, <2>4 DEF ObsInv
<1> QED
  BY <1>4, <1>5

LEMMA ObsKeeps ==
    ASSUME ObsInv, ObsSteps
    PROVE  ObsInv' /\ (pin # NoBoot => pin' = pin) /\ (held = TailHold => held' = TailHold)
<1>1. CASE SimGoes
  BY <1>1 DEF SimGoes, ObsInv, ObsTypeOK, SentInv, Latest
<1>2. CASE NextSimComes
  BY <1>2 DEF NextSimComes, ObsInv, ObsTypeOK, SentInv, Latest, Boots
<1> QED
  BY <1>1, <1>2, OnStateKeeps, OnClockKeeps DEF ObsSteps

LEMMA AgesKeeps ==
    ASSUME ObsInv, NEW long \in BOOLEAN, ObsAges(long), held' \in 0..TailHold
    PROVE  ObsInv' /\ pin' = pin
<1>1. boundAge' \in 0..(MaxAge + 1) /\ (boundAge' <= MaxAge => boundAge <= MaxAge)
  <2>1. CASE long
    BY <2>1, LimitTypes DEF ObsAges
  <2>2. CASE ~long
    BY <2>2, LimitTypes DEF ObsAges, Least, ObsInv, ObsTypeOK
  <2> QED
    BY <2>1, <2>2
<1>2. ObsTypeOK'
  BY <1>1 DEF ObsAges, ObsInv, ObsTypeOK
<1>3. SentInv'
  BY <1>1 DEF ObsAges, ObsInv, SentInv, Latest
<1> QED
  BY <1>2, <1>3 DEF ObsInv, ObsAges

-----------------------------------------------------------------------------
(* What a runner reads after its boot check is of the approved boot.       *)
LEMMA NotStrange ==
    ASSUME ObsInv, BootInv, pc \notin {"bind", "ended"}, ReadsPose
    PROVE  ~strange'
<1>1. boundOf[1] = 1 /\ boundOf[2] = 1
  BY DEF ObsInv, SentInv, BootInv, ReadsPose
<1>2. boundOf = <<1, 1>>
  BY <1>1 DEF ObsInv, ObsTypeOK
<1> QED
  BY <1>2 DEF ReadsPose, BootInv

LEMMA SoundType ==
    ASSUME RunnerTypeOK, NEW s \in Sample, Reads(s)
    PROVE  sound' \in BOOLEAN /\ (s.posture # "fallen" /\ pc # "tail" /\ sound => sound')
BY DEF RunnerTypeOK, Reads

-----------------------------------------------------------------------------
(* The actions, one lemma for each.                                        *)
LEMMA BindBootKeeps ==
    ASSUME IInv, BindBoot
    PROVE  IInv'
<1>1. ObsInv' /\ pin' = pin
  BY AgesKeeps DEF BindBoot, IInv, ObsInv, ObsTypeOK
<1>2. RunnerTypeOK'
  BY DEF BindBoot, Raise, IInv, RunnerTypeOK, seenVars
<1>3. CASE Raise
  <2>1. BootInv'
    BY <1>1, <1>3 DEF BindBoot, Raise, seenVars, IInv, RunInv, BootInv
  <2>2. ReadyInv' /\ TailInv'
    BY <1>3 DEF Raise, ReadyInv, TailInv
  <2>3. VerdictInv' /\ PlanPassIsEarned'
    BY <1>3 DEF Raise, VerdictInv, PlanPassIsEarned
  <2> QED
    BY <1>1, <1>2, <2>1, <2>2, <2>3 DEF IInv, RunInv
<1>4. CASE boundOf[2] = expect /\ pc' = "ready"
           /\ UNCHANGED <<expect, okFor, triggered, stillFor, decelFor, prevErr, corrections,
                          tailOk, frame, expired, verdict>>
  <2>1. expect = 1
    BY <1>4 DEF BindBoot, IInv, ObsInv, SentInv, RunnerTypeOK, Boots, NoBoot
  <2>2. BootInv'
    BY <1>1, <1>4, <2>1 DEF BindBoot, seenVars, IInv, RunInv, BootInv
  <2>3. ReadyInv'
    BY <1>4, LimitTypes DEF BindBoot, seenVars, IInv, RunInv, ReadyInv, None
  <2>4. TailInv' /\ VerdictInv' /\ PlanPassIsEarned'
    BY <1>4 DEF BindBoot, seenVars, IInv, RunInv, TailInv, VerdictInv, PlanPassIsEarned
  <2> QED
    BY <1>1, <1>2, <2>2, <2>3, <2>4 DEF IInv, RunInv
<1> QED
  BY <1>3, <1>4 DEF BindBoot

LEMMA ReadyPassKeeps ==
    ASSUME IInv, NEW s \in Sample, ReadyPass(s)
    PROVE  IInv'
<1>1. ObsInv' /\ pin' = pin
  BY AgesKeeps DEF ReadyPass, IInv, ObsInv, ObsTypeOK
<1>2. ~strange'
  BY NotStrange DEF ReadyPass, Reads, IInv, RunInv
<1>3. sound' \in BOOLEAN /\ sound'
  BY SoundType DEF ReadyPass, IInv, RunInv, TailInv
<1>4. /\ okFor' \in None..ReadyHold /\ stood' \in 0..(ReadyHold + 1)
      /\ stood' = okFor' + 1
  <2>1. okFor < ReadyHold /\ stood = okFor + 1 /\ okFor \in -1..ReadyHold
    BY DEF ReadyPass, IInv, RunInv, ReadyInv, RunnerTypeOK, None
  <2>2. CASE AtRest(s)
    BY <2>1, <2>2, LimitTypes DEF ReadyPass, ReadyFor, Least, None
  <2>3. CASE ~AtRest(s)
    BY <2>1, <2>3, LimitTypes DEF ReadyPass, ReadyFor, None
  <2> QED
    BY <2>2, <2>3
<1>5. RunnerTypeOK'
  <2>1. strange' \in BOOLEAN
    BY DEF ReadyPass, Reads, ReadsPose, IInv, RunnerTypeOK
  <2>2. pc' \in {"ready", "head"}
    BY DEF ReadyPass
  <2> QED
    BY <1>3, <1>4, <2>1, <2>2 DEF ReadyPass, IInv, RunnerTypeOK
<1>6. BootInv'
  BY <1>1, <1>2 DEF ReadyPass, IInv, RunInv, BootInv
<1>7. ReadyInv'
  BY <1>4, LimitTypes DEF ReadyPass, ReadyInv, None
<1>8. TailInv' /\ VerdictInv' /\ PlanPassIsEarned'
  BY <1>3 DEF ReadyPass, IInv, RunInv, TailInv, VerdictInv, PlanPassIsEarned
<1> QED
  BY <1>1, <1>5, <1>6, <1>7, <1>8 DEF IInv, RunInv

(* The actions that read no posture.                                       *)
LEMMA SendsKeep ==
    ASSUME IInv, Head \/ Burst \/ Release \/ Stand
    PROVE  IInv'
<1>1. ObsInv' /\ pin' = pin
  BY AgesKeeps DEF Head, Burst, Release, Stand, IInv, ObsInv, ObsTypeOK
<1>2. ~strange'
  BY NotStrange DEF Head, Burst, Release, Stand, seenVars, IInv, RunInv, BootInv
<1>3. strange' \in BOOLEAN
  BY DEF Head, Burst, Release, Stand, seenVars, ReadsPose, IInv, RunnerTypeOK
<1>4. RunnerTypeOK'
  <2>1. CASE Head
    BY <1>3, <2>1 DEF Head, IInv, RunnerTypeOK
  <2>2. CASE Burst
    BY <2>2 DEF Burst, seenVars, IInv, RunnerTypeOK
  <2>3. CASE Release
    BY <2>3, LimitTypes DEF Release, seenVars, IInv, RunnerTypeOK
  <2>4. CASE Stand
    BY <2>4 DEF Stand, seenVars, IInv, RunnerTypeOK
  <2> QED
    BY <2>1, <2>2, <2>3, <2>4
<1>5. BootInv'
  BY <1>1, <1>2 DEF Head, Burst, Release, Stand, IInv, RunInv, BootInv
<1>6. ReadyInv'
  BY DEF Head, Burst, Release, Stand, seenVars, IInv, RunInv, ReadyInv
<1>7. TailInv' /\ VerdictInv' /\ PlanPassIsEarned'
  BY DEF Head, Burst, Release, Stand, seenVars, IInv, RunInv, TailInv, VerdictInv,
         PlanPassIsEarned
<1> QED
  BY <1>1, <1>4, <1>5, <1>6, <1>7 DEF IInv, RunInv

LEMMA PassesKeep ==
    ASSUME IInv, NEW s \in Sample, Passes(s)
    PROVE  /\ ObsInv' /\ pin' = pin
           /\ ~strange' /\ strange' \in BOOLEAN /\ sound' \in BOOLEAN /\ sound'
           /\ pc = "loop" /\ UNCHANGED <<held, expect, okFor, fallen, tailOk, expired, stood>>
<1>1. ObsInv' /\ pin' = pin
  BY AgesKeeps DEF Passes, IInv, ObsInv, ObsTypeOK
<1>2. ~strange' /\ strange' \in BOOLEAN
  BY NotStrange DEF Passes, Reads, ReadsPose, IInv, RunInv
<1>3. sound' \in BOOLEAN /\ sound'
  BY SoundType DEF Passes, IInv, RunInv, TailInv
<1> QED
  BY <1>1, <1>2, <1>3 DEF Passes

(* A pass of the loop that leaves it for nothing but a burst, the stand or *)
(* the end keeps what the run rests on.                                    *)
LEMMA LoopKeeps ==
    ASSUME IInv, NEW s \in Sample, Passes(s), RunnerTypeOK',
           pc' \in {"loop", "burst", "stand", "ended"},
           verdict' = verdict \/ (verdict' = "FAIL_RAISED" /\ pc' = "ended")
    PROVE  IInv'
<1>1. /\ ObsInv' /\ pin' = pin /\ ~strange' /\ sound' /\ pc = "loop"
      /\ UNCHANGED <<held, expect, okFor, fallen, tailOk, expired, stood>>
  BY PassesKeep
<1>2. BootInv' /\ ReadyInv'
  BY <1>1 DEF IInv, RunInv, BootInv, ReadyInv
<1>3. TailInv' /\ VerdictInv' /\ PlanPassIsEarned'
  BY <1>1 DEF IInv, RunInv, TailInv, VerdictInv, PlanPassIsEarned
<1> QED
  BY <1>1, <1>2, <1>3 DEF IInv, RunInv

LEMMA WalkKeeps ==
    ASSUME IInv, NEW s \in Sample, Stick(s) \/ Trigger(s)
    PROVE  IInv'
<1>1. Passes(s)
  BY DEF Stick, Trigger
<1>2. RunnerTypeOK'
  <2>1. /\ ~strange' /\ strange' \in BOOLEAN /\ sound' \in BOOLEAN
        /\ UNCHANGED <<expect, okFor, fallen, tailOk, expired, stood>>
    BY <1>1, PassesKeep
  <2>2. CASE Stick(s)
    BY <2>1, <2>2 DEF Stick, IInv, RunnerTypeOK
  <2>3. CASE Trigger(s)
    BY <2>1, <2>3, LimitTypes DEF Trigger, IInv, RunnerTypeOK
  <2> QED
    BY <2>2, <2>3
<1>3. pc' = "loop" /\ verdict' = verdict
  BY DEF Stick, Trigger, Passes
<1> QED
  BY <1>1, <1>2, <1>3, LoopKeeps

LEMMA DeceleratesKeeps ==
    ASSUME IInv, NEW s \in Sample, Decelerates(s)
    PROVE  IInv'
<1>1. Passes(s)
  BY DEF Decelerates
<1>2. stillFor' \in None..StillConfirm
  BY LeastType, LimitTypes DEF Decelerates, StillAfter, Least, IInv, RunnerTypeOK, None
<1>3. prevErr' \in None..2 /\ corrections' \in 0..MaxCorrections
  BY LimitTypes DEF Decelerates, CanCorrect, Sample, IInv, RunnerTypeOK, None
<1>4. decelFor' \in 0..DecelTimeout
  BY LimitTypes DEF Decelerates, IInv, RunnerTypeOK
<1>5. /\ pc' \in {"loop", "burst", "stand", "ended"}
      /\ verdict' = verdict \/ (verdict' = "FAIL_RAISED" /\ pc' = "ended")
  BY DEF Decelerates, Passes
<1>6. RunnerTypeOK'
  <2>1. /\ ~strange' /\ strange' \in BOOLEAN /\ sound' \in BOOLEAN
        /\ UNCHANGED <<expect, okFor, fallen, tailOk, expired, stood>>
    BY <1>1, PassesKeep
  <2>2. frame' = "idle" /\ triggered' = triggered
    BY DEF Decelerates
  <2> QED
    BY <1>2, <1>3, <1>4, <1>5, <2>1, <2>2 DEF IInv, RunnerTypeOK
<1> QED
  BY <1>1, <1>5, <1>6, LoopKeeps

-----------------------------------------------------------------------------
LEMMA SettleKeeps ==
    ASSUME IInv, Settle
    PROVE  IInv'
<1>1. ObsInv' /\ pin' = pin
  <2>1. held' \in 0..TailHold
    BY LimitTypes DEF Settle
  <2> QED
    BY <2>1, AgesKeeps DEF Settle, IInv
<1>2. ~strange' /\ strange' \in BOOLEAN
  BY NotStrange DEF Settle, ReadsPose, IInv, RunInv
<1>3. RunnerTypeOK'
  BY <1>2 DEF Settle, IInv, RunnerTypeOK
<1>4. BootInv' /\ ReadyInv'
  BY <1>1, <1>2 DEF Settle, IInv, RunInv, BootInv, ReadyInv
<1>5. TailInv' /\ VerdictInv' /\ PlanPassIsEarned'
  BY DEF Settle, IInv, RunInv, TailInv, VerdictInv, PlanPassIsEarned
<1> QED
  BY <1>1, <1>3, <1>4, <1>5 DEF IInv, RunInv

(* A bad sample of the tail spoils it.                                     *)
LEMMA TailPassKeeps ==
    ASSUME IInv, NEW s \in Sample, TailPass(s)
    PROVE  IInv'
<1>1. ObsInv' /\ pin' = pin
  BY AgesKeeps DEF TailPass, IInv, ObsInv, ObsTypeOK
<1>2. ~strange' /\ strange' \in BOOLEAN
  BY NotStrange DEF TailPass, Reads, ReadsPose, IInv, RunInv
<1>3. sound' \in BOOLEAN /\ fallen' \in BOOLEAN
  BY DEF TailPass, Reads, IInv, RunnerTypeOK
<1>4. tailOk' \in BOOLEAN
  BY DEF TailPass, TailAfter, IInv, RunnerTypeOK
<1>5. RunnerTypeOK'
  BY <1>2, <1>3, <1>4 DEF TailPass, IInv, RunnerTypeOK
<1>6. sound' \/ ~tailOk'
  <2>1. CASE sound'
    BY <2>1
  <2>2. CASE ~sound /\ s.posture # "fallen" /\ s.speed # 2
    <3>1. ~tailOk
      BY <2>2 DEF TailPass, IInv, RunInv, TailInv
    <3> QED
      BY <3>1 DEF TailPass, TailAfter
  <2>3. CASE s.posture = "fallen" \/ s.speed = 2
    BY <2>3 DEF TailPass, TailAfter
  <2> QED
    BY <2>1, <2>2, <2>3 DEF TailPass, Reads
<1>7. BootInv' /\ ReadyInv'
  BY <1>1, <1>2 DEF TailPass, IInv, RunInv, BootInv, ReadyInv
<1>8. TailInv' /\ VerdictInv' /\ PlanPassIsEarned'
  BY <1>6 DEF TailPass, IInv, RunInv, TailInv, VerdictInv, PlanPassIsEarned
<1> QED
  BY <1>1, <1>5, <1>7, <1>8 DEF IInv, RunInv

LEMMA ScoreKeeps ==
    ASSUME IInv, NEW s \in Sample, Score(s)
    PROVE  IInv'
<1>1. ObsInv' /\ pin' = pin
  BY AgesKeeps DEF Score, IInv, ObsInv, ObsTypeOK
<1>2. ~strange' /\ strange' \in BOOLEAN
  BY NotStrange DEF Score, Reads, ReadsPose, IInv, RunInv
<1>3. sound' \in BOOLEAN
  BY DEF Score, Reads, IInv, RunnerTypeOK
<1>4. RunnerTypeOK'
  BY <1>2, <1>3 DEF Score, IInv, RunnerTypeOK
<1>5. BootInv' /\ ReadyInv' /\ TailInv' /\ VerdictInv'
  BY <1>1, <1>2 DEF Score, IInv, RunInv, BootInv, ReadyInv, TailInv, VerdictInv
<1>6. ASSUME verdict' = "PASS"
      PROVE  stood' = ReadyHold + 1 /\ frame' = "stand" /\ held' = TailHold /\ sound'
  <2>1. tailOk /\ s.posture # "fallen"
    BY <1>6 DEF Score, AtRest
  <2>2. sound
    BY <2>1 DEF Score, IInv, RunInv, TailInv
  <2> QED
    BY <2>1, <2>2 DEF Score, Reads, IInv, RunInv, ReadyInv, TailInv
<1>7. PlanPassIsEarned'
  BY <1>2, <1>6 DEF PlanPassIsEarned
<1> QED
  BY <1>1, <1>4, <1>5, <1>7 DEF IInv, RunInv

LEMMA RaisesKeep ==
    ASSUME IInv, RunnerRaises \/ FallSeen
    PROVE  IInv'
<1>1. /\ Raise /\ ObsAges(FALSE) /\ held' = held /\ stood' = stood
      /\ pc # "ended"
  BY DEF RunnerRaises, FallSeen, ReadFails, SendFails, TimesOut, seenVars
<1>2. ObsInv' /\ pin' = pin
  BY <1>1, AgesKeeps DEF IInv, ObsInv, ObsTypeOK
<1>3. ~strange' /\ strange' \in BOOLEAN
  <2>1. CASE RunnerRaises
    BY <2>1 DEF RunnerRaises, seenVars, IInv, RunInv, BootInv, RunnerTypeOK
  <2>2. CASE FallSeen
    <3>1. pc \in {"ready", "loop"} /\ ReadsPose
      BY <2>2 DEF FallSeen, Reads
    <3> QED
      BY <3>1, NotStrange DEF ReadsPose, IInv, RunInv
  <2> QED
    BY <2>1, <2>2
<1>4. sound' \in BOOLEAN
  BY DEF RunnerRaises, FallSeen, Reads, seenVars, IInv, RunnerTypeOK
<1>5. fallen' \in BOOLEAN
  BY DEF RunnerRaises, FallSeen, IInv, RunnerTypeOK
<1>6. RunnerTypeOK'
  BY <1>1, <1>3, <1>4, <1>5 DEF Raise, IInv, RunnerTypeOK
<1>7. BootInv'
  BY <1>1, <1>2, <1>3 DEF Raise, IInv, RunInv, BootInv
<1>8. ReadyInv' /\ TailInv'
  BY <1>1 DEF Raise, ReadyInv, TailInv
<1>9. VerdictInv' /\ PlanPassIsEarned'
  BY <1>1 DEF Raise, VerdictInv, PlanPassIsEarned
<1> QED
  BY <1>2, <1>6, <1>7, <1>8, <1>9 DEF IInv, RunInv

(* What goes on beside the runner: packets, the simulator, the expiry.     *)
LEMMA RestKeeps ==
    ASSUME IInv, BindWaits \/ ObserverSteps \/ Expires
    PROVE  IInv'
<1>1. CASE BindWaits
  <2>1. ObsInv' /\ pin' = pin
    BY <1>1, AgesKeeps DEF BindWaits, IInv, ObsInv, ObsTypeOK
  <2>2. RunnerTypeOK'
    BY <1>1 DEF BindWaits, runnerVars, seenVars, IInv, RunnerTypeOK
  <2>3. RunInv'
    BY <1>1, <2>1 DEF BindWaits, runnerVars, seenVars, IInv, RunInv, BootInv, ReadyInv,
                      TailInv, VerdictInv, PlanPassIsEarned
  <2> QED
    BY <2>1, <2>2, <2>3 DEF IInv
<1>2. CASE ObserverSteps
  <2>1. ObsInv' /\ (pin # NoBoot => pin' = pin) /\ (held = TailHold => held' = TailHold)
    BY <1>2, ObsKeeps DEF ObserverSteps, IInv
  <2>2. RunnerTypeOK'
    BY <1>2 DEF ObserverSteps, runnerVars, seenVars, IInv, RunnerTypeOK
  <2>3. RunInv'
    BY <1>2, <2>1 DEF ObserverSteps, runnerVars, seenVars, IInv, RunInv, BootInv, ReadyInv,
                      TailInv, VerdictInv, PlanPassIsEarned, NoBoot
  <2> QED
    BY <2>1, <2>2, <2>3 DEF IInv
<1>3. CASE Expires
  <2>1. ObsInv' /\ UNCHANGED obsVars
    BY <1>3 DEF Expires, obsVars, IInv, ObsInv, ObsTypeOK, SentInv, Latest
  <2>2. RunnerTypeOK'
    BY <1>3 DEF Expires, seenVars, IInv, RunnerTypeOK
  <2>3. RunInv'
    BY <1>3, <2>1 DEF Expires, obsVars, seenVars, IInv, RunInv, BootInv, ReadyInv, TailInv,
                      VerdictInv, PlanPassIsEarned
  <2> QED
    BY <2>1, <2>2, <2>3 DEF IInv
<1> QED
  BY <1>1, <1>2, <1>3

-----------------------------------------------------------------------------
LEMMA InitHolds ==
    ASSUME Init
    PROVE  IInv
<1>1. ObsInv
  BY LimitTypes DEF Init, ObsInit, ObsInv, ObsTypeOK, SentInv, Latest, Boots, NoBoot
<1>2. RunnerTypeOK
  <2>1. /\ okFor \in None..ReadyHold /\ stillFor \in None..StillConfirm
        /\ decelFor \in 0..DecelTimeout /\ prevErr \in None..2
        /\ corrections \in 0..MaxCorrections /\ stood \in 0..(ReadyHold + 1)
    BY LimitTypes DEF Init, None
  <2> QED
    BY <2>1 DEF Init, RunnerTypeOK
<1>3. RunInv
  BY DEF Init, ObsInit, RunInv, BootInv, ReadyInv, TailInv, VerdictInv, PlanPassIsEarned, None
<1> QED
  BY <1>1, <1>2, <1>3 DEF IInv

LEMMA StutterKeeps ==
    ASSUME IInv, UNCHANGED vars
    PROVE  IInv'
<1>1. ObsInv'
  BY DEF vars, obsVars, IInv, ObsInv, ObsTypeOK, SentInv, Latest
<1>2. RunnerTypeOK'
  BY DEF vars, runnerVars, seenVars, IInv, RunnerTypeOK
<1>3. RunInv'
  BY DEF vars, obsVars, runnerVars, seenVars, IInv, RunInv, BootInv, ReadyInv, TailInv,
         VerdictInv, PlanPassIsEarned
<1> QED
  BY <1>1, <1>2, <1>3 DEF IInv

(* The invariant that carries the account of the samples is inductive.     *)
THEOREM Inductive == Spec => []IInv
<1>1. Init => IInv
  BY InitHolds
<1>2. ASSUME IInv, [Next]_vars
      PROVE  IInv'
  <2>1. CASE \E s \in Sample : \/ ReadyPass(s) \/ Stick(s) \/ Trigger(s) \/ Decelerates(s)
                              \/ TailPass(s) \/ Score(s)
    BY <1>2, <2>1, ReadyPassKeeps, WalkKeeps, DeceleratesKeeps, TailPassKeeps, ScoreKeeps
  <2>2. CASE BindBoot
    BY <1>2, <2>2, BindBootKeeps
  <2>3. CASE Head \/ Burst \/ Release \/ Stand
    BY <1>2, <2>3, SendsKeep
  <2>4. CASE Settle
    BY <1>2, <2>4, SettleKeeps
  <2>5. CASE RunnerRaises \/ FallSeen
    BY <1>2, <2>5, RaisesKeep
  <2>6. CASE BindWaits \/ Expires \/ ObserverSteps
    BY <1>2, <2>6, RestKeeps
  <2>7. CASE UNCHANGED vars
    BY <1>2, <2>7, StutterKeeps
  <2> QED
    BY <1>2, <2>1, <2>2, <2>3, <2>4, <2>5, <2>6, <2>7 DEF Next, RunnerSteps
<1> QED
  BY <1>1, <1>2, PTL DEF Spec

(* The variables of the observer and the runner keep their types.          *)
THEOREM TypeCorrect == Spec => []TypeOK
<1>1. IInv => TypeOK
  BY DEF IInv, ObsInv, TypeOK
<1> QED
  BY <1>1, Inductive, PTL

(* A PASS of a plan is earned by observations of the approved boot, for    *)
(* every hold, time-out and number of corrections (trial.py, 155-187).     *)
THEOREM PassCorrect == Spec => []PlanPassIsEarned
<1>1. IInv => PlanPassIsEarned
  BY DEF IInv, RunInv
<1> QED
  BY <1>1, Inductive, PTL

=============================================================================
