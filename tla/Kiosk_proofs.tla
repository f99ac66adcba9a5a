----------------------------- MODULE Kiosk_proofs -----------------------------
(***************************************************************************)
(* That no answer, however late, brings an old round back to the kiosk's   *)
(* screen: for any number of sessions, rounds, boots, polls and POSTs,     *)
(* checked by TLAPS.                                                       *)
(***************************************************************************)
EXTENDS KioskNavigation, TLAPS

-----------------------------------------------------------------------------
SnapType == [id : Nat, phase : Phase, gid : Nat, gphase : Phase,
             spec : Nat, boot : Nat, seenIn : Nat]
PollType == [pc : {"idle", "state", "game", "live"}, due : BOOLEAN,
             session : Nat, snap : SnapType, n : Nat]
NavType == [pc : {"idle", "new", "create", "before", "post", "after", "reset", "inspect"},
            todo : Seq({"state", "game", "live"}), session : Nat, snap : SnapType, n : Nat]
AttemptType == [n : Nat, session : Nat, id : Nat, boot : Nat, absent : Nat,
                settled : BOOLEAN, retry : BOOLEAN]

(* Rounds are numbered in the order they begin.                            *)
RoundsInv ==
    /\ rounds \in [Session -> [id : Nat, phase : Phase, spec : Nat]]
    /\ lastRound \in Nat /\ boot \in Nat /\ observed \in Nat
    /\ \A s \in Session : rounds[s].id <= lastRound

ViewTypes ==
    /\ sid \in Session /\ floor \in Nat /\ posts \in Nat
    /\ shown \in [session : Nat, id : Nat, phase : Phase]
    /\ game \in [id : Nat, spec : Nat]

FlightTypes == attempt \in AttemptType /\ poll \in PollType /\ nav \in NavType

(* A snapshot, also one that is not complete, of the kiosk's own session   *)
(* and of no round before the floor.                                       *)
Current(snap, s) ==
    /\ s = sid /\ snap.id <= rounds[sid].id
    /\ snap.id # 0 => snap.id >= floor
    /\ snap.gid # 0 => snap.gid >= floor

(* What is under way without being outdated reads the present round.       *)
PollInv == poll.pc # "idle" /\ "poll" \notin outdated => Current(poll.snap, poll.session)

(* What is read is read of a session that exists.                          *)
SessionsInv ==
    /\ poll.pc # "idle" => poll.session \in Session
    /\ nav.todo # <<>> => nav.session \in Session

NavInv ==
    /\ nav.pc \in {"before", "post", "after", "reset"} => Current(nav.snap, nav.session)
    /\ nav.pc = "inspect" /\ "nav" \notin outdated => Current(nav.snap, nav.session)

(* The button that resets is off while the kiosk is on its way to another  *)
(* round, except for the reads after a reset that was given up.            *)
AgainInv == again => nav.pc \in {"idle", "inspect"}

KInv ==
    /\ RoundsInv /\ ViewTypes /\ FlightTypes
    /\ floor <= rounds[sid].id
    /\ SessionsInv /\ PollInv /\ NavInv /\ AgainInv
    /\ NoOldRound

Grows == \A s \in Session : rounds'[s].id >= rounds[s].id

-----------------------------------------------------------------------------
LEMMA LimitTypes ==
    /\ MaxSession \in Nat \ {0} /\ MaxRound \in Nat /\ MaxBoot \in Nat \ {0}
    /\ AbsentReads \in Nat \ {0}
BY ServerAssumption, KioskAssumption

(* One round is written; a message about a session that does not exist     *)
(* writes none.                                                            *)
LEMMA RoundWritten ==
    ASSUME RoundsInv, NEW s, NEW r,
           rounds' = [rounds EXCEPT ![s] = r],
           s \in Session => /\ r \in [id : Nat, phase : Phase, spec : Nat]
                           /\ r.id >= rounds[s].id /\ r.id <= lastRound',
           lastRound' \in Nat, lastRound' >= lastRound, boot' \in Nat, observed' \in Nat
    PROVE  RoundsInv' /\ Grows
<1>1. rounds' \in [Session -> [id : Nat, phase : Phase, spec : Nat]]
  BY DEF RoundsInv
<1>2. ASSUME NEW t \in Session
      PROVE  /\ rounds'[t].id = IF t = s THEN r.id ELSE rounds[t].id
             /\ rounds[t].id \in Nat /\ rounds[t].id <= lastRound
  <2>1. rounds[t] \in [id : Nat, phase : Phase, spec : Nat]
    BY DEF RoundsInv
  <2>2. rounds'[t] = IF t = s THEN r ELSE rounds[t]
    BY DEF RoundsInv
  <2> QED
    BY <2>1, <2>2 DEF RoundsInv
<1>3. lastRound \in Nat
  BY DEF RoundsInv
<1>4. \A t \in Session : rounds'[t].id >= rounds[t].id /\ rounds'[t].id <= lastRound'
  BY <1>2, <1>3
<1> QED
  BY <1>1, <1>4 DEF RoundsInv, Grows

(* The server only ever begins rounds that are newer than all others.      *)
LEMMA ServerGrows ==
    ASSUME RoundsInv, NEW s,
           \/ UNCHANGED serverVars
           \/ Creates(s) \/ Spawns(s) \/ ResetBegins(s) \/ ResetEnds
           \/ ResetFails \/ OtherReboots \/ Observes \/ Works(s)
    PROVE  RoundsInv' /\ Grows
<1>1. /\ lastRound \in Nat /\ boot \in Nat /\ observed \in Nat
      /\ lastRound' \in Nat /\ lastRound' >= lastRound
      /\ boot' \in Nat /\ observed' \in Nat
  BY DEF RoundsInv, serverVars, Creates, Spawns, ResetBegins, ResetEnds, ResetFails,
         OtherReboots, Observes, Works
<1>2. CASE rounds' = rounds
  BY <1>1, <1>2 DEF RoundsInv, Grows
<1>3. ASSUME NEW t \in Session
      PROVE  rounds[t] \in [id : Nat, phase : Phase, spec : Nat] /\ rounds[t].id <= lastRound
  BY DEF RoundsInv
<1>4. ASSUME NEW t, NEW ph \in Phase, rounds' = [rounds EXCEPT ![t].phase = ph]
      PROVE  RoundsInv' /\ Grows
  <2> DEFINE r == [rounds[t] EXCEPT !.phase = ph]
  <2>1. rounds' = [rounds EXCEPT ![t] = r]
    BY <1>4
  <2>2. t \in Session => /\ r \in [id : Nat, phase : Phase, spec : Nat]
                        /\ r.id = rounds[t].id /\ rounds[t].id \in Nat
                        /\ rounds[t].id <= lastRound
    BY <1>3
  <2> HIDE DEF r
  <2>3. t \in Session => /\ r \in [id : Nat, phase : Phase, spec : Nat]
                        /\ r.id >= rounds[t].id /\ r.id <= lastRound'
    BY <1>1, <2>2
  <2> QED
    BY <1>1, <2>1, <2>3, RoundWritten
<1>5. ASSUME NEW t, rounds' = [rounds EXCEPT ![t] = NewRound(lastRound + 1)],
             lastRound' = lastRound + 1
      PROVE  RoundsInv' /\ Grows
  <2>1. /\ NewRound(lastRound + 1) \in [id : Nat, phase : Phase, spec : Nat]
        /\ NewRound(lastRound + 1).id = lastRound + 1
    BY <1>1 DEF NewRound, Phase
  <2>2. t \in Session => rounds[t].id \in Nat /\ rounds[t].id <= lastRound
    BY <1>3
  <2>3. t \in Session => NewRound(lastRound + 1).id >= rounds[t].id
    BY <1>1, <2>1, <2>2
  <2>4. NewRound(lastRound + 1).id <= lastRound'
    BY <1>1, <1>5, <2>1
  <2> QED
    BY <1>1, <1>5, <2>1, <2>3, <2>4, RoundWritten
<1>6. CASE Spawns(s)
  <2> DEFINE r == [rounds[s] EXCEPT !.spec = boot]
  <2>1. rounds' = [rounds EXCEPT ![s] = r] /\ lastRound' = lastRound
    BY <1>6 DEF Spawns
  <2>2. s \in Session => /\ r \in [id : Nat, phase : Phase, spec : Nat]
                        /\ r.id = rounds[s].id /\ rounds[s].id \in Nat
                        /\ rounds[s].id <= lastRound
    BY <1>1, <1>3
  <2> HIDE DEF r
  <2>3. s \in Session => /\ r \in [id : Nat, phase : Phase, spec : Nat]
                        /\ r.id >= rounds[s].id /\ r.id <= lastRound'
    BY <1>1, <2>1, <2>2
  <2> QED
    BY <1>1, <2>1, <2>3, RoundWritten
<1>7. CASE Creates(s) \/ ResetEnds
  BY <1>5, <1>7 DEF Creates, ResetEnds
<1>8. CASE ResetBegins(s) \/ ResetFails \/ Works(s)
  BY <1>4, <1>8 DEF ResetBegins, ResetFails, Works, Phase
<1>9. CASE UNCHANGED serverVars \/ OtherReboots \/ Observes
  BY <1>2, <1>9 DEF serverVars, OtherReboots, Observes
<1> QED
  BY <1>6, <1>7, <1>8, <1>9

LEMMA ReadsRound ==
    ASSUME RoundsInv, NEW snap \in SnapType, NEW what \in {"state", "game", "live"},
           NEW s \in Session, NEW live \in Nat
    PROVE  /\ Read(snap, what, s, live) \in SnapType
           /\ Read(snap, what, s, live).id \in {snap.id, rounds[s].id}
           /\ Read(snap, what, s, live).gid \in {snap.gid, rounds[s].id}
           /\ what = "live" => /\ Read(snap, what, s, live).id = snap.id
                               /\ Read(snap, what, s, live).gid = snap.gid
<1>1. CASE what = "state"
  BY <1>1 DEF Read, SnapType, RoundsInv
<1>2. CASE what = "game"
  BY <1>2 DEF Read, SnapType, RoundsInv
<1>3. CASE what = "live"
  BY <1>3 DEF Read, SnapType, RoundsInv
<1> QED
  BY <1>1, <1>2, <1>3

(* A current snapshot stays current when a GET adds to it.                 *)
LEMMA ReadIsCurrent ==
    ASSUME RoundsInv, ViewTypes, floor <= rounds[sid].id,
           NEW snap \in SnapType, NEW what \in {"state", "game", "live"},
           NEW live \in Nat, Current(snap, sid)
    PROVE  Current(Read(snap, what, sid, live), sid)
<1>1. sid \in Session /\ rounds[sid].id \in Nat
  BY DEF RoundsInv, ViewTypes
<1>2. /\ Read(snap, what, sid, live).id \in {snap.id, rounds[sid].id}
      /\ Read(snap, what, sid, live).gid \in {snap.gid, rounds[sid].id}
  BY <1>1, ReadsRound
<1> QED
  BY <1>1, <1>2 DEF Current

LEMMA EmptySnap == NoSnap \in SnapType /\ NoSnap.id = 0 /\ NoSnap.gid = 0
BY DEF NoSnap, SnapType, Phase

(* The verdict on a snapshot shows its target or leaves the screen as it is.*)
LEMMA ReconcileShows ==
    ASSUME FlightTypes, NEW snap \in SnapType, NEW passed \in BOOLEAN,
           Reconcile(snap, passed)
    PROVE  /\ attempt' \in AttemptType
           /\ game' = game \/ game' = [id |-> snap.gid, spec |-> snap.spec]
<1> DEFINE v == Verdict(attempt, snap)
<1> DEFINE reads == IF v = "absent" /\ attempt.settled
                    THEN IF attempt.absent < AbsentReads THEN attempt.absent + 1
                         ELSE AbsentReads
                    ELSE 0
<1>1. reads \in Nat
  BY LimitTypes DEF FlightTypes, AttemptType
<1>2. CASE v \in {"spawned", "changed"}
  <2>1. /\ attempt' = NoAttempt
        /\ game' = IF v = "spawned" THEN [id |-> snap.gid, spec |-> snap.spec] ELSE game
    BY <1>2 DEF Reconcile
  <2>2. NoAttempt \in AttemptType
    BY DEF NoAttempt, AttemptType
  <2> QED
    BY <2>1, <2>2
<1>3. CASE v \notin {"spawned", "changed"}
  <2>1. /\ attempt' = [attempt EXCEPT !.absent = reads,
                           !.retry = @ \/ (reads = AbsentReads /\ passed)]
        /\ game' = game
    BY <1>3 DEF Reconcile
  <2> HIDE DEF reads
  <2>2. (attempt.retry \/ (reads = AbsentReads /\ passed)) \in BOOLEAN
    OBVIOUS
  <2> QED
    BY <1>1, <2>1, <2>2 DEF FlightTypes, AttemptType
<1> QED
  BY <1>2, <1>3

-----------------------------------------------------------------------------
(* Steps of the server and of the clocks.                                  *)
LEMMA ElsewhereKeeps ==
    ASSUME KInv, RoundsInv', Grows, attempt' \in AttemptType,
           UNCHANGED <<sid, outdated, shown, game, posts, poll, nav, floor>>,
           again' = again \/ ~again'
    PROVE  KInv'
<1>1. ViewTypes' /\ FlightTypes'
  BY DEF KInv, ViewTypes, FlightTypes
<1>2. sid \in Session /\ rounds[sid].id \in Nat /\ rounds'[sid].id \in Nat
      /\ rounds'[sid].id >= rounds[sid].id
  BY DEF KInv, RoundsInv, ViewTypes, Grows
<1>3. floor \in Nat /\ floor' <= rounds'[sid'].id
  BY <1>2 DEF KInv, ViewTypes
<1>4. ASSUME NEW snap \in SnapType, NEW s, Current(snap, s)
      PROVE  Current(snap, s)'
  <2>1. snap.id \in Nat
    BY DEF SnapType
  <2> QED
    BY <1>2, <1>4, <2>1 DEF Current
<1>5. poll.snap \in SnapType /\ nav.snap \in SnapType
  BY DEF KInv, FlightTypes, PollType, NavType
<1>6. PollInv'
  BY <1>4, <1>5 DEF KInv, PollInv
<1>7. NavInv'
  BY <1>4, <1>5 DEF KInv, NavInv
<1>8. AgainInv' /\ NoOldRound' /\ SessionsInv'
  BY DEF KInv, AgainInv, NoOldRound, SessionsInv
<1> QED
  BY <1>1, <1>3, <1>6, <1>7, <1>8 DEF KInv

LEMMA FloorHolds ==
    ASSUME KInv
    PROVE  /\ sid \in Session /\ floor \in Nat /\ rounds[sid].id \in Nat
           /\ floor <= rounds[sid].id
           /\ rounds[sid] \in [id : Nat, phase : Phase, spec : Nat]
BY DEF KInv, RoundsInv, ViewTypes

LEMMA FlightRecords ==
    ASSUME KInv
    PROVE  /\ poll \in PollType /\ nav \in NavType /\ attempt \in AttemptType
           /\ poll.snap \in SnapType /\ nav.snap \in SnapType
           /\ NoPoll \in PollType /\ NoNav \in NavType /\ NoAttempt \in AttemptType
BY EmptySnap DEF KInv, FlightTypes, PollType, NavType, AttemptType, NoPoll, NoNav, NoAttempt

(* Steps of the server and of the clocks.                                  *)
LEMMA ServerKeeps ==
    ASSUME KInv,
           \/ PollFails \/ PollIsLate \/ TimerEnds \/ SpawnArrives
           \/ ResetArrives \/ ResetIsOver \/ Elsewhere
           \/ \E m \in late : SpawnArrivesLate(m) \/ ResetArrivesLate(m)
    PROVE  KInv'
<1>1. CASE PollFails \/ PollIsLate
  <2>1. RoundsInv' /\ Grows
    BY <1>1, ServerGrows DEF PollFails, PollIsLate, KInv
  <2>2. ViewTypes' /\ NoOldRound' /\ AgainInv' /\ NavInv'
    BY <1>1 DEF PollFails, PollIsLate, kioskVars, serverVars, KInv, ViewTypes, NoOldRound,
                AgainInv, NavInv, Current
  <2>3. poll' = NoPoll /\ attempt' = attempt /\ nav' = nav
    BY <1>1 DEF PollFails, PollIsLate, kioskVars
  <2>4. FlightTypes'
    BY <2>3, FlightRecords DEF FlightTypes
  <2>5. PollInv' /\ SessionsInv'
    BY <2>3 DEF PollInv, NoPoll, KInv, SessionsInv
  <2>6. (floor <= rounds[sid].id)'
    BY <1>1 DEF PollFails, PollIsLate, kioskVars, serverVars, KInv
  <2> QED
    BY <2>1, <2>2, <2>4, <2>5, <2>6 DEF KInv
<1>2. CASE TimerEnds
  <2>1. attempt' \in AttemptType
    BY <1>2, FlightRecords DEF TimerEnds, AttemptType
  <2>2. RoundsInv' /\ Grows
    BY <1>2, ServerGrows DEF TimerEnds, KInv
  <2> QED
    BY <1>2, <2>1, <2>2, ElsewhereKeeps DEF TimerEnds, flightVars
<1>3. ASSUME RoundsInv' /\ Grows, UNCHANGED <<kioskVars, poll, nav, again, floor>>
      PROVE  KInv'
  BY <1>3, FlightRecords, ElsewhereKeeps DEF kioskVars
<1>4. CASE SpawnArrives
  <2>1. Spawns(nav.session) \/ UNCHANGED serverVars
    BY <1>4 DEF SpawnArrives
  <2> QED
    BY <1>3, <1>4, <2>1, ServerGrows DEF SpawnArrives, KInv
<1>5. CASE ResetArrives
  <2>1. ResetBegins(sid) \/ UNCHANGED serverVars
    BY <1>5 DEF ResetArrives
  <2> QED
    BY <1>3, <1>5, <2>1, ServerGrows DEF ResetArrives, KInv
<1>6. CASE ResetIsOver
  BY <1>3, <1>6, ServerGrows DEF ResetIsOver, KInv
<1>7. CASE Elsewhere
  BY <1>3, <1>7, ServerGrows DEF Elsewhere, flightVars, KInv
<1>8. ASSUME NEW m \in late, SpawnArrivesLate(m) \/ ResetArrivesLate(m)
      PROVE  KInv'
  <2>1. Spawns(m.session) \/ ResetBegins(m.session)
    BY <1>8 DEF SpawnArrivesLate, ResetArrivesLate
  <2> QED
    BY <1>3, <1>8, <2>1, ServerGrows DEF SpawnArrivesLate, ResetArrivesLate, KInv
<1> QED
  BY <1>1, <1>2, <1>4, <1>5, <1>6, <1>7, <1>8

-----------------------------------------------------------------------------
(* The poll.  A step of it leaves the navigation and the floor alone.      *)
LEMMA PollKeeps ==
    ASSUME KInv, UNCHANGED <<serverVars, sid, nav, again, floor, posts>>,
           outdated' \in {outdated, outdated \ {"poll"}},
           attempt' \in AttemptType, poll' \in PollType, PollInv',
           poll'.pc # "idle" => poll'.session \in Session,
           shown' \in [session : Nat, id : Nat, phase : Phase],
           game' \in [id : Nat, spec : Nat], NoOldRound'
    PROVE  KInv'
<1>1. RoundsInv'
  BY DEF KInv, RoundsInv, serverVars
<1>2. ViewTypes' /\ FlightTypes' /\ AgainInv' /\ SessionsInv'
  BY DEF KInv, ViewTypes, FlightTypes, AgainInv, SessionsInv
<1>3. (floor <= rounds[sid].id)'
  BY DEF KInv, serverVars
<1>4. NavInv'
  <2>1. "nav" \in outdated <=> "nav" \in outdated'
    OBVIOUS
  <2>2. ASSUME NEW snap, NEW s, Current(snap, s) PROVE Current(snap, s)'
    BY <2>2 DEF Current, serverVars
  <2> QED
    BY <2>1, <2>2 DEF KInv, NavInv
<1> QED
  BY <1>1, <1>2, <1>3, <1>4 DEF KInv

LEMMA PollBeginsKeeps ==
    ASSUME KInv, PollBegins
    PROVE  KInv'
<1> DEFINE snap == Read(NoSnap, "state", sid, 0)
<1>1. snap \in SnapType
  BY EmptySnap, FloorHolds, ReadsRound DEF KInv
<1>2. snap.id = rounds[sid].id /\ snap.gid = 0
  BY DEF Read, NoSnap
<1>3. Current(snap, sid)
  BY <1>2, FloorHolds DEF Current
<1> HIDE DEF snap
<1>4. sid \in Nat
  BY FloorHolds DEF Session
<1>5. poll' = [NoPoll EXCEPT !.pc = "state", !.due = TRUE, !.session = sid, !.snap = snap]
  BY DEF PollBegins, snap
<1>6. poll' \in PollType /\ poll'.snap = snap /\ poll'.session = sid
  BY <1>1, <1>4, <1>5 DEF PollType, NoPoll
<1>7. PollInv'
  BY <1>3, <1>6 DEF PollBegins, PollInv, Current, serverVars
<1>8. NoOldRound'
  BY DEF PollBegins, KInv, NoOldRound
<1> QED
  BY <1>6, <1>7, <1>8, FloorHolds, FlightRecords, PollKeeps DEF PollBegins, KInv, ViewTypes

LEMMA PollAnsweredKeeps ==
    ASSUME KInv, PollAnswered
    PROVE  KInv'
<1> DEFINE snap == Read(poll.snap, "game", poll.session, 0)
<1>1. poll.pc = "game" /\ poll.session \in Session
  BY DEF PollAnswered, KInv, SessionsInv
<1>2. snap \in SnapType
  BY <1>1, FlightRecords, ReadsRound DEF KInv
<1>3. "poll" \notin outdated => Current(snap, poll.session)
  <2> SUFFICES ASSUME "poll" \notin outdated
               PROVE  Current(snap, sid) /\ poll.session = sid
    OBVIOUS
  <2>1. Current(poll.snap, sid) /\ poll.session = sid
    BY <1>1 DEF KInv, PollInv, Current
  <2> QED
    BY <2>1, FlightRecords, ReadIsCurrent DEF KInv
<1> HIDE DEF snap
<1>4. poll' = [poll EXCEPT !.due = TRUE, !.snap = snap]
  BY DEF PollAnswered, snap
<1>5. /\ poll' \in PollType
      /\ poll'.snap = snap /\ poll'.session = poll.session /\ poll'.pc = poll.pc
  BY <1>2, <1>4, FlightRecords DEF PollType
<1>6. PollInv'
  BY <1>3, <1>5 DEF PollAnswered, PollInv, Current, serverVars, kioskVars
<1>7. NoOldRound'
  BY DEF PollAnswered, KInv, NoOldRound, kioskVars
<1> QED
  BY <1>1, <1>5, <1>6, <1>7, FlightRecords, PollKeeps
     DEF PollAnswered, kioskVars, KInv, ViewTypes

LEMMA PollTakesKeep ==
    ASSUME KInv, PollTakesState \/ PollTakesGame \/ PollTakesBoot
    PROVE  KInv'
<1>1. poll.pc # "idle" /\ poll.session \in Session
  BY DEF PollTakesState, PollTakesGame, PollTakesBoot, KInv, SessionsInv
<1>2. Current(poll.snap, poll.session)
  BY <1>1 DEF PollTakesState, PollTakesGame, PollTakesBoot, KInv, PollInv
<1>3. /\ poll.snap.id \in Nat /\ poll.snap.gid \in Nat /\ poll.snap.spec \in Nat
      /\ poll.snap.phase \in Phase /\ poll.session \in Nat
  BY FlightRecords DEF SnapType, PollType
<1>4. CASE PollTakesState
  <2>1. poll' = [poll EXCEPT !.due = FALSE, !.pc = "game"]
    BY <1>4 DEF PollTakesState
  <2>2. poll' \in PollType /\ poll'.snap = poll.snap /\ poll'.session = poll.session
    BY <2>1, FlightRecords DEF PollType
  <2>3. shown' = [session |-> poll.session, id |-> poll.snap.id, phase |-> poll.snap.phase]
    BY <1>4 DEF PollTakesState
  <2>4. shown' \in [session : Nat, id : Nat, phase : Phase]
    BY <1>3, <2>3
  <2>5. NoOldRound'
    BY <1>2, <1>4, <2>3 DEF PollTakesState, KInv, NoOldRound, Current
  <2>6. PollInv'
    BY <1>2, <1>4, <2>2 DEF PollTakesState, PollInv, Current, serverVars
  <2> QED
    BY <1>1, <1>4, <2>2, <2>4, <2>5, <2>6, FlightRecords, PollKeeps
       DEF PollTakesState, KInv, ViewTypes
<1>5. CASE PollTakesGame
  <2>1. poll' = [poll EXCEPT !.due = FALSE, !.pc = "live", !.n = attempt.n] \/ poll' = NoPoll
    BY <1>5 DEF PollTakesGame
  <2>2. attempt.n \in Nat
    BY FlightRecords DEF AttemptType
  <2>3. /\ poll' \in PollType
        /\ poll' = NoPoll \/ (poll'.snap = poll.snap /\ poll'.session = poll.session)
    BY <2>1, <2>2, FlightRecords DEF PollType
  <2>4. \/ game' = [id |-> poll.snap.gid, spec |-> poll.snap.spec]
        \/ game' = NoGame
    BY <1>5 DEF PollTakesGame
  <2>5. game' \in [id : Nat, spec : Nat]
    BY <1>3, <2>4 DEF NoGame
  <2>6. NoOldRound'
    BY <1>2, <1>5, <2>4 DEF PollTakesGame, KInv, NoOldRound, NoGame, Current
  <2>7. PollInv' /\ (poll'.pc # "idle" => poll'.session \in Session)
    BY <1>1, <1>2, <1>5, <2>3 DEF PollTakesGame, PollInv, Current, NoPoll, serverVars
  <2> QED
    BY <1>5, <2>3, <2>5, <2>6, <2>7, FlightRecords, PollKeeps
       DEF PollTakesGame, KInv, ViewTypes
<1>6. CASE PollTakesBoot
  <2>1. poll' = NoPoll
    BY <1>6 DEF PollTakesBoot
  <2>2. PICK live \in {0, observed}, passed \in BOOLEAN :
          IF attempt.n = poll.n
          THEN Reconcile(Read(poll.snap, "live", poll.session, live), passed)
          ELSE UNCHANGED <<attempt, game, changed>>
    BY <1>6 DEF PollTakesBoot
  <2> DEFINE snap == Read(poll.snap, "live", poll.session, live)
  <2>3. live \in Nat
    BY DEF KInv, RoundsInv
  <2>4. snap \in SnapType /\ snap.gid = poll.snap.gid
    BY <1>1, <2>3, FlightRecords, ReadsRound DEF KInv
  <2>5. snap.gid \in Nat /\ snap.spec \in Nat
    BY <2>4 DEF SnapType
  <2> HIDE DEF snap
  <2>6. /\ attempt' \in AttemptType
        /\ game' = game \/ game' = [id |-> snap.gid, spec |-> snap.spec]
    <3>1. CASE attempt.n = poll.n
      <4>1. Reconcile(snap, passed)
        BY <2>2, <3>1 DEF snap
      <4> QED
        BY <2>4, <4>1, ReconcileShows DEF KInv
    <3>2. CASE attempt.n # poll.n
      BY <2>2, <3>2, FlightRecords
    <3> QED
      BY <3>1, <3>2
  <2>7. game' \in [id : Nat, spec : Nat]
    BY <2>5, <2>6 DEF KInv, ViewTypes
  <2>8. NoOldRound'
    BY <1>2, <1>6, <2>4, <2>6 DEF PollTakesBoot, KInv, NoOldRound, Current
  <2>9. PollInv' /\ poll'.pc = "idle" /\ poll' \in PollType
    BY <2>1, FlightRecords DEF PollInv, NoPoll
  <2> QED
    BY <1>6, <2>6, <2>7, <2>8, <2>9, PollKeeps DEF PollTakesBoot, KInv, ViewTypes
<1> QED
  BY <1>4, <1>5, <1>6

-----------------------------------------------------------------------------
(* A navigation, in the present round or into a new one.                   *)
ViewsOK ==
    /\ shown \in [session : Nat, id : Nat, phase : Phase]
    /\ game \in [id : Nat, spec : Nat]
    /\ NoOldRound

NavOK ==
    /\ nav \in NavType
    /\ nav.todo # <<>> => nav.session \in Session
    /\ NavInv /\ AgainInv

LEMMA NavKeeps ==
    ASSUME KInv, UNCHANGED <<serverVars, sid, poll, floor>>,
           "poll" \in outdated => "poll" \in outdated',
           attempt' \in AttemptType, posts' \in Nat, ViewsOK', NavOK'
    PROVE  KInv'
<1>1. RoundsInv'
  BY DEF KInv, RoundsInv, serverVars
<1>2. ViewTypes' /\ FlightTypes' /\ SessionsInv'
  BY DEF KInv, ViewTypes, FlightTypes, SessionsInv, ViewsOK, NavOK
<1>3. (floor <= rounds[sid].id)' /\ PollInv'
  BY DEF KInv, serverVars, PollInv, Current
<1> QED
  BY <1>1, <1>2, <1>3 DEF KInv, ViewsOK, NavOK

LEMMA GenerationKeeps ==
    ASSUME KInv, RoundsInv', poll' = poll, outdated' = NextGeneration,
           sid' \in Session, floor' \in Nat, floor' <= rounds'[sid'].id,
           attempt' \in AttemptType, posts' \in Nat, ViewsOK', NavOK'
    PROVE  KInv'
<1>1. ViewTypes' /\ FlightTypes' /\ SessionsInv'
  BY DEF KInv, ViewTypes, FlightTypes, SessionsInv, ViewsOK, NavOK
<1>2. PollInv'
  BY DEF PollInv, NextGeneration
<1> QED
  BY <1>1, <1>2 DEF KInv, ViewsOK, NavOK

LEMMA ViewsStay ==
    ASSUME KInv, UNCHANGED <<sid, shown, game, floor>>
    PROVE  ViewsOK'
BY DEF KInv, ViewTypes, NoOldRound, ViewsOK

LEMMA NavEnds ==
    ASSUME KInv, nav' = NoNav
    PROVE  NavOK'
<1>1. NoNav.pc = "idle" /\ NoNav.todo = <<>>
  BY DEF NoNav
<1> QED
  BY <1>1, FlightRecords DEF NavOK, NavInv, AgainInv

LEMMA NavReadsType ==
    ASSUME NEW pc_ \in {"before", "reset"}, NEW s \in Session,
           NEW todo_ \in Seq({"state", "game", "live"})
    PROVE  /\ NavReads(pc_, s, todo_) \in NavType
           /\ NavReads(pc_, s, todo_).pc = pc_ /\ NavReads(pc_, s, todo_).session = s
           /\ NavReads(pc_, s, todo_).snap = NoSnap /\ NavReads(pc_, s, todo_).todo = todo_
<1>1. s \in Nat /\ NoNav \in [pc : {"idle"}, todo : Seq({"state", "game", "live"}),
                             session : Nat, snap : SnapType, n : Nat]
  BY EmptySnap DEF Session, NoNav
<1> QED
  BY <1>1 DEF NavReads, NavType, NoNav

(* A flight that begins with nothing read.                                 *)
LEMMA NavBegins ==
    ASSUME nav' \in NavType, nav'.pc \in {"before", "reset"}, nav'.session = sid',
           nav'.snap = NoSnap, sid' \in Session, ~again',
           rounds'[sid'].id \in Nat
    PROVE  NavOK'
BY EmptySnap DEF NavOK, NavInv, AgainInv, Current

LEMMA ReadsSeq == Reads \in Seq({"state", "game", "live"})
BY DEF Reads

LEMMA ClicksKeep ==
    ASSUME KInv, NewInstruction \/ SwitchToGame \/ SwitchToNormal \/ ResetAgain
    PROVE  KInv'
<1>1. /\ UNCHANGED <<serverVars, sid, poll, floor, shown, game, attempt, posts>>
      /\ "poll" \in outdated => "poll" \in outdated'
  BY DEF NewInstruction, SwitchToGame, SwitchToNormal, ResetAgain, kioskVars
<1>2. ViewsOK' /\ attempt' \in AttemptType /\ posts' \in Nat
  BY <1>1, ViewsStay, FlightRecords DEF KInv, ViewTypes
<1>3. sid \in Session /\ rounds'[sid'].id \in Nat /\ sid' = sid
  BY <1>1, FloorHolds DEF serverVars
<1>4. CASE NewInstruction \/ (SwitchToGame /\ nav' = [NoNav EXCEPT !.pc = "create"])
  <2>1. nav' = [NoNav EXCEPT !.pc = "new"] \/ nav' = [NoNav EXCEPT !.pc = "create"]
    BY <1>4 DEF NewInstruction
  <2>2. nav' \in NavType /\ nav'.pc \in {"new", "create"} /\ nav'.todo = <<>>
    BY <2>1, FlightRecords DEF NavType, NoNav
  <2>3. ~again'
    BY <1>4 DEF NewInstruction, SwitchToGame, MayNavigate, NavigationBlocked, IsBusy
  <2>4. NavOK'
    BY <2>2, <2>3 DEF NavOK, NavInv, AgainInv
  <2> QED
    BY <1>1, <1>2, <2>4, NavKeeps
<1>5. CASE SwitchToGame /\ nav' = NavReads("before", sid, Reads)
  <2>1. ~again'
    BY <1>5 DEF SwitchToGame, MayNavigate, NavigationBlocked, IsBusy
  <2>2. NavOK'
    BY <1>3, <1>5, <2>1, NavReadsType, ReadsSeq, NavBegins
  <2> QED
    BY <1>1, <1>2, <2>2, NavKeeps
<1>6. CASE SwitchToNormal
  <2>1. ~again' /\ nav' = NavReads("reset", sid, <<>>)
    BY <1>6 DEF SwitchToNormal, MayNavigate, NavigationBlocked, IsBusy
  <2>2. <<>> \in Seq({"state", "game", "live"})
    OBVIOUS
  <2>3. /\ nav' \in NavType /\ nav'.pc = "reset" /\ nav'.session = sid
        /\ nav'.snap = NoSnap
    <3>1. /\ NavReads("reset", sid, <<>>) \in NavType
          /\ NavReads("reset", sid, <<>>).pc = "reset"
          /\ NavReads("reset", sid, <<>>).session = sid
          /\ NavReads("reset", sid, <<>>).snap = NoSnap
      <4>1. sid \in Session
        BY <1>3
      <4> DEFINE none == <<>>
      <4> HIDE DEF none
      <4>2. none \in Seq({"state", "game", "live"})
        BY <2>2 DEF none
      <4>3. /\ NavReads("reset", sid, none) \in NavType
            /\ NavReads("reset", sid, none).pc = "reset"
            /\ NavReads("reset", sid, none).session = sid
            /\ NavReads("reset", sid, none).snap = NoSnap
        BY <4>1, <4>2, NavReadsType
      <4> QED
        BY <4>3 DEF none
    <3> QED
      BY <2>1, <3>1
  <2>4. NavOK'
    BY <1>3, <2>1, <2>3, NavBegins
  <2> QED
    BY <1>1, <1>2, <2>4, NavKeeps
<1>7. CASE ResetAgain
  <2>1. nav' = nav /\ outdated' = outdated
    BY <1>7 DEF ResetAgain, kioskVars
  <2>2. nav.pc \in {"idle", "inspect"}
    BY <1>7, FlightRecords DEF ResetAgain, IsBusy, NavType
  <2>3. NavOK'
    BY <1>1, <2>1, <2>2 DEF KInv, FlightTypes, SessionsInv, NavOK, NavInv, AgainInv, Current,
                            serverVars
  <2> QED
    BY <1>1, <1>2, <2>3, NavKeeps
<1>8. nav' = NavReads("before", sid, Reads) \/ nav' = [NoNav EXCEPT !.pc = "create"]
      \/ ~SwitchToGame
  BY DEF SwitchToGame
<1> QED
  BY <1>4, <1>5, <1>6, <1>7, <1>8

LEMMA NavReadsOn ==
    ASSUME KInv, NavAnswered \/ NavFails
    PROVE  KInv'
<1>1. /\ UNCHANGED <<serverVars, kioskVars, poll, again, floor>>
      /\ ViewsOK' /\ attempt' \in AttemptType /\ posts' \in Nat
  BY ViewsStay, FlightRecords DEF NavAnswered, NavFails, kioskVars, KInv, ViewTypes
<1>2. CASE NavFails
  BY <1>1, <1>2, NavEnds, NavKeeps DEF NavFails, kioskVars
<1>3. CASE NavAnswered
  <2> DEFINE snap == Read(nav.snap, Head(nav.todo), nav.session, observed)
  <2>1. /\ nav.session \in Session /\ observed \in Nat
        /\ Head(nav.todo) \in {"state", "game", "live"}
        /\ Tail(nav.todo) \in Seq({"state", "game", "live"})
    BY <1>3, FlightRecords DEF NavAnswered, KInv, SessionsInv, RoundsInv, NavType
  <2>2. snap \in SnapType
    BY <2>1, FlightRecords, ReadsRound DEF KInv
  <2>3. Current(nav.snap, nav.session) => Current(snap, nav.session)
    <3> SUFFICES ASSUME Current(nav.snap, nav.session)
                 PROVE  Current(snap, nav.session)
      OBVIOUS
    <3>1. nav.session = sid
      BY DEF Current
    <3> QED
      BY <2>1, <3>1, FlightRecords, ReadIsCurrent DEF KInv
  <2> HIDE DEF snap
  <2>4. nav' = [nav EXCEPT !.todo = Tail(@), !.snap = snap]
    BY <1>3 DEF NavAnswered, snap
  <2>5. /\ nav' \in NavType /\ nav'.snap = snap
        /\ nav'.pc = nav.pc /\ nav'.session = nav.session
    BY <2>1, <2>2, <2>4, FlightRecords DEF NavType
  <2>6. NavOK'
    BY <1>1, <2>1, <2>3, <2>5 DEF KInv, NavInv, AgainInv, NavOK, Current, serverVars, kioskVars
  <2> QED
    BY <1>1, <2>6, NavKeeps DEF kioskVars
<1> QED
  BY <1>2, <1>3

-----------------------------------------------------------------------------
(* The ways into a new round: everything that was under way is outdated.   *)
LEMMA EmptyViews ==
    ASSUME shown' = NoShown, game' = NoGame
    PROVE  ViewsOK'
BY DEF NoShown, NoGame, Phase, ViewsOK, NoOldRound

LEMMA SessionCreatedKeeps ==
    ASSUME KInv, NEW s \in Session, SessionCreated(s)
    PROVE  KInv'
<1>1. RoundsInv'
  BY ServerGrows DEF SessionCreated, KInv
<1>2. sid' \in Session /\ rounds'[sid'].id = lastRound' /\ lastRound' \in Nat
  <2>1. sid' = s /\ rounds' = [rounds EXCEPT ![s] = NewRound(lastRound + 1)]
        /\ lastRound' = lastRound + 1
    BY DEF SessionCreated, Creates
  <2>2. rounds'[s] = NewRound(lastRound + 1)
    BY <2>1 DEF KInv, RoundsInv
  <2> QED
    BY <1>1, <2>1, <2>2 DEF NewRound, RoundsInv
<1>3. floor' \in Nat /\ floor' <= rounds'[sid'].id
  BY <1>2 DEF SessionCreated
<1>4. ~again'
  BY DEF SessionCreated, KInv, AgainInv
<1>5. NavOK'
  <2>1. CASE nav' = NoNav
    BY <2>1, NavEnds
  <2>2. CASE nav' = NavReads("before", s, Reads)
    <3>1. sid' = s /\ rounds'[sid'].id \in Nat
      BY <1>2 DEF SessionCreated
    <3> QED
      BY <1>4, <2>2, <3>1, NavReadsType, ReadsSeq, NavBegins
  <2> QED
    BY <2>1, <2>2 DEF SessionCreated
<1>6. ViewsOK' /\ attempt' \in AttemptType
  BY EmptyViews, FlightRecords DEF SessionCreated
<1> QED
  BY <1>1, <1>2, <1>3, <1>5, <1>6, GenerationKeeps DEF SessionCreated, KInv, ViewTypes

LEMMA ResetAnsweredKeeps ==
    ASSUME KInv, ResetAnswered
    PROVE  KInv'
<1>1. rounds' = rounds /\ sid' = sid /\ RoundsInv'
  BY DEF ResetAnswered, serverVars, KInv, RoundsInv
<1>2. sid' \in Session /\ floor' \in Nat /\ floor' <= rounds'[sid'].id
  BY <1>1, FloorHolds DEF ResetAnswered
<1>3. ViewsOK' /\ attempt' \in AttemptType /\ posts' \in Nat
  BY EmptyViews, FlightRecords DEF ResetAnswered, KInv, ViewTypes
<1>4. NavOK'
  <2>1. CASE again
    <3>1. nav' = nav /\ nav.pc \in {"idle", "inspect"} /\ "nav" \in outdated'
      BY <2>1 DEF ResetAnswered, NextGeneration, KInv, AgainInv
    <3> QED
      BY <3>1 DEF KInv, FlightTypes, SessionsInv, NavOK, NavInv, AgainInv
  <2>2. CASE ~again
    BY <2>2, NavEnds DEF ResetAnswered
  <2> QED
    BY <2>1, <2>2
<1> QED
  BY <1>1, <1>2, <1>3, <1>4, GenerationKeeps DEF ResetAnswered

LEMMA ResetGivenUpKeeps ==
    ASSUME KInv, ResetGivenUp
    PROVE  KInv'
<1>1. /\ UNCHANGED <<serverVars, kioskVars, poll, floor>>
      /\ ViewsOK' /\ attempt' \in AttemptType /\ posts' \in Nat
  BY ViewsStay, FlightRecords DEF ResetGivenUp, kioskVars, KInv, ViewTypes
<1>2. CASE again
  <2>1. nav' = nav /\ ~again'
    BY <1>2 DEF ResetGivenUp
  <2>2. NavOK'
    BY <1>1, <2>1 DEF KInv, FlightTypes, SessionsInv, NavOK, NavInv, AgainInv, Current,
                      serverVars, kioskVars
  <2> QED
    BY <1>1, <2>2, NavKeeps DEF kioskVars
<1>3. CASE ~again
  <2>1. nav.pc = "reset" /\ ~again'
    BY <1>3 DEF ResetGivenUp, Resetting
  <2>2. PICK todo \in {<<"state", "game">>, <<"game", "state">>} :
          nav' = [nav EXCEPT !.pc = "inspect", !.todo = todo]
    BY <1>3 DEF ResetGivenUp
  <2>3. todo \in Seq({"state", "game", "live"})
    <3>1. <<"state", "game">> \in Seq({"state", "game", "live"})
      OBVIOUS
    <3>2. <<"game", "state">> \in Seq({"state", "game", "live"})
      OBVIOUS
    <3> QED
      BY <2>2, <3>1, <3>2
  <2>4. /\ nav' \in NavType /\ nav'.pc = "inspect"
        /\ nav'.snap = nav.snap /\ nav'.session = nav.session
    BY <2>2, <2>3, FlightRecords DEF NavType
  <2>5. Current(nav.snap, nav.session) /\ nav.session = sid /\ sid \in Session
    BY <2>1, FloorHolds DEF KInv, NavInv, Current
  <2>6. NavOK'
    BY <1>1, <2>1, <2>4, <2>5 DEF NavOK, NavInv, AgainInv, Current, serverVars, kioskVars
  <2> QED
    BY <1>1, <2>6, NavKeeps DEF kioskVars
<1> QED
  BY <1>2, <1>3

(* What the reads after a reset that was given up may bring to the screen. *)
LEMMA InspectedKeeps ==
    ASSUME KInv, Inspected
    PROVE  KInv'
<1>1. /\ UNCHANGED <<serverVars, sid, attempt, posts, poll, again>>
      /\ attempt' \in AttemptType /\ posts' \in Nat /\ NavOK'
  BY NavEnds, FlightRecords DEF Inspected, KInv, ViewTypes
<1>2. CASE "nav" \in outdated
  <2>1. UNCHANGED <<outdated, shown, game, floor>>
    BY <1>2 DEF Inspected
  <2> QED
    BY <1>1, <2>1, ViewsStay, NavKeeps
<1>3. CASE "nav" \notin outdated
  <2> DEFINE snap == nav.snap
             same == snap.id = snap.gid
             returned == same /\ snap.phase = "READY" /\ snap.spec = 0
             resets == snap.phase = "RESETTING"
             there == same /\ snap.spec # 0
  <2>1. /\ outdated' = IF returned THEN NextGeneration ELSE outdated
        /\ floor' = IF returned THEN snap.id ELSE floor
        /\ shown' = IF returned \/ resets \/ there
                    THEN [session |-> nav.session, id |-> snap.id, phase |-> snap.phase]
                    ELSE shown
        /\ game' = IF returned THEN NoGame
                   ELSE IF resets \/ there THEN [id |-> snap.gid, spec |-> snap.spec]
                   ELSE game
    BY <1>3 DEF Inspected
  <2>2. Current(snap, nav.session) /\ nav.session = sid
    BY <1>3 DEF Inspected, KInv, NavInv, Current
  <2>3. /\ snap.id \in Nat /\ snap.gid \in Nat /\ snap.spec \in Nat /\ snap.phase \in Phase
        /\ nav.session \in Nat
    BY FlightRecords DEF SnapType, NavType
  <2>4. CASE returned
    <3>1. ViewsOK'
      BY <1>1, <2>1, <2>2, <2>3, <2>4 DEF ViewsOK, NoOldRound, NoGame
    <3>2. floor' \in Nat /\ floor' <= rounds'[sid'].id /\ outdated' = NextGeneration
      BY <1>1, <2>1, <2>2, <2>3, <2>4 DEF Current, serverVars
    <3>3. RoundsInv' /\ sid' \in Session
      BY <1>1, FloorHolds DEF KInv, RoundsInv, serverVars
    <3> QED
      BY <1>1, <3>1, <3>2, <3>3, GenerationKeeps
  <2>5. CASE ~returned
    <3>1. floor' = floor /\ outdated' = outdated
      BY <2>1, <2>5
    <3>2. /\ shown' = shown
             \/ shown' = [session |-> nav.session, id |-> snap.id, phase |-> snap.phase]
          /\ game' = game \/ game' = [id |-> snap.gid, spec |-> snap.spec]
      BY <2>1, <2>5
    <3> HIDE DEF snap, same, returned, resets, there
    <3>3. /\ shown' \in [session : Nat, id : Nat, phase : Phase]
          /\ game' \in [id : Nat, spec : Nat]
      BY <2>3, <3>2 DEF KInv, ViewTypes
    <3>4. NoOldRound'
      BY <1>1, <2>2, <3>1, <3>2 DEF KInv, NoOldRound, Current
    <3> QED
      BY <1>1, <3>1, <3>3, <3>4, NavKeeps DEF ViewsOK
  <2> QED
    BY <2>4, <2>5
<1> QED
  BY <1>2, <1>3

-----------------------------------------------------------------------------
(* The flight of a spawn.                                                  *)
LEMMA BeforeReadKeeps ==
    ASSUME KInv, BeforeRead
    PROVE  KInv'
<1> DEFINE snap == nav.snap
<1>1. Current(snap, nav.session) /\ nav.session = sid
  BY DEF BeforeRead, KInv, NavInv, Current
<1>2. /\ snap.id \in Nat /\ snap.gid \in Nat /\ snap.spec \in Nat /\ snap.boot \in Nat
      /\ snap.phase \in Phase /\ nav.session \in Nat /\ nav.todo = <<>>
      /\ nav.pc = "before"
  BY FlightRecords DEF BeforeRead, SnapType, NavType
<1>3. UNCHANGED <<serverVars, sid, outdated, poll, again, floor>>
  BY DEF BeforeRead
<1>4. CASE UNCHANGED <<shown, game>> /\ nav' = NoNav /\ posts' = posts
           /\ attempt' \in {attempt, NoAttempt}
  BY <1>3, <1>4, ViewsStay, NavEnds, NavKeeps, FlightRecords DEF KInv, ViewTypes
<1>5. CASE /\ nav' = NoNav /\ attempt' = NoAttempt /\ posts' = posts
           /\ shown' = [session |-> nav.session, id |-> snap.id, phase |-> snap.phase]
           /\ game' = [id |-> snap.gid, spec |-> snap.spec]
  <2>1. ViewsOK'
    BY <1>1, <1>2, <1>3, <1>5 DEF ViewsOK, NoOldRound, Current
  <2> QED
    BY <1>3, <1>5, <2>1, NavEnds, NavKeeps, FlightRecords DEF KInv, ViewTypes
<1>6. CASE /\ posts' = posts + 1 /\ UNCHANGED <<shown, game>>
           /\ attempt' = [NoAttempt EXCEPT !.n = posts + 1, !.id = snap.id,
                                !.session = nav.session, !.boot = snap.boot]
           /\ nav' = [nav EXCEPT !.pc = "post", !.n = posts + 1,
                                 !.snap = [NoSnap EXCEPT !.id = snap.id, !.boot = snap.boot]]
  <2>1. posts + 1 \in Nat
    BY DEF KInv, ViewTypes
  <2>2. attempt' \in AttemptType
    BY <1>2, <1>6, <2>1 DEF AttemptType, NoAttempt
  <2> DEFINE asked == [NoSnap EXCEPT !.id = snap.id, !.boot = snap.boot]
  <2>3. asked \in SnapType /\ asked.id = snap.id /\ asked.gid = 0
    BY <1>2 DEF SnapType, NoSnap, Phase
  <2>4. Current(asked, nav.session)
    BY <1>1, <2>3 DEF Current
  <2> HIDE DEF asked
  <2>5. nav' = [nav EXCEPT !.pc = "post", !.n = posts + 1, !.snap = asked]
    BY <1>6 DEF asked
  <2>6. /\ nav' \in NavType /\ nav'.pc = "post" /\ nav'.todo = <<>>
        /\ nav'.snap = asked /\ nav'.session = nav.session
    BY <1>2, <2>1, <2>3, <2>5, FlightRecords DEF NavType
  <2>7. ~again
    BY <1>2 DEF KInv, AgainInv
  <2>8. NavOK'
    BY <1>3, <2>4, <2>6, <2>7 DEF NavOK, NavInv, AgainInv, Current, serverVars
  <2> QED
    BY <1>3, <1>6, <2>1, <2>2, <2>8, ViewsStay, NavKeeps
<1>7. CASE snap.id # snap.gid \/ snap.boot = 0
  BY <1>4, <1>7 DEF BeforeRead
<1>8. CASE snap.id = snap.gid /\ snap.boot # 0 /\ snap.spec # 0
  BY <1>4, <1>5, <1>8 DEF BeforeRead
<1>9. CASE snap.id = snap.gid /\ snap.boot # 0 /\ snap.spec = 0
  BY <1>4, <1>6, <1>9 DEF BeforeRead
<1> QED
  BY <1>7, <1>8, <1>9

LEMMA SpawnSettlesKeeps ==
    ASSUME KInv, SpawnSettles
    PROVE  KInv'
<1>1. /\ UNCHANGED <<serverVars, sid, outdated, shown, game, posts, poll, again, floor>>
      /\ ViewsOK' /\ posts' \in Nat
  BY ViewsStay DEF SpawnSettles, KInv, ViewTypes
<1>2. CASE nav' = NoNav /\ attempt' = attempt
  BY <1>1, <1>2, NavEnds, NavKeeps, FlightRecords
<1>3. CASE /\ attempt' = [attempt EXCEPT !.settled = TRUE]
           /\ nav' = [nav EXCEPT !.pc = "after", !.todo = Reads, !.snap = NoSnap]
  <2>1. attempt' \in AttemptType
    BY <1>3, FlightRecords DEF AttemptType
  <2>2. /\ nav' \in NavType /\ nav'.pc = "after"
        /\ nav'.snap = NoSnap /\ nav'.session = nav.session
    BY <1>3, FlightRecords, EmptySnap, ReadsSeq DEF NavType
  <2>3. nav.session = sid /\ sid \in Session /\ rounds[sid].id \in Nat /\ ~again
    BY FloorHolds DEF SpawnSettles, KInv, NavInv, Current, AgainInv
  <2>4. NavOK'
    BY <1>1, <2>2, <2>3, EmptySnap DEF NavOK, NavInv, AgainInv, Current, serverVars
  <2> QED
    BY <1>1, <2>1, <2>4, NavKeeps
<1> QED
  BY <1>2, <1>3 DEF SpawnSettles

LEMMA AfterReadKeeps ==
    ASSUME KInv, AfterRead
    PROVE  KInv'
<1>1. /\ UNCHANGED <<serverVars, sid, outdated, shown, posts, poll, again, floor>>
      /\ posts' \in Nat /\ NavOK'
  BY NavEnds DEF AfterRead, KInv, ViewTypes
<1>2. Current(nav.snap, nav.session)
  BY DEF AfterRead, KInv, NavInv
<1>3. nav.snap \in SnapType /\ nav.snap.gid \in Nat /\ nav.snap.spec \in Nat
  BY FlightRecords DEF SnapType
<1>4. /\ attempt' \in AttemptType
      /\ game' = game \/ game' = [id |-> nav.snap.gid, spec |-> nav.snap.spec]
  <2>1. ASSUME NEW passed \in BOOLEAN, Reconcile(nav.snap, passed)
        PROVE  /\ attempt' \in AttemptType
               /\ game' = game \/ game' = [id |-> nav.snap.gid, spec |-> nav.snap.spec]
    BY <1>3, <2>1, ReconcileShows DEF KInv
  <2>2. \/ attempt' \in {attempt, NoAttempt} /\ game' = game
        \/ \E passed \in BOOLEAN : Reconcile(nav.snap, passed)
    BY DEF AfterRead
  <2> QED
    BY <2>1, <2>2, FlightRecords
<1>5. ViewsOK'
  BY <1>1, <1>2, <1>3, <1>4 DEF KInv, ViewTypes, ViewsOK, NoOldRound, Current
<1> QED
  BY <1>1, <1>4, <1>5, NavKeeps

-----------------------------------------------------------------------------
LEMMA InitHolds ==
    ASSUME Init
    PROVE  KInv
<1>1. 1 \in Session
  BY LimitTypes DEF Session
<1>2. /\ rounds \in [Session -> [id : Nat, phase : Phase, spec : Nat]]
      /\ \A s \in Session : rounds[s].id <= 1
      /\ rounds[1].id = 1
  BY <1>1 DEF Init, ServerInit, NewRound, Phase
<1>3. RoundsInv
  BY <1>2 DEF Init, ServerInit, RoundsInv
<1>4. ViewTypes /\ NoOldRound
  BY <1>1 DEF Init, ViewTypes, NoOldRound, NoShown, NoGame, Phase
<1>5. FlightTypes
  BY EmptySnap DEF Init, FlightTypes, NoPoll, NoNav, NoAttempt, PollType, NavType, AttemptType
<1>6. SessionsInv /\ PollInv /\ NavInv /\ AgainInv
  BY DEF Init, SessionsInv, PollInv, NavInv, AgainInv, NoPoll, NoNav
<1>7. floor <= rounds[sid].id
  BY <1>2 DEF Init
<1> QED
  BY <1>3, <1>4, <1>5, <1>6, <1>7 DEF KInv

LEMMA StutterKeeps ==
    ASSUME KInv, UNCHANGED vars
    PROVE  KInv'
<1>1. /\ RoundsInv' /\ Grows /\ attempt' \in AttemptType
      /\ UNCHANGED <<sid, outdated, shown, game, posts, poll, nav, floor, again>>
  BY ServerGrows, FlightRecords DEF vars, kioskVars, flightVars, KInv
<1> QED
  BY <1>1, ElsewhereKeeps

(* Snapshots that are not outdated are of the present round: the invariant *)
(* behind NoOldRound.                                                      *)
THEOREM Inductive == Spec => []KInv
<1>1. Init => KInv
  BY InitHolds
<1>2. ASSUME KInv, [Next]_vars
      PROVE  KInv'
  <2>1. CASE Polls
    BY <1>2, <2>1, ServerKeeps, PollBeginsKeeps, PollAnsweredKeeps, PollTakesKeep DEF Polls
  <2>2. CASE NavAnswered \/ NavFails
    BY <1>2, <2>2, NavReadsOn
  <2>3. CASE Clicks
    BY <1>2, <2>3, ClicksKeep DEF Clicks
  <2>4. CASE SpawnSteps
    BY <1>2, <2>4, ServerKeeps, SpawnSettlesKeeps, BeforeReadKeeps, AfterReadKeeps
       DEF SpawnSteps
  <2>5. CASE ResetSteps
    BY <1>2, <2>5, ServerKeeps, ResetAnsweredKeeps, ResetGivenUpKeeps, InspectedKeeps
       DEF ResetSteps
  <2>6. CASE \E s \in Session : SessionCreated(s)
    BY <1>2, <2>6, SessionCreatedKeeps
  <2>7. CASE Elsewhere
    BY <1>2, <2>7, ServerKeeps
  <2>8. CASE UNCHANGED vars
    BY <1>2, <2>8, StutterKeeps
  <2> QED
    BY <1>2, <2>1, <2>2, <2>3, <2>4, <2>5, <2>6, <2>7, <2>8 DEF Next
<1> QED
  BY <1>1, <1>2, PTL DEF Spec

(* "A poll begun before the reset does not bring the snapshot of the old   *)
(* round back" (App.tsx, 797), whatever is late, lost or repeated.         *)
THEOREM NoOldRoundShown == Spec => []NoOldRound
<1>1. KInv => NoOldRound
  BY DEF KInv
<1> QED
  BY <1>1, Inductive, PTL

-----------------------------------------------------------------------------
(* The variables that no view depends on keep their types; a POST that was *)
(* given up names a session that exists.                                   *)
RestTypes ==
    /\ outdated \subseteq {"poll", "nav"} /\ posts <= MaxAttempt
    /\ attempt.absent <= AbsentReads
    /\ changed \in BOOLEAN /\ again \in BOOLEAN
    /\ call \in {"none", "sent", "taken", "ok", "failed", "rejected"}
    /\ resetting \in {Nobody} \cup Session /\ admission \in BOOLEAN
    /\ \A m \in late : m.session \in Session

LEMMA GenerationTypes ==
    ASSUME KInv, RestTypes, [Next]_vars
    PROVE  outdated' \subseteq {"poll", "nav"}
<1>1. \/ outdated' \in {outdated, outdated \ {"poll"}, outdated \ {"nav"}}
      \/ outdated' = NextGeneration
  BY DEF Next, vars, kioskVars, Polls, PollBegins, PollAnswered, PollFails, PollIsLate,
         PollTakesState, PollTakesGame, PollTakesBoot, NavAnswered, NavFails, Clicks,
         NewInstruction, SwitchToGame, SwitchToNormal, ResetAgain, SpawnSteps, BeforeRead,
         SpawnArrives, SpawnArrivesLate, SpawnSettles, AfterRead, TimerEnds, ResetSteps,
         ResetArrives, ResetArrivesLate, ResetIsOver, ResetAnswered, ResetGivenUp,
         Inspected, SessionCreated, Elsewhere
<1> QED
  BY <1>1 DEF RestTypes, NextGeneration

LEMMA PostTypes ==
    ASSUME KInv, RestTypes, [Next]_vars
    PROVE  posts' <= MaxAttempt
<1>1. posts' = posts \/ (posts < MaxAttempt /\ posts' = posts + 1)
  BY DEF Next, vars, kioskVars, Polls, PollBegins, PollAnswered, PollFails, PollIsLate,
         PollTakesState, PollTakesGame, PollTakesBoot, NavAnswered, NavFails, Clicks,
         NewInstruction, SwitchToGame, SwitchToNormal, ResetAgain, SpawnSteps, BeforeRead,
         SpawnArrives, SpawnArrivesLate, SpawnSettles, AfterRead, TimerEnds, ResetSteps,
         ResetArrives, ResetArrivesLate, ResetIsOver, ResetAnswered, ResetGivenUp,
         Inspected, SessionCreated, Elsewhere
<1> QED
  BY <1>1, KioskAssumption DEF RestTypes, KInv, ViewTypes

(* The verdict counts the reads without a target up to the limit.          *)
LEMMA ReconcileCounts ==
    ASSUME KInv, RestTypes, NEW snap, NEW passed, Reconcile(snap, passed)
    PROVE  attempt'.absent <= AbsentReads /\ changed' \in BOOLEAN
<1> DEFINE v == Verdict(attempt, snap)
<1> DEFINE reads == IF v = "absent" /\ attempt.settled
                    THEN IF attempt.absent < AbsentReads THEN attempt.absent + 1
                         ELSE AbsentReads
                    ELSE 0
<1>1. reads <= AbsentReads
  BY LimitTypes, FlightRecords DEF AttemptType
<1>2. \/ attempt' = NoAttempt /\ changed' = (changed \/ v = "changed")
      \/ /\ attempt' = [attempt EXCEPT !.absent = reads,
                             !.retry = @ \/ (reads = AbsentReads /\ passed)]
         /\ changed' = changed
  BY DEF Reconcile
<1>3. changed' \in BOOLEAN
  BY <1>2 DEF RestTypes
<1> HIDE DEF reads, v
<1>4. CASE attempt' = NoAttempt
  BY <1>3, <1>4, LimitTypes DEF NoAttempt
<1>5. CASE attempt' = [attempt EXCEPT !.absent = reads,
                             !.retry = @ \/ (reads = AbsentReads /\ passed)]
  <2>1. attempt'.absent = reads
    BY <1>5, FlightRecords DEF AttemptType
  <2> QED
    BY <1>1, <1>3, <2>1
<1> QED
  BY <1>2, <1>4, <1>5

LEMMA AttemptTypes ==
    ASSUME KInv, RestTypes, [Next]_vars
    PROVE  attempt'.absent <= AbsentReads /\ changed' \in BOOLEAN
<1>1. CASE \E snap, passed : Reconcile(snap, passed)
  BY <1>1, ReconcileCounts
<1>2. CASE ~\E snap, passed : Reconcile(snap, passed)
  <2>1. \/ attempt' = attempt \/ attempt' = NoAttempt
        \/ attempt' = [attempt EXCEPT !.settled = TRUE]
        \/ attempt' = [attempt EXCEPT !.retry = TRUE]
        \/ BeforeRead
    BY <1>2 DEF Next, vars, kioskVars, Polls, PollBegins, PollAnswered, PollFails, PollIsLate,
         PollTakesState, PollTakesGame, PollTakesBoot, NavAnswered, NavFails, Clicks,
         NewInstruction, SwitchToGame, SwitchToNormal, ResetAgain, SpawnSteps, BeforeRead,
         SpawnArrives, SpawnArrivesLate, SpawnSettles, AfterRead, TimerEnds, ResetSteps,
         ResetArrives, ResetArrivesLate, ResetIsOver, ResetAnswered, ResetGivenUp,
         Inspected, SessionCreated, Elsewhere
  <2>2. attempt'.absent = attempt.absent \/ attempt'.absent = 0
    <3>1. CASE BeforeRead
      <4>1. \/ attempt' = attempt \/ attempt' = NoAttempt
            \/ attempt' = [NoAttempt EXCEPT !.n = posts + 1, !.id = nav.snap.id,
                                 !.session = nav.session, !.boot = nav.snap.boot]
        <5>1. CASE nav.snap.id # nav.snap.gid \/ nav.snap.boot = 0
          BY <3>1, <5>1 DEF BeforeRead
        <5>2. CASE nav.snap.id = nav.snap.gid /\ nav.snap.boot # 0 /\ nav.snap.spec # 0
          BY <3>1, <5>2 DEF BeforeRead
        <5>3. CASE nav.snap.id = nav.snap.gid /\ nav.snap.boot # 0 /\ nav.snap.spec = 0
          BY <3>1, <5>3 DEF BeforeRead
        <5> QED
          BY <5>1, <5>2, <5>3
      <4>2. CASE attempt' = [NoAttempt EXCEPT !.n = posts + 1, !.id = nav.snap.id,
                                   !.session = nav.session, !.boot = nav.snap.boot]
        <5>1. attempt'.absent = NoAttempt.absent
          BY <4>2 DEF NoAttempt
        <5> QED
          BY <5>1 DEF NoAttempt
      <4>3. CASE attempt' = attempt \/ attempt' = NoAttempt
        BY <4>3 DEF NoAttempt
      <4> QED
        BY <4>1, <4>2, <4>3
    <3>2. CASE attempt' = attempt \/ attempt' = NoAttempt
      BY <3>2 DEF NoAttempt
    <3>3. CASE \/ attempt' = [attempt EXCEPT !.settled = TRUE]
               \/ attempt' = [attempt EXCEPT !.retry = TRUE]
      BY <3>3, FlightRecords DEF AttemptType
    <3> QED
      BY <2>1, <3>1, <3>2, <3>3
  <2>3. attempt'.absent <= AbsentReads
    BY <2>2, LimitTypes DEF RestTypes
  <2>4. changed' \in {changed, TRUE, FALSE, nav.snap.spec # nav.snap.boot}
    BY <1>2 DEF Next, vars, kioskVars, Polls, PollBegins, PollAnswered, PollFails, PollIsLate,
         PollTakesState, PollTakesGame, PollTakesBoot, NavAnswered, NavFails, Clicks,
         NewInstruction, SwitchToGame, SwitchToNormal, ResetAgain, SpawnSteps, BeforeRead,
         SpawnArrives, SpawnArrivesLate, SpawnSettles, AfterRead, TimerEnds, ResetSteps,
         ResetArrives, ResetArrivesLate, ResetIsOver, ResetAnswered, ResetGivenUp,
         Inspected, SessionCreated, Elsewhere
  <2> QED
    BY <2>3, <2>4 DEF RestTypes
<1> QED
  BY <1>1, <1>2

LEMMA CallTypes ==
    ASSUME KInv, RestTypes, [Next]_vars
    PROVE  /\ call' \in {"none", "sent", "taken", "ok", "failed", "rejected"}
           /\ again' \in BOOLEAN
<1>1. call' \in {call, "none", "sent", "taken", "ok", "failed", "rejected"}
      /\ again' \in {again, TRUE, FALSE}
  BY DEF Next, vars, kioskVars, flightVars, Polls, PollBegins, PollAnswered, PollFails,
         PollIsLate,
         PollTakesState, PollTakesGame, PollTakesBoot, NavAnswered, NavFails, Clicks,
         NewInstruction, SwitchToGame, SwitchToNormal, ResetAgain, SpawnSteps, BeforeRead,
         SpawnArrives, SpawnArrivesLate, SpawnSettles, AfterRead, TimerEnds, ResetSteps,
         ResetArrives, ResetArrivesLate, ResetIsOver, ResetAnswered, ResetGivenUp,
         Inspected, SessionCreated, Elsewhere
<1> QED
  BY <1>1 DEF RestTypes

LEMMA LateTypes ==
    ASSUME KInv, RestTypes, [Next]_vars
    PROVE  \A m \in late' : m.session \in Session
<1>1. \/ late' \subseteq late
      \/ SpawnSettles /\ GivesUp([post |-> "spawn", session |-> nav.session,
                                  id |-> nav.snap.id, boot |-> nav.snap.boot])
      \/ GivesUp([post |-> "reset", session |-> sid, id |-> 0, boot |-> 0])
  BY DEF Next, vars, kioskVars, flightVars, Polls, PollBegins, PollAnswered, PollFails,
         PollIsLate,
         PollTakesState, PollTakesGame, PollTakesBoot, NavAnswered, NavFails, Clicks,
         NewInstruction, SwitchToGame, SwitchToNormal, ResetAgain, SpawnSteps, BeforeRead,
         SpawnArrives, SpawnArrivesLate, SpawnSettles, AfterRead, TimerEnds, ResetSteps,
         ResetArrives, ResetArrivesLate, ResetIsOver, ResetAnswered, ResetGivenUp,
         Inspected, SessionCreated, Elsewhere
<1>2. ASSUME NEW m, m.session \in Session, GivesUp(m)
      PROVE  \A l \in late' : l.session \in Session
  BY <1>2 DEF GivesUp, RestTypes
<1>3. SpawnSettles => nav.session \in Session
  BY FloorHolds DEF SpawnSettles, KInv, NavInv, Current
<1> QED
  BY <1>1, <1>2, <1>3, FloorHolds DEF RestTypes

LEMMA ResettingTypes ==
    ASSUME KInv, RestTypes, [Next]_vars
    PROVE  resetting' \in {Nobody} \cup Session /\ admission' \in BOOLEAN
<1>1. \/ resetting' \in {resetting, Nobody}
      \/ \E m \in late : resetting' = m.session
      \/ resetting' = sid
  BY DEF Next, vars, serverVars, Polls, PollBegins, PollAnswered, PollFails, PollIsLate,
         PollTakesState, PollTakesGame, PollTakesBoot, NavAnswered, NavFails, Clicks,
         NewInstruction, SwitchToGame, SwitchToNormal, ResetAgain, SpawnSteps, BeforeRead,
         SpawnArrives, SpawnArrivesLate, SpawnSettles, AfterRead, TimerEnds, ResetSteps,
         ResetArrives, ResetArrivesLate, ResetIsOver, ResetAnswered, ResetGivenUp,
         Inspected, SessionCreated, Elsewhere, Creates, Spawns, ResetBegins, ResetEnds,
         ResetFails, OtherReboots, Observes, Works
<1>2. admission' \in {admission, TRUE, FALSE}
  BY DEF Next, vars, serverVars, Polls, PollBegins, PollAnswered, PollFails, PollIsLate,
         PollTakesState, PollTakesGame, PollTakesBoot, NavAnswered, NavFails, Clicks,
         NewInstruction, SwitchToGame, SwitchToNormal, ResetAgain, SpawnSteps, BeforeRead,
         SpawnArrives, SpawnArrivesLate, SpawnSettles, AfterRead, TimerEnds, ResetSteps,
         ResetArrives, ResetArrivesLate, ResetIsOver, ResetAnswered, ResetGivenUp,
         Inspected, SessionCreated, Elsewhere, Creates, Spawns, ResetBegins, ResetEnds,
         ResetFails, OtherReboots, Observes, Works
<1> QED
  BY <1>1, <1>2, FloorHolds DEF RestTypes

(* Every variable of the kiosk and of its server keeps its type, and the   *)
(* counters of POSTs and of reads without a target their bounds.           *)
THEOREM KioskTypes == Spec => []TypeOK
<1>1. Init => RestTypes
  <2> SUFFICES ASSUME Init
               PROVE  RestTypes
    OBVIOUS
  <2>1. posts <= MaxAttempt
    BY KioskAssumption DEF Init
  <2>2. attempt.absent <= AbsentReads
    BY LimitTypes DEF Init, NoAttempt
  <2> QED
    BY <2>1, <2>2 DEF Init, ServerInit, RestTypes
<1>2. ASSUME KInv, RestTypes, [Next]_vars
      PROVE  RestTypes'
  BY <1>2, GenerationTypes, PostTypes, AttemptTypes, CallTypes, LateTypes, ResettingTypes
     DEF RestTypes
<1>3. KInv /\ RestTypes => TypeOK
  <2> SUFFICES ASSUME KInv, RestTypes
               PROVE  TypeOK
    OBVIOUS
  <2>1. ServerTypeOK
    BY DEF ServerTypeOK, KInv, RoundsInv, RestTypes
  <2>2. posts \in 0..MaxAttempt
    BY KioskAssumption DEF KInv, ViewTypes, RestTypes
  <2>3. attempt.absent \in 0..AbsentReads
    BY LimitTypes, FlightRecords DEF AttemptType, RestTypes
  <2> QED
    BY <2>1, <2>2, <2>3 DEF TypeOK, KInv, ViewTypes, RestTypes
<1> QED
  BY <1>1, <1>2, <1>3, Inductive, PTL DEF Spec

-----------------------------------------------------------------------------
(* The screen waits for an attempt only while its POST is under way; from  *)
(* then on the timer of the attempt runs.                                  *)
AttemptIsCarried ==
    attempt # NoAttempt /\ ~attempt.settled =>
        nav.pc = "post" /\ nav.n = attempt.n

(* Nothing takes a flight from its POST but the answer or the time limit.  *)
LEMMA PostGoesOn ==
    ASSUME KInv, [Next]_vars, nav.pc = "post"
    PROVE  SpawnSettles \/ (nav'.pc = "post" /\ nav'.n = nav.n)
<1>1. CASE NavAnswered
  <2>1. nav' = [nav EXCEPT !.todo = Tail(@),
                  !.snap = Read(nav.snap, Head(nav.todo), nav.session, observed)]
    BY <1>1 DEF NavAnswered
  <2> QED
    BY <2>1, FlightRecords DEF NavType
<1>2. CASE Polls \/ UNCHANGED vars \/ Elsewhere
  BY <1>2 DEF Polls, PollBegins, PollAnswered, PollFails, PollIsLate, PollTakesState,
         PollTakesGame, PollTakesBoot, vars, flightVars, Elsewhere
<1>3. CASE NavFails \/ Clicks \/ \E s \in Session : SessionCreated(s)
  BY <1>3 DEF NavFails, Clicks, NewInstruction, SwitchToGame, SwitchToNormal, ResetAgain,
         MayNavigate, SessionCreated
<1>4. CASE SpawnSteps
  BY <1>4 DEF SpawnSteps, BeforeRead, SpawnArrives, SpawnArrivesLate, AfterRead, TimerEnds,
         flightVars
<1>5. CASE ResetSteps
  BY <1>5 DEF ResetSteps, ResetArrives, ResetArrivesLate, ResetIsOver, ResetAnswered,
         ResetGivenUp, Inspected, Resetting
<1> QED
  BY <1>1, <1>2, <1>3, <1>4, <1>5 DEF Next

(* A verdict leaves an attempt as settled as it was, and makes none.       *)
LEMMA ReconcileSettles ==
    ASSUME KInv, NEW snap, NEW passed, Reconcile(snap, passed),
           attempt' # NoAttempt
    PROVE  /\ attempt # NoAttempt
           /\ attempt'.settled = attempt.settled /\ attempt'.n = attempt.n
<1> DEFINE v == Verdict(attempt, snap)
<1> DEFINE reads == IF v = "absent" /\ attempt.settled
                    THEN IF attempt.absent < AbsentReads THEN attempt.absent + 1
                         ELSE AbsentReads
                    ELSE 0
<1>1. attempt' = [attempt EXCEPT !.absent = reads,
                       !.retry = @ \/ (reads = AbsentReads /\ passed)]
  BY DEF Reconcile
<1>2. attempt = NoAttempt => reads = 0 /\ reads # AbsentReads
  BY LimitTypes DEF NoAttempt
<1> HIDE DEF reads, v
<1>3. attempt # NoAttempt
  <2> SUFFICES ASSUME attempt = NoAttempt PROVE FALSE
    OBVIOUS
  <2>1. attempt' = [NoAttempt EXCEPT !.absent = 0, !.retry = @ \/ FALSE]
    BY <1>1, <1>2
  <2>2. attempt' = NoAttempt
    BY <2>1 DEF NoAttempt
  <2> QED
    BY <2>2
<1>4. attempt'.settled = attempt.settled /\ attempt'.n = attempt.n
  BY <1>1, FlightRecords DEF AttemptType
<1> QED
  BY <1>3, <1>4

(* An attempt that is not settled was so before, or is posted now.         *)
LEMMA UnsettledStep ==
    ASSUME KInv, [Next]_vars, attempt' # NoAttempt, ~attempt'.settled
    PROVE  \/ BeforeRead /\ nav'.pc = "post" /\ nav'.n = attempt'.n
           \/ /\ attempt # NoAttempt /\ ~attempt.settled
              /\ attempt'.n = attempt.n
              /\ SpawnSettles => nav.n # attempt.n
<1>1. CASE BeforeRead
  <2>1. CASE nav.snap.id # nav.snap.gid \/ nav.snap.boot = 0
    BY <1>1, <2>1 DEF BeforeRead, SpawnSettles
  <2>2. CASE nav.snap.id = nav.snap.gid /\ nav.snap.boot # 0 /\ nav.snap.spec # 0
    BY <1>1, <2>2 DEF BeforeRead
  <2>3. CASE nav.snap.id = nav.snap.gid /\ nav.snap.boot # 0 /\ nav.snap.spec = 0
    <3>1. CASE nav.snap.phase = "READY" /\ nav.snap.gphase = "READY"
      <4>1. attempt' = [NoAttempt EXCEPT !.n = posts + 1, !.id = nav.snap.id,
                           !.session = nav.session, !.boot = nav.snap.boot]
            /\ nav' = [nav EXCEPT !.pc = "post", !.n = posts + 1,
                            !.snap = [NoSnap EXCEPT !.id = nav.snap.id,
                                                    !.boot = nav.snap.boot]]
        BY <1>1, <2>3, <3>1 DEF BeforeRead
      <4>2. attempt'.n = posts + 1
        BY <4>1 DEF NoAttempt
      <4>3. nav'.pc = "post" /\ nav'.n = posts + 1
        BY <4>1, FlightRecords DEF NavType
      <4> QED
        BY <1>1, <4>2, <4>3
    <3>2. CASE ~(nav.snap.phase = "READY" /\ nav.snap.gphase = "READY")
      BY <1>1, <2>3, <3>2 DEF BeforeRead, SpawnSettles
    <3> QED
      BY <3>1, <3>2
  <2> QED
    BY <2>1, <2>2, <2>3
<1>2. CASE SpawnSettles
  <2>1. CASE attempt.n = nav.n
    BY <1>2, <2>1, FlightRecords DEF SpawnSettles, AttemptType
  <2>2. CASE attempt.n # nav.n
    BY <1>2, <2>2 DEF SpawnSettles
  <2> QED
    BY <2>1, <2>2
<1>3. ASSUME ~SpawnSettles, NEW snap, NEW passed, Reconcile(snap, passed)
      PROVE  /\ attempt # NoAttempt /\ ~attempt.settled
             /\ attempt'.n = attempt.n
  BY <1>3, ReconcileSettles
<1>4. CASE ~BeforeRead /\ ~SpawnSettles /\ ~\E snap, passed : Reconcile(snap, passed)
  <2>1. \/ attempt' = attempt
        \/ TimerEnds
    BY <1>4 DEF Next, vars, kioskVars, Polls, PollBegins, PollAnswered, PollFails, PollIsLate,
         PollTakesState, PollTakesGame, PollTakesBoot, NavAnswered, NavFails, Clicks,
         NewInstruction, SwitchToGame, SwitchToNormal, ResetAgain, SpawnSteps,
         SpawnArrives, SpawnArrivesLate, AfterRead, ResetSteps,
         ResetArrives, ResetArrivesLate, ResetIsOver, ResetAnswered, ResetGivenUp,
         Inspected, SessionCreated, Elsewhere
  <2>2. ~TimerEnds
    BY FlightRecords DEF TimerEnds, AttemptType
  <2> QED
    BY <1>4, <2>1, <2>2
<1> QED
  BY <1>1, <1>2, <1>3, <1>4

(* "The screen is not blocked for ever even if the GETs do not answer"     *)
(* (App.tsx, 1244), the part that is no liveness: an attempt without its   *)
(* timer has its POST under way, whatever polls and resets do meanwhile.   *)
THEOREM AttemptsCarried == Spec => []AttemptIsCarried
<1>1. Init => AttemptIsCarried
  BY DEF Init, AttemptIsCarried
<1>2. ASSUME KInv, AttemptIsCarried, [Next]_vars
      PROVE  AttemptIsCarried'
  <2> SUFFICES ASSUME attempt' # NoAttempt, ~attempt'.settled
               PROVE  nav'.pc = "post" /\ nav'.n = attempt'.n
    BY DEF AttemptIsCarried
  <2> QED
    BY <1>2, UnsettledStep, PostGoesOn DEF AttemptIsCarried
<1> QED
  BY <1>1, <1>2, Inductive, PTL DEF Spec

=============================================================================
