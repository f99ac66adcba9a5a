------------------------- MODULE KioskVerdict_proofs -------------------------
(***************************************************************************)
(* That the kiosk judges its spawn rightly from GETs alone: for any number *)
(* of sessions, rounds, boots, polls and POSTs, checked by TLAPS.  The     *)
(* invariant of Kiosk_proofs says which round a snapshot is of; here its   *)
(* parts are dated as well.                                                *)
(***************************************************************************)
EXTENDS Kiosk_proofs

(* live.json lags behind the simulator, and a target is only spawned in    *)
(* the boot that it names.                                                 *)
BootsInv ==
    /\ observed <= boot
    /\ \A s \in Session : rounds[s].spec <= observed

(* No part of a snapshot is newer than what the server says, and a target  *)
(* no newer than the boot that was observed when it was read.              *)
Dated(snap, live) ==
    /\ snap.seenIn <= live /\ snap.boot <= live
    /\ snap.spec <= snap.seenIn

DatesInv == Dated(nav.snap, observed) /\ Dated(poll.snap, observed)

(* What readSpawnSnapshot() has still to read, the boot last.              *)
Left == {<<"state", "game", "live">>, <<"game", "live">>, <<"live">>, <<>>}

(* The boot of a snapshot is as new as its target, and the target stays    *)
(* that of the round.                                                      *)
AfterInv ==
    nav.pc = "after" =>
       /\ nav.todo \in Left
       /\ nav.todo # <<>> => nav.snap.boot = 0
       /\ nav.todo = <<>> => nav.snap.seenIn <= nav.snap.boot
       /\ nav.snap.gid <= rounds[nav.session].id
       /\ nav.snap.gid = rounds[nav.session].id /\ nav.snap.spec # 0 =>
             rounds[nav.session].spec = nav.snap.spec

(* The attempt that a flight has posted is of its session, and of a round  *)
(* and a boot that were there before the flight read again.                *)
OwnAttempt ==
    /\ attempt.session = nav.session
    /\ attempt.id <= rounds[nav.session].id
    /\ attempt.boot <= observed
    /\ nav.pc = "after" =>
          /\ nav.todo # <<"state", "game", "live">> => attempt.id <= nav.snap.id
          /\ nav.todo = <<>> => attempt.boot <= nav.snap.boot

AttemptInv ==
    nav.pc \in {"post", "after"} =>
       /\ nav.n # 0
       /\ nav.n = attempt.n => OwnAttempt

VInv == BootsInv /\ DatesInv /\ AfterInv /\ AttemptInv

(* What a step of the server may do: rounds and boots only get newer, and  *)
(* the target of a round is not exchanged.                                 *)
Later ==
    /\ observed' >= observed
    /\ \A s \in Session :
          /\ rounds'[s].id >= rounds[s].id
          /\ rounds'[s].id = rounds[s].id /\ rounds[s].spec # 0 =>
                rounds'[s].spec = rounds[s].spec

-----------------------------------------------------------------------------
LEMMA RoundTypes ==
    ASSUME RoundsInv
    PROVE  /\ lastRound \in Nat /\ boot \in Nat /\ observed \in Nat
           /\ \A s \in Session : /\ rounds[s].id \in Nat /\ rounds[s].spec \in Nat
                                 /\ rounds[s].id <= lastRound
BY DEF RoundsInv

(* A step that writes one round.                                           *)
LEMMA OneRoundLater ==
    ASSUME RoundsInv, BootsInv, NEW s, NEW r, rounds' = [rounds EXCEPT ![s] = r],
           observed' = observed, boot' \in Nat, boot' >= boot,
           s \in Session =>
              /\ r.id \in Nat /\ r.id >= rounds[s].id
              /\ r.spec \in Nat /\ r.spec <= observed
              /\ r.id = rounds[s].id /\ rounds[s].spec # 0 => r.spec = rounds[s].spec
    PROVE  BootsInv' /\ Later
<1>1. ASSUME NEW t \in Session
      PROVE  rounds'[t] = IF t = s THEN r ELSE rounds[t]
  BY DEF RoundsInv
<1>2. boot \in Nat /\ observed \in Nat
      /\ \A t \in Session : rounds[t].id \in Nat /\ rounds[t].spec \in Nat
  BY RoundTypes
<1>3. ASSUME NEW t \in Session
      PROVE  /\ rounds'[t].spec <= observed
             /\ rounds'[t].id >= rounds[t].id
             /\ rounds'[t].id = rounds[t].id /\ rounds[t].spec # 0 =>
                   rounds'[t].spec = rounds[t].spec
  <2>1. CASE t = s
    <3>1. rounds'[t] = r
      BY <1>1, <2>1
    <3> QED
      BY <2>1, <3>1
  <2>2. CASE t # s
    <3>1. rounds'[t] = rounds[t]
      BY <1>1, <2>2
    <3> QED
      BY <1>2, <3>1 DEF BootsInv
  <2> QED
    BY <2>1, <2>2
<1>4. observed' >= observed /\ observed' <= boot'
  BY <1>2 DEF BootsInv
<1> QED
  BY <1>3, <1>4 DEF BootsInv, Later

(* The server as the kiosk meets it: a POST gives a round its target only  *)
(* when the round has none and live.json names the boot that is up.        *)
LEMMA ServerLater ==
    ASSUME RoundsInv, BootsInv, NEW s,
           \/ UNCHANGED serverVars
           \/ Spawnable(s, rounds[s].id, boot) /\ Spawns(s)
           \/ Creates(s) \/ ResetBegins(s) \/ ResetEnds
           \/ ResetFails \/ OtherReboots \/ Observes \/ Works(s)
    PROVE  BootsInv' /\ Later
<1>1. /\ lastRound \in Nat /\ boot \in Nat /\ observed \in Nat /\ observed <= boot
      /\ \A t \in Session : /\ rounds[t].id \in Nat /\ rounds[t].spec \in Nat
                            /\ rounds[t].id <= lastRound /\ rounds[t].spec <= observed
  BY RoundTypes DEF BootsInv
<1>2. CASE UNCHANGED serverVars \/ OtherReboots \/ Observes
  <2>1. rounds' = rounds /\ boot' \in {boot, boot + 1} /\ observed' \in {observed, boot}
        /\ (observed' = observed \/ boot' = boot)
    BY <1>2 DEF serverVars, OtherReboots, Observes
  <2>2. observed' >= observed /\ observed' <= boot'
    BY <1>1, <2>1
  <2>3. \A t \in Session : rounds[t].spec <= observed'
    BY <1>1, <2>1
  <2> QED
    BY <1>1, <2>1, <2>2, <2>3 DEF BootsInv, Later
<1>3. CASE Spawnable(s, rounds[s].id, boot) /\ Spawns(s)
  <2>1. /\ rounds' = [rounds EXCEPT ![s].spec = boot]
        /\ observed = boot /\ rounds[s].spec = 0 /\ observed' = observed /\ boot' = boot
    BY <1>3 DEF Spawnable, Spawns
  <2>2. PICK r : r = [rounds[s] EXCEPT !.spec = boot]
    OBVIOUS
  <2>3. rounds' = [rounds EXCEPT ![s] = r]
    BY <2>1, <2>2
  <2>4. s \in Session => r.id = rounds[s].id /\ r.spec = boot
    <3>1. s \in Session => rounds[s] \in [id : Nat, phase : Phase, spec : Nat]
      BY DEF RoundsInv
    <3> QED
      BY <2>2, <3>1
  <2>5. s \in Session => /\ r.id \in Nat /\ r.id >= rounds[s].id
                         /\ r.spec \in Nat /\ r.spec <= observed
    BY <1>1, <2>1, <2>4
  <2> QED
    BY <1>1, <2>1, <2>3, <2>5, OneRoundLater
<1>4. ASSUME NEW t, NEW ph, rounds' = [rounds EXCEPT ![t].phase = ph],
             observed' = observed, boot' \in {boot, boot + 1}
      PROVE  BootsInv' /\ Later
  <2>1. PICK r : r = [rounds[t] EXCEPT !.phase = ph]
    OBVIOUS
  <2>2. rounds' = [rounds EXCEPT ![t] = r]
    BY <1>4, <2>1
  <2>3. t \in Session => r.id = rounds[t].id /\ r.spec = rounds[t].spec
    <3>1. t \in Session => rounds[t] \in [id : Nat, phase : Phase, spec : Nat]
      BY DEF RoundsInv
    <3> QED
      BY <2>1, <3>1
  <2>4. boot' \in Nat /\ boot' >= boot
    BY <1>1, <1>4
  <2>5. t \in Session => /\ r.id \in Nat /\ r.id >= rounds[t].id
                         /\ r.spec \in Nat /\ r.spec <= observed
    BY <1>1, <2>3
  <2> QED
    BY <1>4, <2>2, <2>3, <2>4, <2>5, OneRoundLater
<1>5. ASSUME NEW t, rounds' = [rounds EXCEPT ![t] = NewRound(lastRound + 1)],
             observed' = observed, boot' \in {boot, boot + 1}
      PROVE  BootsInv' /\ Later
  <2>1. PICK r : r = NewRound(lastRound + 1)
    OBVIOUS
  <2>2. r.id = lastRound + 1 /\ r.spec = 0
    BY <2>1 DEF NewRound
  <2>3. boot' \in Nat /\ boot' >= boot
    BY <1>1, <1>5
  <2>4. t \in Session => /\ r.id \in Nat /\ r.id > rounds[t].id
                         /\ r.spec \in Nat /\ r.spec <= observed
    BY <1>1, <2>2
  <2>5. t \in Session => r.id >= rounds[t].id /\ r.id # rounds[t].id
    BY <1>1, <2>4
  <2> QED
    BY <1>5, <2>1, <2>3, <2>4, <2>5, OneRoundLater
<1>6. CASE Creates(s) \/ ResetEnds
  BY <1>5, <1>6 DEF Creates, ResetEnds
<1>7. CASE ResetBegins(s) \/ ResetFails \/ Works(s)
  BY <1>4, <1>7 DEF ResetBegins, ResetFails, Works
<1> QED
  BY <1>2, <1>3, <1>6, <1>7

-----------------------------------------------------------------------------
LEMMA FlightFacts ==
    ASSUME KInv
    PROVE  /\ observed \in Nat /\ boot \in Nat
           /\ nav.snap.boot \in Nat /\ nav.snap.seenIn \in Nat /\ nav.snap.spec \in Nat
           /\ nav.snap.id \in Nat /\ nav.snap.gid \in Nat
           /\ poll.snap.boot \in Nat /\ poll.snap.seenIn \in Nat /\ poll.snap.spec \in Nat
           /\ attempt.id \in Nat /\ attempt.boot \in Nat
           /\ nav.pc \in {"before", "post", "after"} =>
                 /\ nav.session \in Session
                 /\ rounds[nav.session].id \in Nat /\ rounds[nav.session].spec \in Nat
                 /\ nav.snap.id <= rounds[nav.session].id
<1>1. /\ nav.snap.boot \in Nat /\ nav.snap.seenIn \in Nat /\ nav.snap.spec \in Nat
      /\ nav.snap.id \in Nat /\ nav.snap.gid \in Nat
      /\ poll.snap.boot \in Nat /\ poll.snap.seenIn \in Nat /\ poll.snap.spec \in Nat
  BY FlightRecords DEF SnapType
<1>2. attempt.id \in Nat /\ attempt.boot \in Nat
  BY FlightRecords DEF AttemptType
<1>3. nav.pc \in {"before", "post", "after"} => /\ nav.session \in Session
                                                /\ nav.snap.id <= rounds[nav.session].id
  BY FloorHolds DEF KInv, NavInv, Current
<1> QED
  BY <1>1, <1>2, <1>3, RoundTypes DEF KInv

LEMMA EmptyIsDated ==
    ASSUME NEW live \in Nat
    PROVE  Dated(NoSnap, live)
BY DEF Dated, NoSnap

(* A snapshot that nothing is added to stays dated.                        *)
LEMMA StaysDated ==
    ASSUME KInv, KInv', VInv, Later
    PROVE  /\ nav'.snap = nav.snap => Dated(nav'.snap, observed')
           /\ poll'.snap = poll.snap => Dated(poll'.snap, observed')
<1>1. observed' \in Nat /\ observed' >= observed
  BY RoundTypes DEF KInv, RoundsInv, Later
<1> QED
  BY <1>1, FlightFacts DEF VInv, DatesInv, Dated

(* A step that leaves the flight of the navigation alone.                  *)
LEMMA NavStays ==
    ASSUME KInv, KInv', VInv, BootsInv', Later, nav' = nav, Dated(poll'.snap, observed'),
           \/ attempt' = NoAttempt
           \/ /\ attempt'.n = attempt.n /\ attempt'.session = attempt.session
              /\ attempt'.id = attempt.id /\ attempt'.boot = attempt.boot
    PROVE  VInv'
<1>1. DatesInv'
  BY StaysDated DEF DatesInv
<1>2. AfterInv'
  <2> SUFFICES ASSUME nav.pc = "after"
               PROVE  /\ nav.snap.gid <= rounds'[nav.session].id
                      /\ nav.snap.gid = rounds'[nav.session].id /\ nav.snap.spec # 0 =>
                            rounds'[nav.session].spec = nav.snap.spec
    BY DEF VInv, AfterInv
  <2>1. /\ nav.session \in Session /\ nav.snap.gid \in Nat
        /\ rounds[nav.session].id \in Nat /\ rounds[nav.session].spec \in Nat
        /\ nav.snap.gid <= rounds[nav.session].id
        /\ nav.snap.gid = rounds[nav.session].id /\ nav.snap.spec # 0 =>
              rounds[nav.session].spec = nav.snap.spec
    BY FlightFacts DEF VInv, AfterInv
  <2>2. /\ rounds'[nav.session].id >= rounds[nav.session].id
        /\ rounds'[nav.session].id = rounds[nav.session].id
           /\ rounds[nav.session].spec # 0 =>
              rounds'[nav.session].spec = rounds[nav.session].spec
    BY <2>1 DEF Later
  <2>3. rounds'[nav.session].id \in Nat
    BY <2>1 DEF KInv, RoundsInv
  <2> QED
    BY <2>1, <2>2, <2>3
<1>3. AttemptInv'
  <2> SUFFICES ASSUME nav.pc \in {"post", "after"}
               PROVE  nav.n # 0 /\ (nav.n = attempt'.n => OwnAttempt')
    BY DEF AttemptInv
  <2>1. nav.n # 0 /\ (nav.n = attempt.n => OwnAttempt)
    BY DEF VInv, AttemptInv
  <2>2. CASE attempt' = NoAttempt
    BY <2>1, <2>2 DEF NoAttempt
  <2>3. CASE /\ attempt'.n = attempt.n /\ attempt'.session = attempt.session
             /\ attempt'.id = attempt.id /\ attempt'.boot = attempt.boot
    <3> SUFFICES ASSUME nav.n = attempt.n
                 PROVE  OwnAttempt'
      BY <2>1, <2>3
    <3>1. OwnAttempt /\ nav.session \in Session
      BY <2>1, FlightFacts
    <3>2. rounds'[nav.session].id >= rounds[nav.session].id /\ observed' >= observed
      BY <3>1 DEF Later
    <3>3. /\ rounds'[nav.session].id \in Nat /\ rounds[nav.session].id \in Nat
          /\ observed' \in Nat /\ observed \in Nat
          /\ attempt.id \in Nat /\ attempt.boot \in Nat
      BY <3>1, FlightFacts DEF KInv, RoundsInv
    <3>4. attempt.id <= rounds'[nav.session].id /\ attempt.boot <= observed'
      BY <3>1, <3>2, <3>3 DEF OwnAttempt
    <3> QED
      BY <2>3, <3>1, <3>4 DEF OwnAttempt
  <2> QED
    BY <2>2, <2>3
<1> QED
  BY <1>1, <1>2, <1>3 DEF VInv

(* A step after which nothing is awaited of a spawn.                       *)
LEMMA NavElsewhere ==
    ASSUME KInv, KInv', VInv, BootsInv', Later, poll'.snap = poll.snap,
           Dated(nav'.snap, observed'), nav'.pc \notin {"post", "after"}
    PROVE  VInv'
BY StaysDated DEF VInv, DatesInv, AfterInv, AttemptInv

LEMMA ServerStays ==
    ASSUME KInv, VInv, UNCHANGED serverVars
    PROVE  BootsInv' /\ Later
BY ServerLater DEF KInv, VInv

-----------------------------------------------------------------------------
(* The verdict keeps the attempt or ends it.                               *)
LEMMA ReconcileKeeps ==
    ASSUME KInv, NEW snap, NEW passed, Reconcile(snap, passed)
    PROVE  \/ attempt' = NoAttempt
           \/ /\ attempt'.n = attempt.n /\ attempt'.session = attempt.session
              /\ attempt'.id = attempt.id /\ attempt'.boot = attempt.boot
<1>1. attempt \in AttemptType
  BY FlightRecords
<1>2. \/ attempt' = NoAttempt
      \/ \E absent, retry :
            attempt' = [attempt EXCEPT !.absent = absent, !.retry = retry]
  BY DEF Reconcile
<1> QED
  BY <1>1, <1>2 DEF AttemptType

(* What each GET adds to a snapshot, and what it leaves.                   *)
LEMMA ReadParts ==
    ASSUME NEW snap \in SnapType, NEW s, NEW live
    PROVE  /\ LET new == Read(snap, "state", s, live) IN
              /\ new.id = rounds[s].id /\ new.gid = snap.gid /\ new.spec = snap.spec
              /\ new.boot = snap.boot /\ new.seenIn = snap.seenIn
           /\ LET new == Read(snap, "game", s, live) IN
              /\ new.id = snap.id /\ new.gid = rounds[s].id /\ new.spec = rounds[s].spec
              /\ new.boot = snap.boot /\ new.seenIn = observed
           /\ LET new == Read(snap, "live", s, live) IN
              /\ new.id = snap.id /\ new.gid = snap.gid /\ new.spec = snap.spec
              /\ new.boot = live /\ new.seenIn = snap.seenIn
<1>1. snap \in [id : Nat, phase : Phase, gid : Nat, gphase : Phase,
                spec : Nat, boot : Nat, seenIn : Nat]
  BY DEF SnapType
<1> QED
  BY <1>1 DEF Read

(* A poll dates what it reads by the boot that is observed then.           *)
LEMMA PollReadsDated ==
    ASSUME KInv, VInv, NEW what \in {"state", "game"}, NEW s \in Session,
           NEW snap, snap \in SnapType, Dated(snap, observed), NEW live
    PROVE  Dated(Read(snap, what, s, live), observed)
<1>1. /\ rounds[s].spec \in Nat /\ rounds[s].spec <= observed /\ observed \in Nat
  BY RoundTypes DEF KInv, VInv, BootsInv
<1>2. CASE what = "state"
  BY <1>2, ReadParts DEF Dated
<1>3. CASE what = "game"
  BY <1>1, <1>3, ReadParts DEF Dated
<1> QED
  BY <1>2, <1>3

LEMMA PollsStep ==
    ASSUME KInv, KInv', VInv, Polls
    PROVE  VInv'
<1>1. UNCHANGED <<serverVars, nav>>
  BY DEF Polls, PollBegins, PollAnswered, PollFails, PollIsLate, PollTakesState,
         PollTakesGame, PollTakesBoot
<1>2. BootsInv' /\ Later /\ observed' = observed /\ observed \in Nat
  BY <1>1, ServerStays, FlightFacts DEF serverVars
<1>3. Dated(NoPoll.snap, observed)
  BY <1>2, EmptyIsDated DEF NoPoll
<1>4. \/ attempt' = attempt \/ attempt' = NoAttempt
      \/ /\ attempt'.n = attempt.n /\ attempt'.session = attempt.session
         /\ attempt'.id = attempt.id /\ attempt'.boot = attempt.boot
  <2>1. CASE PollTakesBoot
    <3>1. \/ attempt' = attempt
          \/ \E snap, passed : Reconcile(snap, passed)
      BY <2>1 DEF PollTakesBoot
    <3> QED
      BY <3>1, ReconcileKeeps
  <2>2. CASE ~PollTakesBoot
    BY <2>2 DEF Polls, PollBegins, PollAnswered, PollFails, PollIsLate, PollTakesState,
                PollTakesGame, kioskVars
  <2> QED
    BY <2>1, <2>2
<1>5. Dated(poll'.snap, observed)
  <2>1. Dated(poll.snap, observed) /\ poll \in PollType /\ poll.snap \in SnapType
    BY FlightRecords DEF VInv, DatesInv
  <2>2. CASE PollBegins
    <3> DEFINE snap == Read(NoSnap, "state", sid, 0)
    <3>1. Dated(snap, observed)
      BY <1>2, EmptySnap, EmptyIsDated, FloorHolds, PollReadsDated
    <3>2. poll'.snap = snap
      BY <2>2 DEF PollBegins, NoPoll
    <3> QED
      BY <3>1, <3>2
  <2>3. CASE PollAnswered
    <3> DEFINE snap == Read(poll.snap, "game", poll.session, 0)
    <3>1. poll.session \in Session
      BY <2>3 DEF PollAnswered, KInv, SessionsInv
    <3>2. Dated(snap, observed)
      BY <2>1, <3>1, PollReadsDated
    <3>3. poll'.snap = snap
      BY <2>1, <2>3 DEF PollAnswered, PollType
    <3> QED
      BY <3>2, <3>3
  <2>4. CASE poll' = NoPoll
    BY <1>3, <2>4
  <2>5. CASE poll'.snap = poll.snap
    BY <2>1, <2>5
  <2>6. CASE PollTakesState \/ PollTakesGame
    <3>1. poll'.snap = poll.snap \/ poll' = NoPoll
      BY <2>1, <2>6 DEF PollTakesState, PollTakesGame, PollType
    <3> QED
      BY <2>4, <2>5, <3>1
  <2>7. CASE PollFails \/ PollIsLate \/ PollTakesBoot
    BY <2>4, <2>7 DEF PollFails, PollIsLate, PollTakesBoot
  <2> QED
    BY <2>2, <2>3, <2>6, <2>7 DEF Polls
<1> QED
  BY <1>1, <1>2, <1>4, <1>5, NavStays

-----------------------------------------------------------------------------
(* The reads of a flight, the boot last.                                   *)
LEMMA ReadOrder ==
    /\ Reads = <<"state", "game", "live">>
    /\ Head(<<"state", "game", "live">>) = "state"
    /\ Tail(<<"state", "game", "live">>) = <<"game", "live">>
    /\ Head(<<"game", "live">>) = "game" /\ Tail(<<"game", "live">>) = <<"live">>
    /\ Head(<<"live">>) = "live" /\ Tail(<<"live">>) = <<>>
    /\ <<"game", "live">> # <<"state", "game", "live">>
    /\ <<"live">> # <<"state", "game", "live">>
    /\ <<>> # <<"state", "game", "live">> /\ <<"game", "live">> # <<>>
    /\ <<"live">> # <<>>
BY DEF Reads

LEMMA NavAnsweredStep ==
    ASSUME KInv, KInv', VInv, NavAnswered
    PROVE  VInv'
<1>1. /\ UNCHANGED <<serverVars, attempt, poll>>
      /\ nav.todo # <<>>
      /\ nav' = [nav EXCEPT !.todo = Tail(@),
                            !.snap = Read(nav.snap, Head(nav.todo), nav.session, observed)]
  BY DEF NavAnswered, kioskVars
<1>2. BootsInv' /\ Later /\ observed' = observed /\ rounds' = rounds
  BY <1>1, ServerStays DEF serverVars
<1> DEFINE snap == Read(nav.snap, Head(nav.todo), nav.session, observed)
<1>3. /\ nav'.todo = Tail(nav.todo) /\ nav'.snap = snap /\ nav'.pc = nav.pc
      /\ nav'.session = nav.session /\ nav'.n = nav.n
  BY <1>1, FlightRecords DEF NavType
<1>4. /\ nav.session \in Session /\ nav.snap \in SnapType /\ Dated(nav.snap, observed)
      /\ Head(nav.todo) \in {"state", "game", "live"}
  BY <1>1, FlightRecords DEF KInv, SessionsInv, VInv, DatesInv, NavType
<1>5. /\ observed \in Nat /\ nav.snap.spec \in Nat /\ nav.snap.seenIn \in Nat
      /\ rounds[nav.session].id \in Nat /\ rounds[nav.session].spec \in Nat
  BY <1>4, FlightFacts, RoundTypes DEF KInv
<1>6. Dated(snap, observed)
  <2>1. CASE Head(nav.todo) \in {"state", "game"}
    BY <1>4, <2>1, PollReadsDated
  <2>2. CASE Head(nav.todo) = "live"
    BY <1>4, <1>5, <2>2, ReadParts DEF Dated
  <2> QED
    BY <1>4, <2>1, <2>2
<1> HIDE DEF snap
<1>7. DatesInv'
  BY <1>1, <1>2, <1>3, <1>6, StaysDated DEF DatesInv
<1>8. CASE nav.pc \notin {"post", "after"}
  BY <1>2, <1>3, <1>6, <1>8, <1>1, NavElsewhere
<1>9. CASE nav.pc = "post"
  <2>1. nav.n # 0 /\ (nav.n = attempt.n => OwnAttempt)
    BY <1>9 DEF VInv, AttemptInv
  <2>2. AttemptInv'
    BY <1>1, <1>2, <1>3, <1>9, <2>1 DEF AttemptInv, OwnAttempt
  <2>3. AfterInv'
    BY <1>3, <1>9 DEF AfterInv
  <2> QED
    BY <1>2, <1>7, <2>2, <2>3 DEF VInv
<1>10. CASE nav.pc = "after"
  <2>1. /\ nav.todo \in Left /\ nav.snap.boot = 0
        /\ nav.snap.gid <= rounds[nav.session].id
        /\ nav.snap.gid = rounds[nav.session].id /\ nav.snap.spec # 0 =>
              rounds[nav.session].spec = nav.snap.spec
        /\ nav.n # 0 /\ (nav.n = attempt.n => OwnAttempt)
    BY <1>1, <1>10 DEF VInv, AfterInv, AttemptInv
  <2>2. CASE nav.todo = <<"state", "game", "live">>
    <3>1. nav'.todo = <<"game", "live">> /\ snap = Read(nav.snap, "state", nav.session, observed)
      BY <1>3, <2>2, ReadOrder DEF snap
    <3>2. /\ snap.id = rounds[nav.session].id /\ snap.gid = nav.snap.gid
          /\ snap.spec = nav.snap.spec /\ snap.boot = 0
      BY <1>4, <2>1, <3>1, ReadParts
    <3>3. AfterInv'
      BY <1>2, <1>3, <2>1, <3>1, <3>2, ReadOrder DEF AfterInv, Left
    <3>4. AttemptInv'
      BY <1>1, <1>2, <1>3, <1>10, <2>1, <3>1, <3>2, ReadOrder DEF AttemptInv, OwnAttempt
    <3> QED
      BY <1>2, <1>7, <3>3, <3>4 DEF VInv
  <2>3. CASE nav.todo = <<"game", "live">>
    <3>1. nav'.todo = <<"live">> /\ snap = Read(nav.snap, "game", nav.session, observed)
      BY <1>3, <2>3, ReadOrder DEF snap
    <3>2. /\ snap.id = nav.snap.id /\ snap.gid = rounds[nav.session].id
          /\ snap.spec = rounds[nav.session].spec /\ snap.boot = 0
      BY <1>4, <2>1, <3>1, ReadParts
    <3>3. AfterInv'
      <4>1. /\ nav'.snap.gid = rounds'[nav'.session].id
            /\ nav'.snap.spec = rounds'[nav'.session].spec
            /\ nav'.snap.gid <= rounds'[nav'.session].id
            /\ nav'.snap.boot = 0
        BY <1>2, <1>3, <1>5, <3>2
      <4>2. nav'.todo \in Left /\ nav'.todo # <<>>
        BY <3>1, ReadOrder DEF Left
      <4> QED
        BY <4>1, <4>2 DEF AfterInv
    <3>4. AttemptInv'
      BY <1>1, <1>2, <1>3, <1>10, <2>1, <2>3, <3>1, <3>2, ReadOrder DEF AttemptInv, OwnAttempt
    <3> QED
      BY <1>2, <1>7, <3>3, <3>4 DEF VInv
  <2>4. CASE nav.todo = <<"live">>
    <3>1. nav'.todo = <<>> /\ snap = Read(nav.snap, "live", nav.session, observed)
      BY <1>3, <2>4, ReadOrder DEF snap
    <3>2. /\ snap.id = nav.snap.id /\ snap.gid = nav.snap.gid
          /\ snap.spec = nav.snap.spec /\ snap.boot = observed
          /\ snap.seenIn = nav.snap.seenIn
      BY <1>4, <3>1, ReadParts
    <3>3. snap.seenIn <= snap.boot
      BY <1>4, <3>2 DEF Dated
    <3>4. AfterInv'
      BY <1>2, <1>3, <2>1, <3>1, <3>2, <3>3 DEF AfterInv, Left
    <3>5. AttemptInv'
      BY <1>1, <1>2, <1>3, <1>10, <2>1, <2>4, <3>1, <3>2, ReadOrder DEF AttemptInv, OwnAttempt
    <3> QED
      BY <1>2, <1>7, <3>4, <3>5 DEF VInv
  <2> QED
    BY <1>1, <2>1, <2>2, <2>3, <2>4 DEF Left
<1> QED
  BY <1>8, <1>9, <1>10

-----------------------------------------------------------------------------
(* The POST is made for the round and the boot that have just been read.   *)
LEMMA BeforeReadStep ==
    ASSUME KInv, KInv', VInv, BeforeRead
    PROVE  VInv'
<1>1. UNCHANGED <<serverVars, poll>> /\ nav.pc = "before"
  BY DEF BeforeRead
<1>2. BootsInv' /\ Later /\ observed' = observed /\ rounds' = rounds
  BY <1>1, ServerStays DEF serverVars
<1>3. CASE nav' = NoNav
  <2>1. nav'.pc = "idle" /\ Dated(nav'.snap, observed')
    BY <1>2, <1>3, FlightFacts, EmptyIsDated DEF NoNav
  <2> QED
    BY <1>1, <1>2, <2>1, NavElsewhere
<1>4. CASE nav' # NoNav
  <2> DEFINE asked == [NoSnap EXCEPT !.id = nav.snap.id, !.boot = nav.snap.boot]
  <2>1. /\ attempt' = [NoAttempt EXCEPT !.n = posts + 1, !.id = nav.snap.id,
                             !.session = nav.session, !.boot = nav.snap.boot]
        /\ nav' = [nav EXCEPT !.pc = "post", !.n = posts + 1, !.snap = asked]
    BY <1>4 DEF BeforeRead
  <2>2. /\ asked.id = nav.snap.id /\ asked.boot = nav.snap.boot
        /\ asked.spec = 0 /\ asked.seenIn = 0
    BY DEF NoSnap
  <2> HIDE DEF asked
  <2>3. /\ nav'.pc = "post" /\ nav'.n = posts + 1 /\ nav'.snap = asked
        /\ nav'.session = nav.session
    BY <2>1, FlightRecords DEF NavType
  <2>4. /\ attempt'.id = nav.snap.id /\ attempt'.session = nav.session
        /\ attempt'.boot = nav.snap.boot
    BY <2>1 DEF NoAttempt
  <2>5. Dated(nav.snap, observed) /\ observed \in Nat /\ posts \in Nat
        /\ nav.snap.id <= rounds[nav.session].id
    BY <1>1, FlightFacts DEF VInv, DatesInv, KInv, ViewTypes
  <2>6. DatesInv'
    BY <1>1, <1>2, <2>2, <2>3, <2>5, StaysDated DEF DatesInv, Dated
  <2>7. OwnAttempt'
    BY <1>2, <2>3, <2>4, <2>5 DEF OwnAttempt, Dated
  <2>8. posts + 1 # 0
    BY <2>5
  <2>9. AttemptInv' /\ AfterInv'
    BY <2>3, <2>7, <2>8 DEF AttemptInv, AfterInv
  <2> QED
    BY <1>2, <2>6, <2>9 DEF VInv
<1> QED
  BY <1>3, <1>4

(* After the answer everything is read again.                              *)
LEMMA SpawnSettlesStep ==
    ASSUME KInv, KInv', VInv, SpawnSettles
    PROVE  VInv'
<1>1. UNCHANGED <<serverVars, poll>> /\ nav.pc = "post"
  BY DEF SpawnSettles
<1>2. BootsInv' /\ Later /\ observed' = observed /\ rounds' = rounds
  BY <1>1, ServerStays DEF serverVars
<1>3. CASE nav' = NoNav
  <2>1. nav'.pc = "idle" /\ Dated(nav'.snap, observed')
    BY <1>2, <1>3, FlightFacts, EmptyIsDated DEF NoNav
  <2> QED
    BY <1>1, <1>2, <2>1, NavElsewhere
<1>4. CASE nav' # NoNav
  <2>1. /\ attempt' = [attempt EXCEPT !.settled = TRUE]
        /\ nav' = [nav EXCEPT !.pc = "after", !.todo = Reads, !.snap = NoSnap]
        /\ attempt.n = nav.n
    BY <1>4 DEF SpawnSettles
  <2>2. /\ nav'.pc = "after" /\ nav'.todo = Reads /\ nav'.snap = NoSnap
        /\ nav'.session = nav.session /\ nav'.n = nav.n
    BY <2>1, FlightRecords DEF NavType
  <2>3. /\ attempt'.id = attempt.id /\ attempt'.session = attempt.session
        /\ attempt'.boot = attempt.boot
    BY <2>1, FlightRecords DEF AttemptType
  <2>4. nav.n # 0 /\ OwnAttempt /\ rounds[nav.session].id \in Nat
    BY <1>1, <2>1, FlightFacts DEF VInv, AttemptInv
  <2>5. /\ NoSnap.boot = 0 /\ NoSnap.gid = 0 /\ NoSnap.spec = 0
    BY DEF NoSnap
  <2>6. DatesInv'
    BY <1>1, <1>2, <2>2, FlightFacts, EmptyIsDated, StaysDated DEF DatesInv
  <2>7. AfterInv'
    BY <1>2, <2>2, <2>4, <2>5, ReadOrder DEF AfterInv, Left
  <2>8. AttemptInv'
    BY <1>1, <1>2, <2>2, <2>3, <2>4, ReadOrder DEF AttemptInv, OwnAttempt
  <2> QED
    BY <1>2, <2>6, <2>7, <2>8 DEF VInv
<1> QED
  BY <1>3, <1>4

-----------------------------------------------------------------------------
(* Steps of the server, timely or late, and of the clocks.                 *)
LEMMA ServerStep ==
    ASSUME KInv, KInv', VInv,
           \/ TimerEnds \/ SpawnArrives \/ ResetArrives \/ ResetIsOver \/ Elsewhere
           \/ \E m \in late : SpawnArrivesLate(m) \/ ResetArrivesLate(m)
    PROVE  VInv'
<1>1. poll' = poll /\ nav' = nav
  BY DEF TimerEnds, SpawnArrives, ResetArrives, ResetIsOver, Elsewhere, SpawnArrivesLate,
         ResetArrivesLate, flightVars
<1>2. /\ attempt'.n = attempt.n /\ attempt'.session = attempt.session
      /\ attempt'.id = attempt.id /\ attempt'.boot = attempt.boot
  <2>1. attempt' = attempt \/ attempt' = [attempt EXCEPT !.retry = TRUE]
    BY DEF TimerEnds, SpawnArrives, ResetArrives, ResetIsOver, Elsewhere,
           SpawnArrivesLate, ResetArrivesLate, kioskVars
  <2> QED
    BY <2>1, FlightRecords DEF AttemptType
<1>3. BootsInv' /\ Later
  <2>1. ASSUME NEW s, NEW n, NEW b, Spawnable(s, n, b), Spawns(s)
        PROVE  BootsInv' /\ Later
    <3>1. Spawnable(s, rounds[s].id, boot)
      BY <2>1 DEF Spawnable
    <3> QED
      BY <2>1, <3>1, ServerLater DEF KInv, VInv
  <2>2. CASE SpawnArrives \/ \E m \in late : SpawnArrivesLate(m)
    <3>1. \/ UNCHANGED serverVars
          \/ \E s, n, b : Spawnable(s, n, b) /\ Spawns(s)
      BY <2>2 DEF SpawnArrives, SpawnArrivesLate
    <3> QED
      BY <2>1, <3>1, ServerStays
  <2>3. CASE TimerEnds \/ ResetArrives \/ ResetIsOver \/ Elsewhere
             \/ \E m \in late : ResetArrivesLate(m)
    <3>1. \/ UNCHANGED serverVars
          \/ \E s : ResetBegins(s) \/ Works(s)
          \/ ResetEnds \/ ResetFails \/ OtherReboots \/ Observes
      BY <2>3 DEF TimerEnds, ResetArrives, ResetIsOver, Elsewhere, ResetArrivesLate
    <3> QED
      BY <3>1, ServerLater DEF KInv, VInv
  <2> QED
    BY <2>2, <2>3
<1> QED
  BY <1>1, <1>2, <1>3, StaysDated, NavStays

(* Steps after which no answer to a spawn is awaited.                      *)
LEMMA NavigationStep ==
    ASSUME KInv, KInv', VInv,
           \/ NavFails \/ Clicks \/ AfterRead \/ ResetAnswered \/ ResetGivenUp \/ Inspected
           \/ \E s \in Session : SessionCreated(s)
    PROVE  VInv'
<1>1. poll' = poll
  BY DEF NavFails, Clicks, NewInstruction, SwitchToGame, SwitchToNormal, ResetAgain,
         AfterRead, ResetAnswered, ResetGivenUp, Inspected, SessionCreated, kioskVars
<1>2. BootsInv' /\ Later
  <2>1. UNCHANGED serverVars \/ \E s \in Session : Creates(s)
    BY DEF NavFails, Clicks, NewInstruction, SwitchToGame, SwitchToNormal, ResetAgain,
           AfterRead, ResetAnswered, ResetGivenUp, Inspected, SessionCreated
  <2> QED
    BY <2>1, ServerLater DEF KInv, VInv
<1>3. CASE nav' = nav
  <2>1. attempt' = attempt \/ attempt' = NoAttempt
    BY <1>3, FlightRecords DEF NavFails, Clicks, NewInstruction, SwitchToGame,
       SwitchToNormal, ResetAgain, AfterRead, ResetAnswered, ResetGivenUp, Inspected,
       SessionCreated, kioskVars, NoNav
  <2> QED
    BY <1>1, <1>2, <1>3, <2>1, StaysDated, NavStays
<1>4. CASE nav' # nav
  <2>1. Dated(NoSnap, observed') /\ NoNav.snap = NoSnap
    BY EmptyIsDated DEF KInv, RoundsInv, NoNav
  <2>2. ASSUME NEW pc, NEW s, NEW todo, pc \notin {"post", "after"},
               nav' = NavReads(pc, s, todo)
        PROVE  nav'.pc \notin {"post", "after"} /\ nav'.snap = NoSnap
    BY <2>2 DEF NavReads, NoNav
  <2>3. \/ nav'.snap = nav.snap
        \/ nav'.snap = NoSnap
    <3>1. \/ nav' = NoNav \/ \E pc : nav' = [NoNav EXCEPT !.pc = pc]
          \/ \E s, todo : nav' = NavReads("before", s, todo) \/ nav' = NavReads("reset", s, todo)
          \/ \E todo : nav' = [nav EXCEPT !.pc = "inspect", !.todo = todo]
      BY <1>4 DEF NavFails, Clicks, NewInstruction, SwitchToGame, SwitchToNormal, ResetAgain,
           AfterRead, ResetAnswered, ResetGivenUp, Inspected, SessionCreated
    <3>2. NoNav \in NavType /\ nav \in NavType
      BY FlightRecords
    <3>3. ASSUME NEW pc, nav' = [NoNav EXCEPT !.pc = pc]
          PROVE  nav'.snap = NoSnap
      BY <3>3 DEF NoNav
    <3>4. ASSUME NEW todo, nav' = [nav EXCEPT !.pc = "inspect", !.todo = todo]
          PROVE  nav'.snap = nav.snap
      BY <3>2, <3>4 DEF NavType
    <3> QED
      BY <2>1, <2>2, <3>1, <3>3, <3>4
  <2>4. nav'.pc \notin {"post", "after"}
    BY <1>4, <2>2, FlightRecords DEF NavFails, Clicks, NewInstruction, SwitchToGame,
       SwitchToNormal, ResetAgain, AfterRead, ResetAnswered, ResetGivenUp, Inspected,
       SessionCreated, NoNav, NavType
  <2> QED
    BY <1>1, <1>2, <2>1, <2>3, <2>4, StaysDated, NavElsewhere
<1> QED
  BY <1>3, <1>4

-----------------------------------------------------------------------------
LEMMA VInit ==
    ASSUME Init
    PROVE  VInv
<1>1. observed = 1 /\ boot = 1 /\ nav = NoNav /\ poll = NoPoll
      /\ \A s \in Session : rounds[s].spec = 0
  BY DEF Init, ServerInit, NewRound
<1>2. DatesInv
  BY <1>1, EmptyIsDated DEF DatesInv, NoNav, NoPoll
<1>3. AfterInv /\ AttemptInv
  BY <1>1 DEF AfterInv, AttemptInv, NoNav
<1> QED
  BY <1>1, <1>2, <1>3 DEF VInv, BootsInv

(* No part of a snapshot is newer than what the server says, its target no *)
(* newer than its boot, and the attempt it is judged for no newer than     *)
(* both: the dates behind VerdictIsTrue, which hold because                *)
(* readSpawnSnapshot() reads the boot last (spawn_reconcile.ts, 67) and    *)
(* spawn_round() gives a target only in the boot that live.json names.     *)
THEOREM VerdictInductive == Spec => [](KInv /\ VInv)
<1>1. Init => VInv
  BY VInit
<1>2. ASSUME KInv, KInv', VInv, [Next]_vars
      PROVE  VInv'
  <2>1. CASE Polls
    BY <1>2, <2>1, PollsStep
  <2>2. CASE NavAnswered
    BY <1>2, <2>2, NavAnsweredStep
  <2>3. CASE BeforeRead
    BY <1>2, <2>3, BeforeReadStep
  <2>4. CASE SpawnSettles
    BY <1>2, <2>4, SpawnSettlesStep
  <2>5. CASE \/ TimerEnds \/ SpawnArrives \/ ResetArrives \/ ResetIsOver \/ Elsewhere
             \/ \E m \in late : SpawnArrivesLate(m) \/ ResetArrivesLate(m)
    BY <1>2, <2>5, ServerStep
  <2>6. CASE \/ NavFails \/ Clicks \/ AfterRead \/ ResetAnswered \/ ResetGivenUp
             \/ Inspected \/ \E s \in Session : SessionCreated(s)
    BY <1>2, <2>6, NavigationStep
  <2>7. CASE UNCHANGED vars
    <3>1. UNCHANGED <<serverVars, nav, poll, attempt>>
      BY <2>7 DEF vars, kioskVars, flightVars
    <3> QED
      BY <1>2, <3>1, ServerStays, StaysDated, NavStays
  <2> QED
    BY <1>2, <2>1, <2>2, <2>3, <2>4, <2>5, <2>6, <2>7 DEF Next, SpawnSteps, ResetSteps
<1> QED
  BY <1>1, <1>2, Inductive, PTL DEF Spec

(* A snapshot with the target of the attempt's boot, when no part of it is *)
(* newer than its boot, was read in that boot.                             *)
LEMMA SpawnedInItsBoot ==
    ASSUME NEW a \in AttemptType, NEW snap \in SnapType,
           snap.spec <= snap.seenIn, snap.seenIn <= snap.boot,
           Verdict(a, snap) = "spawned"
    PROVE  snap.seenIn = a.boot
<1>1. snap.boot = a.boot /\ snap.spec = a.boot
  BY DEF Verdict
<1>2. snap.boot \in Nat /\ snap.spec \in Nat /\ snap.seenIn \in Nat
  BY DEF SnapType
<1> QED
  BY <1>1, <1>2

LEMMA VerdictHolds ==
    ASSUME KInv, VInv
    PROVE  VerdictIsTrue
<1>1. ASSUME NEW snap \in AfterSnaps
      PROVE  /\ snap = nav.snap /\ snap \in SnapType /\ nav.pc = "after"
             /\ nav.todo = <<>> /\ OwnAttempt
  BY FlightRecords DEF AfterSnaps, VInv, AttemptInv
<1>2. ASSUME NEW snap \in AfterSnaps, Verdict(attempt, snap) = "spawned"
      PROVE  snap.seenIn = attempt.boot
  <2>1. snap.spec <= snap.seenIn /\ snap.seenIn <= snap.boot
    BY <1>1 DEF VInv, DatesInv, Dated, AfterInv
  <2> QED
    BY <1>1, <1>2, <2>1, FlightRecords, SpawnedInItsBoot
<1>3. ASSUME NEW snap \in PollSnaps, Verdict(attempt, snap) = "spawned"
      PROVE  snap.seenIn = attempt.boot
  <2>1. snap = Read(poll.snap, "live", sid, observed)
    BY DEF PollSnaps
  <2>2. snap.boot = observed /\ snap.seenIn = poll.snap.seenIn /\ snap.spec = poll.snap.spec
    BY <2>1, FlightRecords, ReadParts
  <2>3. snap \in SnapType
    BY <2>1, FlightRecords, FlightFacts, FloorHolds, ReadsRound DEF KInv
  <2>4. snap.spec <= snap.seenIn /\ snap.seenIn <= snap.boot
    BY <2>2 DEF VInv, DatesInv, Dated
  <2> QED
    BY <1>3, <2>3, <2>4, FlightRecords, SpawnedInItsBoot
<1>4. ASSUME NEW snap \in AfterSnaps, Verdict(attempt, snap) = "changed"
      PROVE  \/ rounds[attempt.session].id # attempt.id \/ boot # attempt.boot
             \/ rounds[attempt.session].spec \notin {0, boot}
  <2>1. /\ attempt.session = nav.session
        /\ attempt.id <= snap.id /\ snap.id <= rounds[nav.session].id
        /\ attempt.boot <= snap.boot /\ snap.boot <= observed /\ observed <= boot
        /\ snap.gid = rounds[nav.session].id /\ snap.spec # 0 =>
              rounds[nav.session].spec = snap.spec
    BY <1>1, FlightFacts, ReadOrder DEF OwnAttempt, VInv, DatesInv, Dated, BootsInv, AfterInv
  <2>2. /\ attempt.id \in Nat /\ snap.id \in Nat /\ rounds[nav.session].id \in Nat
        /\ attempt.boot \in Nat /\ snap.boot \in Nat /\ observed \in Nat /\ boot \in Nat
    BY <1>1, FlightFacts
  <2>3. snap.id = snap.gid
        /\ (snap.id # attempt.id \/ snap.boot # attempt.boot
            \/ (snap.spec # 0 /\ snap.spec # attempt.boot))
    BY <1>4 DEF Verdict
  <2>4. snap.id # attempt.id => rounds[nav.session].id # attempt.id
    BY <2>1, <2>2
  <2>5. snap.boot # attempt.boot => boot # attempt.boot
    BY <2>1, <2>2
  <2> QED
    BY <2>1, <2>3, <2>4, <2>5
<1> QED
  BY <1>2, <1>3, <1>4 DEF VerdictIsTrue

(* "The boot is read last: the old boot of an early read is not tied to a  *)
(* later target" (spawn_reconcile.ts, 67): a spawn the kiosk takes for     *)
(* done was read in the boot it asked for, and where its own flight says   *)
(* that the world has changed, it has.                                     *)
THEOREM VerdictShown == Spec => []VerdictIsTrue
BY VerdictInductive, VerdictHolds, PTL

=============================================================================
