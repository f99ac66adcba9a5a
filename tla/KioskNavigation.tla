-------------------------- MODULE KioskNavigation --------------------------
(***************************************************************************)
(* The kiosk's ways from one round to another (App.tsx): newInstruction(), *)
(* switchToGame(), switchToNormal() and the button that calls resetRound() *)
(* directly, with the server that gets their POSTs once, late or never.    *)
(***************************************************************************)
EXTENDS KioskRounds

Init ==
    /\ ServerInit
    /\ sid = 1 /\ outdated = {} /\ shown = NoShown /\ game = NoGame
    /\ attempt = NoAttempt /\ posts = 0 /\ changed = FALSE
    /\ poll = NoPoll /\ nav = NoNav /\ again = FALSE
    /\ call = "none" /\ late = {}
    /\ floor = 0 /\ polls = 0

KeepsGeneration == outdated  \* mutation: polls of the old round go on
(* The generation is counted up: what is under way is outdated.            *)
NextGeneration == {"poll", "nav"}

(* A flight that reads for itself, GET by GET.                             *)
NavReads(pc, s, todo) ==
    [NoNav EXCEPT !.pc = pc, !.session = s, !.todo = todo]

NavAnswered ==
    /\ nav.todo # <<>>
    /\ nav' = [nav EXCEPT !.todo = Tail(@),
                          !.snap = Read(nav.snap, Head(nav.todo), nav.session, observed)]
    /\ UNCHANGED <<serverVars, kioskVars, poll, again, call, late, floor, polls>>

(* A GET fails, names no boot, or the 6 s of readSpawnSnapshot() are over: *)
(* the kiosk says that it does not know, and everything stays as it is.    *)
NavFails ==
    /\ nav.pc \in {"new", "create", "before", "after", "inspect"}
    /\ nav.pc = "after" => call # "rejected"
    /\ nav' = NoNav
    /\ UNCHANGED <<serverVars, kioskVars, poll, again, call, late, floor, polls>>

-----------------------------------------------------------------------------
(* newInstruction(), and newSession() for it and for switchToGame().       *)
NewInstruction ==
    /\ MayNavigate /\ attempt = NoAttempt /\ ~changed
    /\ nav' = [NoNav EXCEPT !.pc = "new"]
    /\ UNCHANGED <<serverVars, kioskVars, poll, again, call, late, floor, polls>>

SessionCreated(s) ==
    /\ nav.pc \in {"new", "create"}
    /\ Creates(s)
    /\ outdated' = NextGeneration /\ sid' = s /\ shown' = NoShown /\ game' = NoGame
    /\ attempt' = NoAttempt /\ changed' = FALSE
    /\ floor' = lastRound'
    /\ nav' = IF nav.pc = "new" THEN NoNav ELSE NavReads("before", s, Reads)
    /\ UNCHANGED <<posts, poll, again, call, late, polls>>

(* switchToGame() keeps a session that is READY and takes a new one else.  *)
SwitchToGame ==
    /\ ~GameMode /\ MayNavigate
    /\ nav' = IF shown.phase = "READY" THEN NavReads("before", sid, Reads)
              ELSE [NoNav EXCEPT !.pc = "create"]
    /\ UNCHANGED <<serverVars, kioskVars, poll, again, call, late, floor, polls>>

(* The first snapshot: a target that is there is shown, one of another     *)
(* boot is not, and only a round that is READY without one is posted for.  *)
BeforeRead ==
    /\ nav.pc = "before" /\ nav.todo = <<>>
    /\ LET snap == nav.snap IN
       CASE snap.id # snap.gid \/ snap.boot = 0 ->
               /\ nav' = NoNav
               /\ UNCHANGED <<shown, game, attempt, posts, changed, call>>
         [] snap.id = snap.gid /\ snap.boot # 0 /\ snap.spec # 0 ->
               /\ nav' = NoNav /\ attempt' = NoAttempt
               /\ changed' = (snap.spec # snap.boot)
               /\ IF snap.spec = snap.boot
                  THEN /\ shown' = [session |-> nav.session, id |-> snap.id,
                                    phase |-> snap.phase]
                       /\ game' = [id |-> snap.gid, spec |-> snap.spec]
                  ELSE UNCHANGED <<shown, game>>
               /\ UNCHANGED <<posts, call>>
         [] snap.id = snap.gid /\ snap.boot # 0 /\ snap.spec = 0 ->
               IF snap.phase = "READY" /\ snap.gphase = "READY"
               THEN /\ posts < MaxAttempt
                    /\ posts' = posts + 1 /\ changed' = FALSE /\ call' = "sent"
                    /\ attempt' = [NoAttempt EXCEPT !.n = posts + 1, !.id = snap.id,
                                       !.session = nav.session, !.boot = snap.boot]
                    /\ nav' = [nav EXCEPT !.pc = "post", !.n = posts + 1,
                                            !.snap = [NoSnap EXCEPT !.id = snap.id,
                                                                    !.boot = snap.boot]]
                    /\ UNCHANGED <<shown, game>>
               ELSE /\ nav' = NoNav
                    /\ UNCHANGED <<shown, game, attempt, posts, changed, call>>
    /\ UNCHANGED <<serverVars, sid, outdated, poll, again, late, floor, polls>>

(* A POST without an answer is lost or goes on; one beyond the bound is    *)
(* lost.                                                                   *)
GivesUp(m) == late' = IF Cardinality(late) < MaxLate THEN late \cup {m} ELSE late

(* The server gets the POST, in time or late.                              *)
SpawnArrives ==
    /\ nav.pc = "post" /\ call = "sent"
    /\ \/ /\ Spawnable(nav.session, nav.snap.id, nav.snap.boot)
          /\ Spawns(nav.session) /\ call' = "ok"
       \/ /\ ~Spawnable(nav.session, nav.snap.id, nav.snap.boot)
          /\ call' = "ok" /\ UNCHANGED serverVars
       \/ call' = "rejected" /\ UNCHANGED serverVars
    /\ UNCHANGED <<kioskVars, poll, nav, again, late, floor, polls>>

SpawnArrivesLate(m) ==
    /\ m.post = "spawn"
    /\ Spawnable(m.session, m.id, m.boot) /\ Spawns(m.session)
    /\ late' = late \ {m}
    /\ UNCHANGED <<kioskVars, poll, nav, again, call, floor, polls>>

(* The answer is here or is given up after 8 s.  Unless a poll has come to *)
(* a verdict meanwhile, the attempt is settled, its timer set and the      *)
(* server read again.                                                      *)
SpawnSettles ==
    /\ nav.pc = "post"
    /\ \/ call # "sent" /\ UNCHANGED late
       \/ /\ call = "sent"
          /\ GivesUp([post |-> "spawn", session |-> nav.session,
                      id |-> nav.snap.id, boot |-> nav.snap.boot])
    /\ IF attempt.n = nav.n
       THEN /\ attempt' = [attempt EXCEPT !.settled = TRUE]
            /\ nav' = [nav EXCEPT !.pc = "after", !.todo = Reads, !.snap = NoSnap]
            /\ call' = IF call = "rejected" THEN call ELSE "none"
       ELSE nav' = NoNav /\ call' = "none" /\ UNCHANGED attempt
    /\ UNCHANGED <<serverVars, sid, outdated, shown, game, posts, changed, poll, again,
                   floor, polls>>

(* The second snapshot; a 4xx other than 409 ends an attempt that it has   *)
(* brought no verdict on.                                                  *)
AfterRead ==
    /\ nav.pc = "after" /\ (nav.todo = <<>> \/ call = "rejected")
    /\ nav' = NoNav /\ call' = "none"
    /\ LET over == nav.todo = <<>> /\ Verdict(attempt, nav.snap) \in {"spawned", "changed"} IN
       \/ attempt.n # nav.n /\ UNCHANGED <<attempt, game, changed>>
       \/ /\ attempt.n = nav.n /\ (over \/ call # "rejected")
          /\ \E passed \in BOOLEAN : Reconcile(nav.snap, passed)
       \/ /\ attempt.n = nav.n /\ ~over /\ call = "rejected"
          /\ attempt' = NoAttempt
          /\ UNCHANGED <<game, changed>>
    /\ UNCHANGED <<serverVars, sid, outdated, shown, posts, poll, again, late, floor, polls>>

TimerNotSet ==  \* mutation: no timer, GETs alone settle the attempt
    /\ attempt.settled /\ attempt.absent = AbsentReads /\ ~attempt.retry
    /\ attempt' = [attempt EXCEPT !.retry = TRUE]
    /\ UNCHANGED <<serverVars, sid, outdated, shown, game, posts, changed, flightVars,
                   floor, polls>>

(* 12 s after the answer a retry is offered, whatever the GETs have said.  *)
TimerEnds ==
    /\ attempt.settled /\ ~attempt.retry
    /\ attempt' = [attempt EXCEPT !.retry = TRUE]
    /\ UNCHANGED <<serverVars, sid, outdated, shown, game, posts, changed, flightVars,
                   floor, polls>>

SpawnSteps ==
    \/ SpawnArrives \/ SpawnSettles \/ BeforeRead \/ AfterRead \/ TimerEnds
    \/ \E m \in late : SpawnArrivesLate(m)

-----------------------------------------------------------------------------
(* switchToNormal() and the button "initialise" post the same reset.       *)
SwitchToNormal ==
    /\ GameMode /\ MayNavigate
    /\ nav' = NavReads("reset", sid, <<>>)
    /\ call' = "sent" /\ outdated' = outdated \ {"nav"}
    /\ UNCHANGED <<serverVars, sid, shown, game, attempt, posts, changed, poll, again,
                   late, floor, polls>>

ResetAgain ==
    /\ ~IsBusy /\ (changed \/ shown.phase = "USED")
    /\ again' = TRUE /\ call' = "sent"
    /\ UNCHANGED <<serverVars, kioskVars, poll, nav, late, floor, polls>>

Resetting == again \/ nav.pc = "reset"

(* The server takes a reset up, in time or late, or refuses it.            *)
ResetArrives ==
    /\ Resetting /\ call = "sent"
    /\ \/ ResetBegins(sid) /\ call' = "taken"
       \/ call' = "failed" /\ UNCHANGED serverVars
    /\ UNCHANGED <<kioskVars, poll, nav, again, late, floor, polls>>

ResetArrivesLate(m) ==
    /\ m.post = "reset"
    /\ ResetBegins(m.session)
    /\ late' = late \ {m}
    /\ UNCHANGED <<kioskVars, poll, nav, again, call, floor, polls>>

ResetIsOver ==
    /\ \/ ResetEnds /\ call' = IF call = "taken" THEN "ok" ELSE call
       \/ ResetFails /\ call' = IF call = "taken" THEN "failed" ELSE call
    /\ UNCHANGED <<kioskVars, poll, nav, again, late, floor, polls>>

(* resetRound() after { reset: true }: the views of the old round go, and  *)
(* with the generation the polls that still read it.                       *)
ResetAnswered ==
    /\ Resetting /\ call = "ok"
    /\ call' = "none"
    /\ outdated' = NextGeneration /\ attempt' = NoAttempt /\ shown' = NoShown
    /\ game' = NoGame /\ changed' = FALSE
    /\ floor' = rounds[sid].id
    /\ IF again THEN again' = FALSE /\ UNCHANGED nav
       ELSE nav' = NoNav /\ UNCHANGED again
    /\ UNCHANGED <<serverVars, sid, posts, poll, late, polls>>

(* No answer, or another one.  switchToNormal() then reads the state and   *)
(* the game at the same time; it never posts again.                        *)
ResetGivenUp ==
    /\ Resetting /\ call # "ok"
    /\ call' = "none"
    /\ IF call = "sent"
       THEN GivesUp([post |-> "reset", session |-> sid, id |-> 0, boot |-> 0])
       ELSE UNCHANGED late
    /\ IF again THEN again' = FALSE /\ UNCHANGED nav
       ELSE /\ nav' \in {[nav EXCEPT !.pc = "inspect", !.todo = todo] :
                            todo \in {<<"state", "game">>, <<"game", "state">>}}
            /\ UNCHANGED again
    /\ UNCHANGED <<serverVars, kioskVars, poll, floor, polls>>

(* inspectModeReturn() and what switchToNormal() makes of it.              *)
Inspected ==
    /\ nav.pc = "inspect" /\ nav.todo = <<>>
    /\ nav' = NoNav
    /\ LET snap == nav.snap
           same == snap.id = snap.gid
           returned == same /\ snap.phase = "READY" /\ snap.spec = 0
           resets == snap.phase = "RESETTING"
           there == same /\ snap.spec # 0 IN
       IF "nav" \in outdated THEN UNCHANGED <<outdated, shown, game, floor, polls>>
       ELSE /\ outdated' = IF returned THEN NextGeneration ELSE outdated
            /\ floor' = IF returned THEN snap.id ELSE floor
            /\ shown' = IF returned \/ resets \/ there
                        THEN [session |-> nav.session, id |-> snap.id, phase |-> snap.phase]
                        ELSE shown
            /\ game' = IF returned THEN NoGame
                       ELSE IF resets \/ there THEN [id |-> snap.gid, spec |-> snap.spec]
                       ELSE game
    /\ UNCHANGED <<serverVars, sid, attempt, posts, changed, poll, again, call, late, polls>>

ResetSteps ==
    \/ ResetArrives \/ ResetIsOver \/ ResetAnswered \/ ResetGivenUp \/ Inspected
    \/ \E m \in late : ResetArrivesLate(m)

Clicks == NewInstruction \/ SwitchToGame \/ SwitchToNormal \/ ResetAgain

(* What the server does without the kiosk.                                 *)
Elsewhere ==
    /\ OtherReboots \/ Observes \/ Works(sid)
    /\ UNCHANGED <<kioskVars, flightVars, floor, polls>>

Next ==
    \/ Polls \/ NavAnswered \/ NavFails \/ Clicks \/ SpawnSteps \/ ResetSteps
    \/ (\E s \in Session : SessionCreated(s)) \/ Elsewhere

Spec == Init /\ [][Next]_vars

(* The timers of the browser run: 8 s for the POST, 12 s for the attempt.  *)
(* Nothing is assumed of the network.                                      *)
FairSpec == Spec /\ WF_vars(SpawnSettles) /\ WF_vars(TimerEnds)

-----------------------------------------------------------------------------
(* The types of the kiosk's variables.                                     *)
TypeOK ==
    /\ ServerTypeOK
    /\ sid \in Session /\ outdated \subseteq {"poll", "nav"} /\ posts \in 0..MaxAttempt
    /\ shown.phase \in Phase /\ attempt.absent \in 0..AbsentReads
    /\ changed \in BOOLEAN /\ again \in BOOLEAN
    /\ call \in {"none", "sent", "taken", "ok", "failed", "rejected"}

(* "A poll begun before the reset does not bring the snapshot of the old   *)
(* round back" (App.tsx:797): once the answer to a reset, or a session, has *)
(* told the kiosk of a new round, it shows no older one, and none of       *)
(* another session, however late the answers of its GETs come.             *)
NoOldRound ==
    /\ shown.id # 0 => shown.session = sid /\ shown.id >= floor
    /\ game.id # 0 => game.id >= floor

(* The complete snapshots that reconcileSpawn() is about to judge: that of *)
(* the flight of the attempt, and that of a poll, which may have been read *)
(* in part before the attempt began.                                       *)
AfterSnaps ==
    {snap \in {nav.snap} : nav.pc = "after" /\ nav.todo = <<>> /\ nav.n = attempt.n}
PollSnaps ==
    {snap \in {Read(poll.snap, "live", sid, observed)} :
        poll.pc = "live" /\ poll.n = attempt.n /\ "poll" \notin outdated}

(* "The boot is read last: the old boot of an early read is not tied to a  *)
(* later target" (spawn_reconcile.ts:67).  Where the kiosk takes its spawn *)
(* for done, the boot it asked for was the one observed when the target    *)
(* was read; where the flight itself says that the world has changed, the  *)
(* round or the boot is another one, or the target is of another boot.     *)
VerdictIsTrue ==
    /\ \A snap \in AfterSnaps \cup PollSnaps :
          Verdict(attempt, snap) = "spawned" => snap.seenIn = attempt.boot
    /\ \A snap \in AfterSnaps :
          Verdict(attempt, snap) = "changed" =>
             \/ rounds[attempt.session].id # attempt.id \/ boot # attempt.boot
             \/ rounds[attempt.session].spec \notin {0, boot}

(* "The screen is not blocked for ever even if the GETs do not answer"     *)
(* (App.tsx:1244): a pending spawn is decided or may be tried again.       *)
SpawnSettled == SpawnPending ~> ~SpawnPending
=============================================================================
