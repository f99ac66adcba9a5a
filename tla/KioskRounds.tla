---------------------------- MODULE KioskRounds ----------------------------
(***************************************************************************)
(* The kiosk's view of its round (App.tsx, spawn_reconcile.ts,             *)
(* mode_return.ts): it polls the server, spawns a target when a visitor    *)
(* switches to the game, resets the round, and must find out by GETs alone *)
(* what became of a POST whose answer was lost.  Every await is a point at *)
(* which other callbacks run: one action goes from one await to the next.  *)
(***************************************************************************)
EXTENDS RoundServer, Sequences

CONSTANTS
    AbsentReads,  \* reads without a target before a retry is offered (3)
    MaxPoll,      \* bound: polls, a state machine that begins anew each time
    MaxAttempt,   \* bound: POSTs of a spawn
    MaxLate       \* bound: POSTs under way at once after they were given up

ASSUME KioskAssumption ==
    /\ AbsentReads \in Nat \ {0}
    /\ MaxPoll \in Nat /\ MaxAttempt \in Nat /\ MaxLate \in Nat

VARIABLES
    sid,      \* sessionId
    outdated, \* the flights begun under an earlier sessionGeneration
    shown,    \* state: the round whose snapshot is on the screen
    game,     \* game: the target on the screen
    attempt,  \* spawnAttempt.current
    posts,    \* attempts so far
    changed,  \* spawnGenerationChanged
    poll,     \* the poll under way
    nav,      \* newInstruction(), switchToGame() or switchToNormal() under way
    again,    \* resetRound() called by the button of its own
    call,     \* the POST whose answer is awaited
    late      \* POSTs the kiosk has given up and the server may still get

kioskVars == <<sid, outdated, shown, game, attempt, posts, changed>>
flightVars == <<poll, nav, again, call, late>>

(* What the kiosk has been told, beside what it shows.                     *)
VARIABLES
    floor,  \* the round that the last answered reset or session began
    polls   \* polls so far

vars == <<serverVars, kioskVars, flightVars, floor, polls>>

NoShown == [session |-> 0, id |-> 0, phase |-> "READY"]
NoGame == [id |-> 0, spec |-> 0]
NoAttempt == [n |-> 0, session |-> 0, id |-> 0, boot |-> 0, absent |-> 0,
              settled |-> FALSE, retry |-> FALSE]
NoSnap == [id |-> 0, phase |-> "READY", gid |-> 0, gphase |-> "READY",
           spec |-> 0, boot |-> 0, seenIn |-> 0]
NoPoll == [pc |-> "idle", due |-> FALSE, session |-> 0, snap |-> NoSnap, n |-> 0]
NoNav == [pc |-> "idle", todo |-> <<>>, session |-> 0, snap |-> NoSnap, n |-> 0]

(* The spawn is pending until a retry is offered or the attempt is over.   *)
SpawnPending == attempt # NoAttempt /\ ~attempt.retry
GameMode == game.spec # 0
IsBusy == again \/ nav.pc \in {"new", "create", "before", "post", "after", "reset"}
NavigationBlocked ==
    IsBusy \/ shown.phase = "RESETTING" \/ SpawnPending
MayNavigate == nav.pc = "idle" /\ ~NavigationBlocked

-----------------------------------------------------------------------------
(* A GET adds what the server says now to a snapshot.  seenIn remembers    *)
(* the boot that live.json named when the target was read.                 *)
Read(snap, what, s, live) ==
    CASE what = "state" -> [snap EXCEPT !.id = rounds[s].id, !.phase = rounds[s].phase]
      [] what = "game"  -> [snap EXCEPT !.gid = rounds[s].id,
                                        !.gphase = rounds[s].phase,
                                        !.spec = rounds[s].spec,
                                        !.seenIn = observed]
      [] what = "live"  -> [snap EXCEPT !.boot = live]

ReadsBootFirst == <<"live", "state", "game">>  \* mutation: an older boot
(* readSpawnSnapshot() reads the boot last.                                *)
Reads == <<"state", "game", "live">>

(* classifySpawnSnapshot()                                                 *)
Verdict(a, snap) ==
    CASE snap.boot = 0 -> "unknown"
      [] snap.boot # 0 /\ snap.id # snap.gid -> "pending"
      [] snap.boot # 0 /\ snap.id = snap.gid /\ (snap.id # a.id \/ snap.boot # a.boot)
            -> "changed"
      [] snap.boot = a.boot /\ snap.id = snap.gid /\ snap.id = a.id ->
            IF snap.spec # 0
            THEN IF snap.spec = a.boot THEN "spawned" ELSE "changed"
            ELSE IF snap.phase = "READY" /\ snap.gphase = "READY"
                 THEN "absent" ELSE "pending"

(* reconcileSpawn(): a retry is offered after enough reads on end without  *)
(* a target, if 3 s have passed.                                           *)
Reconcile(snap, passed) ==
    LET v == Verdict(attempt, snap)
        reads == IF v = "absent" /\ attempt.settled
                 THEN IF attempt.absent < AbsentReads THEN attempt.absent + 1
                      ELSE AbsentReads
                 ELSE 0 IN
    IF v \in {"spawned", "changed"}
    THEN /\ attempt' = NoAttempt
         /\ game' = IF v = "spawned" THEN [id |-> snap.gid, spec |-> snap.spec] ELSE game
         /\ changed' = (changed \/ v = "changed")
    ELSE /\ attempt' = [attempt EXCEPT !.absent = reads,
                           !.retry = @ \/ (reads = AbsentReads /\ passed)]
         /\ UNCHANGED <<game, changed>>

-----------------------------------------------------------------------------
(* poll(): state, game and, with an attempt under way, the boot; after     *)
(* each answer it gives up if the session has changed hands meanwhile.     *)
PollBegins ==
    /\ poll.pc = "idle" /\ polls < MaxPoll
    /\ polls' = polls + 1
    /\ poll' = [NoPoll EXCEPT !.pc = "state", !.due = TRUE, !.session = sid,
                              !.snap = Read(NoSnap, "state", sid, 0)]
    /\ outdated' = outdated \ {"poll"}
    /\ UNCHANGED <<serverVars, sid, shown, game, attempt, posts, changed, nav, again,
                   call, late, floor>>

PollAnswered ==
    /\ poll.pc = "game" /\ ~poll.due
    /\ poll' = [poll EXCEPT !.due = TRUE,
                            !.snap = Read(poll.snap, "game", poll.session, 0)]
    /\ UNCHANGED <<serverVars, kioskVars, nav, again, call, late, floor, polls>>

PollFails ==
    /\ poll.pc # "idle"
    /\ poll' = NoPoll
    /\ UNCHANGED <<serverVars, kioskVars, nav, again, call, late, floor, polls>>

PollIsLate ==
    /\ poll.due \/ poll.pc = "live"
    /\ "poll" \in outdated
    /\ poll' = NoPoll
    /\ UNCHANGED <<serverVars, kioskVars, nav, again, call, late, floor, polls>>

PollTakesState ==
    /\ poll.due /\ "poll" \notin outdated /\ poll.pc = "state"
    /\ shown' = [session |-> poll.session, id |-> poll.snap.id, phase |-> poll.snap.phase]
    /\ poll' = [poll EXCEPT !.due = FALSE, !.pc = "game"]
    /\ UNCHANGED <<serverVars, sid, outdated, game, attempt, posts, changed,
                   nav, again, call, late, floor, polls>>

PollTakesGame ==
    /\ poll.due /\ "poll" \notin outdated /\ poll.pc = "game"
    /\ game' = IF poll.snap.gid = poll.snap.id
               THEN [id |-> poll.snap.gid, spec |-> poll.snap.spec] ELSE NoGame
    /\ poll' = IF attempt # NoAttempt /\ attempt.session = poll.session
               THEN [poll EXCEPT !.due = FALSE, !.pc = "live", !.n = attempt.n]
               ELSE NoPoll
    /\ UNCHANGED <<serverVars, sid, outdated, shown, attempt, posts, changed,
                   nav, again, call, late, floor, polls>>

(* The last answer is taken at once; live.json may be unreadable.          *)
PollTakesBoot ==
    /\ poll.pc = "live" /\ "poll" \notin outdated
    /\ poll' = NoPoll
    /\ \E live \in {0, observed}, passed \in BOOLEAN :
          IF attempt.n = poll.n
          THEN Reconcile(Read(poll.snap, "live", poll.session, live), passed)
          ELSE UNCHANGED <<attempt, game, changed>>
    /\ UNCHANGED <<serverVars, sid, outdated, shown, posts, nav, again, call, late,
                   floor, polls>>

Polls ==
    \/ PollBegins \/ PollAnswered \/ PollFails \/ PollIsLate
    \/ PollTakesState \/ PollTakesGame \/ PollTakesBoot
=============================================================================
