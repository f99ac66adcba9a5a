---------------------------- MODULE Observation ----------------------------
(***************************************************************************)
(* The Observer of kotoba_runner.py with its ClockGate: a thread that      *)
(* receives the state of the robot and the clock of the simulator, both    *)
(* over UDP, and keeps the newest pair of the two that arrived together.   *)
(* A state does not name its boot, the clock does.  Time passes in ticks   *)
(* of 0.25 s: a pair is bound only within one tick (30 ms in the code).    *)
(***************************************************************************)
EXTENDS Naturals

CONSTANTS
    MaxAge,    \* ticks latest() tolerates (0.4 s)
    TailHold   \* ticks of simulated time the tail is watched (5 s)

ASSUME ObservationAssumption == MaxAge \in Nat /\ TailHold \in Nat \ {0}

Boots == {1, 2}  \* 1: the boot the plan was approved for; 2: a later one
NoBoot == 0

VARIABLES
    publishing,  \* the boot that is up, NoBoot between two boots
    pin,         \* _expected_nonce: NoBoot until the first clock is accepted
    stateOf,     \* the boot that sent _state, NoBoot once it is too old to bind
    clockOf,     \* the same of _clock
    ahead,       \* simulated time from the bound clock to the accepted one
    boundAge,    \* ticks since the pair was bound, MaxAge + 1: too old or none
    boundOf,     \* the boots its state and its clock come from: <<state, clock>>
    held         \* simulated time of the bound clock since the tail began

obsVars == <<publishing, pin, stateOf, clockOf, ahead, boundAge, boundOf, held>>

ObsTypeOK ==
    /\ publishing \in Boots \cup {NoBoot} /\ pin \in Boots \cup {NoBoot}
    /\ stateOf \in Boots \cup {NoBoot} /\ clockOf \in Boots \cup {NoBoot}
    /\ ahead \in 0..TailHold /\ held \in 0..TailHold
    /\ boundAge \in 0..(MaxAge + 1)
    /\ boundOf \in (Boots \cup {NoBoot}) \X (Boots \cup {NoBoot})

(* __init__: the observer is pinned to boot_expect if that is a nonce.     *)
ObsInit(expected) ==
    /\ publishing = 1 /\ pin = expected
    /\ stateOf = NoBoot /\ clockOf = NoBoot /\ ahead = 0
    /\ boundAge = MaxAge + 1 /\ boundOf = <<NoBoot, NoBoot>> /\ held = 0

Least(m, n) == IF m < n THEN m ELSE n

-----------------------------------------------------------------------------
(* A state and a clock that were received together are the new pair.       *)
Bind(stateBoot, clockBoot, progress) ==
    /\ boundAge' = 0 /\ boundOf' = <<stateBoot, clockBoot>>
    /\ held' = Least(held + progress, TailHold)
    /\ ahead' = 0

OnState ==
    /\ publishing # NoBoot
    /\ stateOf' = publishing
    /\ IF clockOf = NoBoot THEN UNCHANGED <<ahead, boundAge, boundOf, held>>
                           ELSE Bind(publishing, clockOf, ahead)
    /\ UNCHANGED <<publishing, pin, clockOf>>

(* What arrives as a clock: the newest one of the boot that is up, one     *)
(* that is late or sent twice, of any boot so far, or one of a publisher   *)
(* that counts on while its simulated time stands.                         *)
Arrives(b, kind) ==
    \/ b = publishing /\ kind \in {"new", "late", "frozen"}
    \/ publishing = 2 /\ b = 1 /\ kind = "late"

(* The pin, and ClockGate.accept(): sequence number and simulated time     *)
(* must both be ahead of the last accepted ones.                           *)
AcceptsAnyBoot(b, kind) == kind = "new"  \* mutation: no pin
Accepts(b, kind) == pin \in {NoBoot, b} /\ kind = "new"

(* A rejected clock leaves everything as it is.                            *)
OnClock ==
    \E b \in Boots, kind \in {"new", "late", "frozen"} :
        /\ Arrives(b, kind) /\ Accepts(b, kind) /\ clockOf = NoBoot
        /\ pin' = b /\ clockOf' = b
        /\ IF stateOf = NoBoot
           THEN /\ ahead' = Least(ahead + 1, TailHold)
                /\ UNCHANGED <<boundAge, boundOf, held>>
           ELSE Bind(stateOf, b, ahead + 1)
        /\ UNCHANGED <<publishing, stateOf>>

(* latest() raises when there is no pair or an old one.                    *)
Latest == boundAge <= MaxAge

-----------------------------------------------------------------------------
(* A tick; a longer one leaves no pair that is young enough.               *)
ObsAges(long) ==
    /\ stateOf' = NoBoot /\ clockOf' = NoBoot
    /\ boundAge' = IF long THEN MaxAge + 1 ELSE Least(boundAge + 1, MaxAge + 1)
    /\ UNCHANGED <<publishing, pin, ahead, boundOf>>

(* The simulator under the observer.  A restart takes longer than a tick.  *)
SimGoes ==
    /\ publishing # NoBoot
    /\ publishing' = NoBoot
    /\ UNCHANGED <<pin, stateOf, clockOf, ahead, boundAge, boundOf, held>>

NextSimComes ==
    /\ publishing = NoBoot /\ stateOf = NoBoot /\ clockOf = NoBoot
    /\ publishing' = 2
    /\ UNCHANGED <<pin, stateOf, clockOf, ahead, boundAge, boundOf, held>>

ObsSteps == OnState \/ OnClock \/ SimGoes \/ NextSimComes
=============================================================================
