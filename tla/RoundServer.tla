---------------------------- MODULE RoundServer ----------------------------
(***************************************************************************)
(* What one kiosk sees of the server: the rounds of its sessions, the      *)
(* target spawned in them, the boot of the simulator and the boot that     *)
(* live.json names, which lags behind.  ProductSession has the server in   *)
(* detail; here a reset is a few steps, and the intents and runs of a      *)
(* session are one action.                                                 *)
(***************************************************************************)
EXTENDS Naturals, FiniteSets

CONSTANTS
    MaxSession,  \* bound: sessions the kiosk creates
    MaxRound,    \* bound: rounds begun in all sessions together
    MaxBoot      \* bound: boots of the simulator

ASSUME ServerAssumption ==
    /\ MaxSession \in Nat \ {0} /\ MaxRound \in Nat /\ MaxBoot \in Nat \ {0}

VARIABLES
    rounds,     \* session -> its round; id 0: the session does not exist
    lastRound,  \* the round begun last; ids are uuids, never used again
    boot,       \* boot_nonce of the simulator that is up
    observed,   \* boot_nonce in live.json
    resetting,  \* the session that holds _reset_mu in reset(), or Nobody
    admission   \* _admission_open

serverVars == <<rounds, lastRound, boot, observed, resetting, admission>>

Session == 1..MaxSession
Nobody == 0

(* USED stands for the phases after READY, from INTERPRETING to RESULT and *)
(* FAULT.  An intent that comes to nothing leaves the round in READY.      *)
Phase == {"READY", "USED", "RESETTING"}

(* spec: the boot the target of the round was spawned in, 0 for none.      *)
NewRound(n) == [id |-> n, phase |-> "READY", spec |-> 0]

Exists(s) == rounds[s].id # 0

ServerTypeOK ==
    /\ rounds \in [Session -> [id : Nat, phase : Phase, spec : Nat]]
    /\ lastRound \in Nat /\ boot \in Nat /\ observed \in Nat
    /\ resetting \in {Nobody} \cup Session /\ admission \in BOOLEAN

ServerInit ==
    /\ rounds = [s \in Session |-> NewRound(IF s = 1 THEN 1 ELSE 0)]
    /\ lastRound = 1 /\ boot = 1 /\ observed = 1
    /\ resetting = Nobody /\ admission = TRUE

-----------------------------------------------------------------------------
(* create_session()                                                        *)
Creates(s) ==
    /\ ~Exists(s) /\ lastRound < MaxRound
    /\ rounds' = [rounds EXCEPT ![s] = NewRound(lastRound + 1)]
    /\ lastRound' = lastRound + 1
    /\ UNCHANGED <<boot, observed, resetting, admission>>

(* spawn_round() of app.py and service.py: the request names the round and *)
(* the boot it was made for, and a round is given a target only once.      *)
Spawnable(s, n, b) ==
    /\ rounds[s].id = n /\ boot = b /\ observed = boot
    /\ resetting = Nobody /\ admission
    /\ rounds[s].phase = "READY" /\ rounds[s].spec = 0

Spawns(s) ==
    /\ rounds' = [rounds EXCEPT ![s].spec = boot]
    /\ UNCHANGED <<lastRound, boot, observed, resetting, admission>>

(* reset(): the admission is closed, the simulator restarted, and a new    *)
(* round begun; a restart that fails, before or after the new boot is up,  *)
(* leaves the round in FAULT and the admission closed.                     *)
ResetBegins(s) ==
    /\ resetting = Nobody
    /\ resetting' = s /\ admission' = FALSE
    /\ rounds' = [rounds EXCEPT ![s].phase = "RESETTING"]
    /\ UNCHANGED <<lastRound, boot, observed>>

ResetEnds ==
    /\ resetting # Nobody /\ boot < MaxBoot /\ lastRound < MaxRound
    /\ resetting' = Nobody /\ admission' = TRUE
    /\ boot' = boot + 1 /\ lastRound' = lastRound + 1
    /\ rounds' = [rounds EXCEPT ![resetting] = NewRound(lastRound + 1)]
    /\ UNCHANGED observed

ResetFails ==
    /\ resetting # Nobody
    /\ resetting' = Nobody
    /\ boot' \in {boot, boot + 1} /\ boot' <= MaxBoot
    /\ rounds' = [rounds EXCEPT ![resetting].phase = "USED"]
    /\ UNCHANGED <<lastRound, observed, admission>>

(* The reset of another visitor's session, of which the boot is seen here. *)
OtherReboots ==
    /\ resetting = Nobody /\ boot < MaxBoot
    /\ boot' = boot + 1 /\ admission' = TRUE
    /\ UNCHANGED <<rounds, lastRound, observed, resetting>>

(* The live observer of the new boot writes live.json for the first time.  *)
Observes ==
    /\ observed # boot
    /\ observed' = boot
    /\ UNCHANGED <<rounds, lastRound, boot, resetting, admission>>

(* An intent, a plan run or a game of the session uses its round.          *)
Works(s) ==
    /\ rounds[s].phase = "READY" /\ admission
    /\ rounds' = [rounds EXCEPT ![s].phase = "USED"]
    /\ UNCHANGED <<lastRound, boot, observed, resetting, admission>>
=============================================================================
