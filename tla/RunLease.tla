------------------------------ MODULE RunLease ------------------------------
(***************************************************************************)
(* What the orchestrator promises about the one robot it has: a run owns   *)
(* the robot at most once, alone, only while the admission is open, and    *)
(* only a run that ends as the owner has its result shown.                 *)
(***************************************************************************)
CONSTANTS Run, None

VARIABLES
    owner,     \* the run that owns the robot, or None
    granted,   \* the runs that ever owned it
    open,      \* runs are admitted
    shown      \* the runs whose result some session shows

lease == <<owner, granted, open, shown>>

LeaseInit == owner = None /\ granted = {} /\ open = TRUE /\ shown = {}

Grant(r) ==
    /\ open /\ owner = None /\ r \notin granted
    /\ owner' = r /\ granted' = granted \cup {r}
    /\ UNCHANGED <<open, shown>>

(* The owner ends: its result may replace another one.                     *)
Report(r) ==
    /\ owner = r
    /\ owner' = None
    /\ r \in shown' /\ shown' \subseteq shown \cup {r}
    /\ UNCHANGED <<granted, open>>

(* The owner, if any, loses the robot for good; nothing is admitted.       *)
Close == owner' = None /\ open' = FALSE /\ UNCHANGED <<granted, shown>>

(* A new round: the results of earlier ones may go.                        *)
Reopen ==
    /\ ~open /\ owner = None
    /\ open' = TRUE
    /\ shown' \subseteq shown
    /\ UNCHANGED <<owner, granted>>

LeaseNext == Close \/ Reopen \/ \E r \in Run : Grant(r) \/ Report(r)

LeaseSpec == LeaseInit /\ [][LeaseNext]_lease
=============================================================================
