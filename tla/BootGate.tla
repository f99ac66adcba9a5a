------------------------------ MODULE BootGate ------------------------------
(***************************************************************************)
(* What boot-ready.json, boot-lost.json and _boot_ready() promise of the   *)
(* boots of the simulator: the gate opens only for the boot that is up, at *)
(* most once in each, and it is closed before the next boot begins.        *)
(***************************************************************************)
EXTENDS Naturals

VARIABLES
    boot,   \* the boot that is up, 0 before the first
    open,   \* the boot the gate is open for, 0 when it is closed
    used    \* the boots it has been open for

gateVars == <<boot, open, used>>

Init == boot = 0 /\ open = 0 /\ used = {}

NextBoot ==
    /\ open = 0
    /\ boot' = boot + 1
    /\ UNCHANGED <<open, used>>

Open ==
    /\ open = 0 /\ boot > 0 /\ boot \notin used
    /\ open' = boot /\ used' = used \cup {boot}
    /\ UNCHANGED boot

Close ==
    /\ open' = 0
    /\ UNCHANGED <<boot, used>>

Next == NextBoot \/ Open \/ Close

Spec == Init /\ [][Next]_gateVars
=============================================================================
