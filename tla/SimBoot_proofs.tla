---------------------------- MODULE SimBoot_proofs ----------------------------
(***************************************************************************)
(* What SimBoot guarantees for every length of the hold, every tolerance   *)
(* and any number of boots, checked by TLAPS.                              *)
(***************************************************************************)
EXTENDS SimBoot, TLAPS

-----------------------------------------------------------------------------
(* The phases of restart() in which nothing of the old boot is left.       *)
Cleared == {"ctl", "passive", "mujoco", "manager"}

(* The phases of a manager that has not published yet.                     *)
Bringing == {"burst", "verify", "verified"}

HistTypeOK ==
    /\ watched \in 0..Hold /\ certified \in SUBSET Nat /\ opened \in SUBSET Nat

Types == TypeOK /\ HistTypeOK

(* restart() has taken down what it has passed.                            *)
RestartInv ==
    /\ rs \in Cleared => ready = 0 /\ ~lost
    /\ rs \in Cleared \cup {"clear"} => mg = "off"
    /\ rs \in {"stand", "clear", "ctl", "passive", "mujoco"} => sim = "off"
    /\ rs # "idle" => told = 0

(* The manager knows the boot by its clock, and has verified what it       *)
(* publishes.                                                              *)
ManagerInv ==
    /\ mg # "off" /\ nonce # 0 => nonce = boot
    /\ mg \in {"burst", "verify"} => held <= watched /\ held < Hold
    /\ mg \in {"verified", "monitor", "losing"} => nonce # 0 /\ boot \in certified

(* Who may have written which file.                                        *)
FilesInv ==
    /\ mg # "off" => ~lost
    /\ mg \in Bringing \cup {"losing"} => ready = 0
    /\ mg = "monitor" => ready = boot /\ ~stale
    /\ ready # 0 => ~lost /\ ready = boot /\ ready \in certified /\ ready \in opened
    /\ told # 0 => told = boot /\ told \in certified /\ told \in opened

(* A manager that may still publish has a boot the gate was never open for *)
(* - or, when docker run failed, hears of no boot at all.                  *)
OnceInv ==
    /\ \A b \in opened : b <= boot
    /\ rs = "manager" => boot \notin opened \/ sim = "off"
    /\ mg \in Bringing => boot \notin opened \/ (sim = "off" /\ nonce = 0)

BootInv == RestartInv /\ ManagerInv /\ FilesInv /\ OnceInv

IInv == Types /\ BootInv

Opens == opened' = IF BootReady' = 0 THEN opened ELSE opened \cup {BootReady'}

-----------------------------------------------------------------------------
LEMMA CappedType ==
    ASSUME NEW cap \in Nat, NEW n \in 0..cap
    PROVE  Capped(n, cap) \in 0..cap
BY DEF Capped

LEMMA CapsType ==
    /\ SeenCap \in Nat /\ 0 \in 0..SeenCap
    /\ Stall + 1 \in Nat /\ 0 \in 0..(Stall + 1)
    /\ Hold \in Nat \ {0} /\ 0 \in 0..Hold
BY ManagerAssumption DEF SeenCap

LEMMA ReceivesType ==
    ASSUME Types, NEW s \in BOOLEAN, NEW c \in BOOLEAN, Receives(s, c)
    PROVE  /\ seen' \in Postures \cup {"none"} /\ seenAge' \in 0..SeenCap
           /\ nonce' \in Nat /\ clockGap' \in 0..(Stall + 1)
BY CapsType, CappedType DEF Receives, Types, TypeOK, SimTypeOK, MgTypeOK

LEMMA WitnessesType ==
    ASSUME Types, Witnesses
    PROVE  watched' \in 0..Hold /\ certified' \in SUBSET Nat
BY CapsType, CappedType DEF Witnesses, Types, TypeOK, SimTypeOK, HistTypeOK

LEMMA OpensType ==
    ASSUME Types, Opens, ready' \in Nat
    PROVE  opened' \in SUBSET Nat
BY DEF Opens, BootReady, Types, HistTypeOK

-----------------------------------------------------------------------------
(* Types.                                                                  *)
LEMMA InitTypes == Init => Types
<1> SUFFICES ASSUME Init PROVE Types
  OBVIOUS
<1>1. SimTypeOK
  BY DEF Init, SimTypeOK, Postures
<1>2. MgTypeOK
  BY CapsType DEF Init, MgTypeOK
<1>3. HistTypeOK
  BY CapsType DEF Init, HistTypeOK
<1> QED
  BY <1>1, <1>2, <1>3 DEF Types, TypeOK

LEMMA RestartTypes ==
    ASSUME Types, Opens, RestartBegins \/ RestartSteps
    PROVE  Types'
<1> USE DEF Types, TypeOK, SimTypeOK, MgTypeOK, HistTypeOK, Postures, worldVars,
            fileVars, mgVars, mgAndSeen
<1>0. ready' \in Nat => opened' \in SUBSET Nat
  BY OpensType
<1>1. CASE RestartBegins
  BY <1>0, <1>1 DEF RestartBegins
<1>2. CASE StopSim
  BY <1>0, <1>2 DEF StopSim
<1>3. CASE StopManager
  BY <1>0, <1>3 DEF StopManager
<1>4. CASE ClearFlags
  BY <1>0, <1>4 DEF ClearFlags
<1>5. CASE StartCtl
  <2>1. ctl' \in {"off", "starting", "passive", "pd"}
    BY <1>5 DEF StartCtl
  <2>2. rcOk' \in BOOLEAN
    BY <1>5 DEF StartCtl
  <2> QED
    BY <1>0, <1>5, <2>1, <2>2 DEF StartCtl
<1>6. CASE PassiveSeen
  BY <1>0, <1>6 DEF PassiveSeen
<1>7. CASE StartMujoco
  <2>1. /\ sim' \in {"off", "running", "paused"}
        /\ boot' \in Nat /\ posture' \in Postures
    BY <1>7 DEF StartMujoco
  <2>2. rcOk' \in BOOLEAN
    BY <1>7 DEF StartMujoco
  <2> QED
    BY <1>0, <1>7, <2>1, <2>2 DEF StartMujoco
<1>8. CASE StartManager
  BY <1>0, <1>8, CapsType DEF StartManager
<1>9. CASE ReadySeen
  BY <1>0, <1>9 DEF ReadySeen
<1>10. CASE RestartFails
  BY <1>0, <1>10 DEF RestartFails
<1> QED
  BY <1>1, <1>2, <1>3, <1>4, <1>5, <1>6, <1>7, <1>8, <1>9, <1>10 DEF RestartSteps

LEMMA WorldTypes ==
    ASSUME Types, Opens, World \/ GoesStale
    PROVE  Types'
<1> USE DEF Types, TypeOK, SimTypeOK, MgTypeOK, HistTypeOK, worldVars,
            fileVars, mgVars, mgAndSeen, bootVars
<1>0. ready' \in Nat => opened' \in SUBSET Nat
  BY OpensType
<1>1. CASE CtlEntersPassive
  BY <1>0, <1>1 DEF CtlEntersPassive
<1>2. CASE Touch
  <2>1. passiveFlag' \in BOOLEAN /\ touching' \in BOOLEAN
    BY <1>2 DEF Touch
  <2> QED
    BY <1>0, <1>2, <2>1 DEF Touch
<1>3. CASE RobotMoves
  BY <1>0, <1>3 DEF RobotMoves
<1>4. CASE SimDies
  BY <1>0, <1>4 DEF SimDies
<1>5. CASE Pause
  BY <1>0, <1>5 DEF Pause
<1>6. CASE Resume
  BY <1>0, <1>6 DEF Resume
<1>7. CASE GoesStale
  BY <1>0, <1>7 DEF GoesStale
<1> QED
  BY <1>1, <1>2, <1>3, <1>4, <1>5, <1>6, <1>7 DEF World

LEMMA ManagerTypes ==
    ASSUME IInv, Opens, Manager, UNCHANGED bootVars
    PROVE  Types'
<1> USE DEF IInv, Types, TypeOK, SimTypeOK, MgTypeOK, HistTypeOK, worldVars, fileVars, bootVars
<1>0. ready' \in Nat => opened' \in SUBSET Nat
  BY OpensType
<1>1. CASE Burst
  BY <1>0, <1>1 DEF Burst
<1>2. CASE Publish
  BY <1>0, <1>2, CapsType DEF Publish
<1>3. CASE WriteLost
  BY <1>0, <1>3 DEF WriteLost
<1>4. ASSUME NEW s \in BOOLEAN, NEW c \in BOOLEAN, VerifyPass(s, c) PROVE Types'
  <2>1. HeldAfter \in 0..Hold
    BY <1>4, CapsType DEF VerifyPass, HeldAfter, BootInv, ManagerInv
  <2>2. /\ seen' \in Postures \cup {"none"} /\ seenAge' \in 0..SeenCap
        /\ nonce' \in Nat /\ clockGap' \in 0..(Stall + 1)
        /\ watched' \in 0..Hold /\ certified' \in SUBSET Nat
    BY <1>4, ReceivesType, WitnessesType DEF VerifyPass
  <2> QED
    BY <1>0, <1>4, <2>1, <2>2 DEF VerifyPass
<1>5. ASSUME NEW s \in BOOLEAN, NEW c \in BOOLEAN, MonitorPass(s, c) PROVE Types'
  <2>1. /\ seen' \in Postures \cup {"none"} /\ seenAge' \in 0..SeenCap
        /\ nonce' \in Nat /\ clockGap' \in 0..(Stall + 1)
    BY <1>5, ReceivesType DEF MonitorPass
  <2>2. mg' \in {"monitor", "losing"} /\ ready' \in Nat
    BY <1>5, <2>1 DEF MonitorPass
  <2>3. stale' \in BOOLEAN
    BY <1>5 DEF MonitorPass
  <2> QED
    BY <1>0, <1>5, <2>1, <2>2, <2>3 DEF MonitorPass
<1>6. CASE VerifyTimesOut
  BY <1>0, <1>6 DEF VerifyTimesOut
<1>7. CASE Dies
  BY <1>0, <1>7 DEF Dies
<1> QED
  BY <1>1, <1>2, <1>3, <1>4, <1>5, <1>6, <1>7 DEF Manager, ManagerSteps

-----------------------------------------------------------------------------
(* What opens the gate.                                                    *)
LEMMA OpenedGrows ==
    ASSUME Opens
    PROVE  /\ \A b \in opened : b \in opened'
           /\ \A b \in opened' : b \in opened \/ (b = ready' /\ ready' # 0)
           /\ ready' # 0 /\ ~lost' /\ ~stale' => ready' \in opened'
BY DEF Opens, BootReady

(* A step that leaves the files as they are opens nothing new.             *)
LEMMA OpenedStays ==
    ASSUME FilesInv, Opens, ready' = ready
    PROVE  opened' = opened
BY OpenedGrows DEF FilesInv, Opens, BootReady

-----------------------------------------------------------------------------
LEMMA InitBoot == Init => BootInv
BY DEF Init, BootInv, RestartInv, ManagerInv, FilesInv, OnceInv, Cleared, Bringing

LEMMA RestartKeeps ==
    ASSUME IInv, Opens, RestartBegins \/ RestartSteps
    PROVE  BootInv'
<1> USE DEF IInv, BootInv, RestartInv, ManagerInv, FilesInv, OnceInv, Cleared, Bringing,
            worldVars, fileVars, mgVars, mgAndSeen
<1>0. ready' = ready => opened' = opened
  BY OpenedStays
<1>t. boot \in Nat /\ ready \in Nat /\ opened \in SUBSET Nat
  BY DEF Types, TypeOK, SimTypeOK, HistTypeOK
<1>1. CASE RestartBegins
  BY <1>0, <1>1 DEF RestartBegins
<1>2. CASE StopSim
  BY <1>0, <1>2 DEF StopSim
<1>3. CASE StopManager
  BY <1>0, <1>3 DEF StopManager
<1>4. CASE ClearFlags
  <2>1. ready' = 0
    BY <1>4 DEF ClearFlags
  <2>2. opened' = opened
    BY <2>1 DEF Opens, BootReady
  <2> QED
    BY <1>4, <2>1, <2>2 DEF ClearFlags
<1>5. CASE StartCtl
  BY <1>0, <1>5 DEF StartCtl
<1>6. CASE PassiveSeen
  BY <1>0, <1>6 DEF PassiveSeen
<1>7. CASE StartMujoco
  <2>1. CASE boot' = boot + 1
    <3>1. \A b \in opened : b < boot' /\ b <= boot'
      BY <1>t, <2>1
    <3>2. /\ rs = "mujoco" /\ rs' = "manager" /\ mg' = "off" /\ ready' = 0 /\ told' = 0
          /\ ~lost' /\ opened' = opened
      BY <1>0, <1>7 DEF StartMujoco
    <3>3. boot' \notin opened'
      BY <1>t, <2>1, <3>1, <3>2
    <3> QED
      BY <3>1, <3>2, <3>3
  <2>2. CASE boot' = boot /\ sim' = sim
    BY <1>0, <1>7, <2>2 DEF StartMujoco
  <2> QED
    BY <1>7, <2>1, <2>2 DEF StartMujoco
<1>8. CASE StartManager
  BY <1>0, <1>8, CapsType DEF StartManager
<1>9. CASE ReadySeen
  BY <1>0, <1>9 DEF ReadySeen
<1>10. CASE RestartFails
  BY <1>0, <1>10 DEF RestartFails
<1> QED
  BY <1>1, <1>2, <1>3, <1>4, <1>5, <1>6, <1>7, <1>8, <1>9, <1>10 DEF RestartSteps

LEMMA WorldKeeps ==
    ASSUME IInv, Opens, World \/ GoesStale
    PROVE  BootInv'
<1> USE DEF IInv, BootInv, RestartInv, ManagerInv, FilesInv, OnceInv, Cleared, Bringing,
            worldVars, fileVars, mgVars, mgAndSeen, bootVars
<1>0. ready' = ready => opened' = opened
  BY OpenedStays
<1>1. CASE CtlEntersPassive
  BY <1>0, <1>1 DEF CtlEntersPassive
<1>2. CASE Touch
  BY <1>0, <1>2 DEF Touch
<1>3. CASE RobotMoves
  BY <1>0, <1>3 DEF RobotMoves
<1>4. CASE SimDies
  BY <1>0, <1>4 DEF SimDies
<1>5. CASE Pause
  BY <1>0, <1>5 DEF Pause
<1>6. CASE Resume
  BY <1>0, <1>6 DEF Resume
<1>7. CASE GoesStale
  BY <1>0, <1>7 DEF GoesStale
<1> QED
  BY <1>1, <1>2, <1>3, <1>4, <1>5, <1>6, <1>7 DEF World

(* A hold that is complete was seen from its first pass to its last.       *)
LEMMA VerifyKeeps ==
    ASSUME IInv, Opens, UNCHANGED bootVars,
           NEW s \in BOOLEAN, NEW c \in BOOLEAN, VerifyPass(s, c)
    PROVE  BootInv'
<1> USE DEF IInv, worldVars, fileVars, bootVars
<1>t. /\ boot \in Nat /\ nonce \in Nat /\ watched \in 0..Hold /\ held \in 0..Hold
  BY DEF Types, TypeOK, SimTypeOK, MgTypeOK, HistTypeOK
<1>1. opened' = opened
  BY OpenedStays DEF BootInv, VerifyPass
<1>2. /\ boot' = boot /\ sim' = sim /\ ready' = ready /\ lost' = lost /\ stale' = stale
      /\ rs' = rs /\ told' = told /\ mg = "verify" /\ held' = HeldAfter
      /\ mg' \in {"verify", "verified", "off"}
  BY DEF VerifyPass
<1>3. nonce' = nonce \/ (nonce' = boot /\ sim = "running")
  BY DEF VerifyPass, Receives
<1>4. nonce' # 0 => nonce' = boot
  BY <1>2, <1>3 DEF BootInv, ManagerInv
<1>5. certified \subseteq certified' /\ certified' \subseteq certified \cup {boot}
  BY DEF VerifyPass, Witnesses
<1>6. /\ held' <= watched'
      /\ held' < Hold \/ held' = Hold
      /\ held' = Hold => nonce' # 0 /\ boot \in certified'
  <2>1. CASE InWindow
    BY <1>t, <1>2, <2>1, CapsType
       DEF VerifyPass, HeldAfter, InWindow, Witnesses, Capped, BootInv, ManagerInv
  <2>2. CASE ~InWindow
    <3>1. held' = 0 /\ watched' \in 0..Hold
      BY <1>2, <2>2, WitnessesType DEF HeldAfter, VerifyPass
    <3> QED
      BY <3>1, CapsType
  <2> QED
    BY <2>1, <2>2
<1>7. /\ mg' = "verified" => held' = Hold
      /\ mg' = "verify" => held' # Hold
  BY <1>2 DEF VerifyPass
<1>8. RestartInv'
  BY <1>2 DEF BootInv, RestartInv, Cleared
<1>9. ManagerInv'
  BY <1>2, <1>4, <1>6, <1>7 DEF ManagerInv
<1>10. FilesInv'
  BY <1>1, <1>2, <1>5 DEF BootInv, FilesInv, Bringing
<1>11. OnceInv'
  BY <1>1, <1>2, <1>3 DEF BootInv, RestartInv, OnceInv, Bringing, Cleared
<1> QED
  BY <1>8, <1>9, <1>10, <1>11 DEF BootInv

LEMMA MonitorKeeps ==
    ASSUME IInv, Opens, UNCHANGED bootVars,
           NEW s \in BOOLEAN, NEW c \in BOOLEAN, MonitorPass(s, c)
    PROVE  BootInv'
<1> USE DEF IInv, worldVars, fileVars, bootVars
<1>1. /\ boot' = boot /\ sim' = sim /\ lost' = lost /\ certified' = certified
      /\ rs' = rs /\ told' = told /\ mg = "monitor" /\ mg' \in {"monitor", "losing"}
  BY DEF MonitorPass
<1>2. nonce' = nonce \/ nonce' = boot
  BY DEF MonitorPass, Receives
<1>3. nonce = boot /\ nonce' = boot /\ boot # 0 /\ boot \in certified /\ ready = boot
  BY <1>1, <1>2 DEF BootInv, ManagerInv, FilesInv
<1>4. /\ mg' = "monitor" => ready' = boot /\ ~stale'
      /\ mg' = "losing" => ready' = 0
  BY <1>1, <1>3 DEF MonitorPass, BootInv, FilesInv
<1>5. opened' = opened
  BY <1>1, <1>3, <1>4, OpenedStays DEF Opens, BootReady, BootInv
<1>6. RestartInv'
  BY <1>1 DEF BootInv, RestartInv, Cleared
<1>7. ManagerInv'
  BY <1>1, <1>3 DEF ManagerInv
<1>8. FilesInv'
  BY <1>1, <1>3, <1>4, <1>5 DEF BootInv, FilesInv, Bringing
<1>9. OnceInv'
  BY <1>1, <1>5 DEF BootInv, RestartInv, OnceInv, Bringing, Cleared
<1> QED
  BY <1>6, <1>7, <1>8, <1>9 DEF BootInv

LEMMA ManagerKeeps ==
    ASSUME IInv, Opens, Manager, UNCHANGED bootVars
    PROVE  BootInv'
<1> USE DEF IInv, BootInv, RestartInv, ManagerInv, FilesInv, OnceInv, Cleared, Bringing,
            worldVars, fileVars, bootVars
<1>0. ready' = ready => opened' = opened
  BY OpenedStays
<1>1. CASE Burst
  BY <1>0, <1>1 DEF Burst
<1>2. CASE Publish
  <2>1. /\ ready' = boot /\ boot # 0 /\ ~stale' /\ ~lost' /\ boot' = boot
        /\ boot \notin opened /\ mg' = "monitor"
    BY <1>2 DEF Publish
  <2>2. opened' = opened \cup {boot}
    BY <2>1 DEF Opens, BootReady
  <2>3. boot \in Nat /\ opened \in SUBSET Nat
    BY DEF Types, TypeOK, SimTypeOK, HistTypeOK
  <2> QED
    BY <1>2, <2>1, <2>2, <2>3 DEF Publish
<1>3. CASE WriteLost
  BY <1>0, <1>3 DEF WriteLost
<1>4. CASE VerifyTimesOut
  BY <1>0, <1>4 DEF VerifyTimesOut
<1>5. CASE Dies
  BY <1>0, <1>5 DEF Dies
<1> QED
  BY <1>1, <1>2, <1>3, <1>4, <1>5, VerifyKeeps, MonitorKeeps DEF Manager, ManagerSteps

-----------------------------------------------------------------------------
LEMMA StepInv ==
    ASSUME IInv, Next
    PROVE  IInv'
<1>1. Opens /\ Step
  BY DEF Next, Opens
<1>2. CASE RestartBegins \/ RestartSteps
  BY <1>1, <1>2, RestartTypes, RestartKeeps DEF IInv
<1>3. CASE World \/ GoesStale
  BY <1>1, <1>3, WorldTypes, WorldKeeps DEF IInv
<1>4. CASE Manager /\ UNCHANGED bootVars
  BY <1>1, <1>4, ManagerTypes, ManagerKeeps DEF IInv
<1> QED
  BY <1>1, <1>2, <1>3, <1>4 DEF Step

LEMMA StutterInv ==
    ASSUME IInv, UNCHANGED vars
    PROVE  IInv'
BY DEF vars, worldVars, fileVars, mgVars, bootVars, IInv, Types, TypeOK, SimTypeOK,
       MgTypeOK, HistTypeOK, BootInv, RestartInv, ManagerInv, FilesInv, OnceInv

(* The inductive invariant from which the theorems follow.                 *)
THEOREM Inductive == Spec => []IInv
<1>1. Init => IInv
  BY InitTypes, InitBoot DEF IInv
<1>2. IInv /\ [Next]_vars => IInv'
  BY StepInv, StutterInv
<1> QED
  BY <1>1, <1>2, PTL DEF Spec

(* The variables of manager, files, simulator and restart() keep their     *)
(* types.                                                                  *)
THEOREM TypeCorrect == Spec => []TypeOK
<1>1. IInv => TypeOK
  BY DEF IInv, Types
<1> QED
  BY <1>1, Inductive, PTL

(* boot-ready.json names only the boot that is up, and only after its      *)
(* robot was seen standing for the whole hold without a gap.               *)
THEOREM ReadyHeld == Spec => []ReadyWasHeld
<1>1. IInv => ReadyWasHeld
  BY DEF IInv, BootInv, FilesInv, ReadyWasHeld
<1> QED
  BY <1>1, Inductive, PTL

(* restart() answers only with the boot it has brought up itself.          *)
THEOREM RestartHonest == Spec => []RestartTellsItsBoot
<1>1. IInv => RestartTellsItsBoot
  BY DEF IInv, BootInv, FilesInv, RestartTellsItsBoot
<1> QED
  BY <1>1, Inductive, PTL

-----------------------------------------------------------------------------
(* The gate _boot_ready() refines BootGate: step by step.                  *)
LEMMA GateShut ==
    ASSUME IInv, Opens, ready' = 0 \/ lost' \/ stale', boot' = boot
    PROVE  Gate!Close
BY DEF Gate!Close, Opens, BootReady

LEMMA GateStays ==
    ASSUME IInv, Opens, ready' = ready, stale' = stale, lost' = lost, boot' = boot
    PROVE  UNCHANGED Gate!gateVars
BY OpenedStays DEF Gate!gateVars, BootReady, IInv, BootInv

LEMMA GateOpens ==
    ASSUME IInv, Opens, Publish
    PROVE  Gate!Open
<1>1. /\ ready = 0 /\ ready' = boot /\ boot # 0 /\ ~stale' /\ ~lost' /\ boot' = boot
      /\ boot \notin opened
  BY DEF IInv, BootInv, ManagerInv, FilesInv, OnceInv, Bringing, Publish, worldVars
<1>2. boot > 0
  BY <1>1 DEF IInv, Types, TypeOK, SimTypeOK
<1> QED
  BY <1>1, <1>2 DEF Gate!Open, Opens, BootReady

LEMMA GateStep ==
    ASSUME IInv, Next
    PROVE  [Gate!Next]_Gate!gateVars
<1> USE DEF worldVars, fileVars, mgAndSeen, bootVars
<1>1. Opens /\ Step
  BY DEF Next, Opens
<1>2. CASE StartMujoco
  <2>1. ready' = ready /\ stale' = stale /\ lost' = lost /\ ready = 0
    BY <1>2 DEF StartMujoco, IInv, BootInv, RestartInv, Cleared
  <2>2. opened' = opened /\ BootReady = 0 /\ BootReady' = 0
    BY <1>1, <2>1 DEF Opens, BootReady
  <2>3. boot' = boot + 1 \/ boot' = boot
    BY <1>2 DEF StartMujoco
  <2> QED
    BY <2>2, <2>3 DEF Gate!Next, Gate!NextBoot, Gate!gateVars
<1>3. CASE ClearFlags
  BY <1>1, <1>3, GateShut DEF ClearFlags, Gate!Next
<1>4. CASE RestartBegins \/ StopSim \/ StopManager \/ StartCtl \/ PassiveSeen
           \/ StartManager \/ ReadySeen \/ RestartFails
  BY <1>1, <1>4, GateStays
     DEF RestartBegins, StopSim, StopManager, StartCtl, PassiveSeen, StartManager,
         ReadySeen, RestartFails
<1>5. CASE World
  BY <1>1, <1>5, GateStays
     DEF World, CtlEntersPassive, Touch, RobotMoves, SimDies, Pause, Resume
<1>6. CASE GoesStale
  BY <1>1, <1>6, GateShut DEF GoesStale, Gate!Next
<1>7. CASE Publish
  BY <1>1, <1>7, GateOpens DEF Gate!Next
<1>8. CASE Burst \/ VerifyTimesOut \/ Dies \/ \E s, c \in BOOLEAN : VerifyPass(s, c)
  BY <1>1, <1>8, GateStays DEF Burst, VerifyTimesOut, Dies, VerifyPass
<1>9. CASE WriteLost
  BY <1>1, <1>9, GateShut DEF WriteLost, Gate!Next
<1>10. ASSUME NEW s \in BOOLEAN, NEW c \in BOOLEAN, MonitorPass(s, c)
       PROVE  [Gate!Next]_Gate!gateVars
  <2>1. /\ ready = boot /\ boot # 0 /\ ~stale /\ ~lost /\ boot' = boot /\ lost' = lost
        /\ nonce' = boot
    BY <1>10 DEF MonitorPass, Receives, IInv, BootInv, ManagerInv, FilesInv
  <2>2. CASE mg' = "losing"
    BY <1>1, <1>10, <2>1, <2>2, GateShut DEF MonitorPass, Gate!Next
  <2>3. CASE mg' = "monitor"
    <3>1. ready' = ready /\ stale' = stale
      BY <1>10, <2>1, <2>3 DEF MonitorPass, IInv, Types, TypeOK, SimTypeOK
    <3> QED
      BY <1>1, <2>1, <3>1, GateStays
  <2> QED
    BY <1>10, <2>2, <2>3 DEF MonitorPass
<1> QED
  BY <1>1, <1>2, <1>3, <1>4, <1>5, <1>6, <1>7, <1>8, <1>9, <1>10
     DEF Step, RestartSteps, Manager, ManagerSteps

(* For every length of the hold: the gate is opened only for the boot that *)
(* is up, once in each boot, and it is shut before the next one begins.    *)
THEOREM GateRefined == Spec => ImplementsGate
<1>1. Init => Gate!Init
  BY DEF Init, Gate!Init, BootReady
<1>2. IInv /\ [Next]_vars => [Gate!Next]_Gate!gateVars
  <2>1. IInv /\ UNCHANGED vars => UNCHANGED Gate!gateVars
    BY DEF vars, worldVars, fileVars, Gate!gateVars, BootReady
  <2> QED
    BY <2>1, GateStep
<1> QED
  BY <1>1, <1>2, Inductive, PTL DEF Spec, ImplementsGate, Gate!Spec
=============================================================================
