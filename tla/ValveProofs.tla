---------------------------- MODULE ValveProofs -----------------------------
(***************************************************************************)
(* Proofs of the safety properties of Valve for any set of units, any wire *)
(* and sensor readings and any factory pin.                                *)
(*                                                                         *)
(* IInv is split by what the handlers share: MotoOK is kept by the motor   *)
(* operations, StatusOK by the arbiter, ScanOK by the scan, and LinkOK     *)
(* ties the status shown to what is stored.  The refinements come last.    *)
(***************************************************************************)
EXTENDS ValveProps, TLAPS

MotoTyped ==
    /\ ValveStatus \in {0, 1} /\ LastFlag \in 0..4
    /\ Turn \in [Motor -> {0, 1}]
    /\ Act \subseteq Motor /\ Det \subseteq Motor /\ SenorIrq \subseteq Motor
    /\ Pause_Flag \in {0, 1}
    /\ timers \subseteq {"Delay", "Learn", "MotoDetect"}

MotoOK == MotoTyped /\ LockedShut /\ SelfTestSound

TestTyped == Turn_Flag \in [Motor -> 0..2] /\ Moto_Fail_FLag \in [Motor -> {0, 1}]

StatusOK ==
    /\ Now_Status \in Device_Status /\ priority \in 0..8
    /\ Now_Status \in ClosingAlarms => ValveStatus = 0
    /\ PriorityShown

ScanOK ==
    /\ WarningPastStatus \in 0..2 /\ WarningStatus \in {0, 1, 2, 4, 8, 16, 32}
    /\ ScanArmed

RestTyped ==
    /\ NTC_State \in {0, 1} /\ Learn_Flag \in {0, 1} /\ Last_Close_Flag \in {0, 1}
    /\ Factory_Flag \in {0, 1} /\ wiping \in {0, 1}
    /\ Registered \subseteq Devices /\ StoredAlarm \subseteq Devices
    /\ SlaveAlarm \subseteq Devices \cup {Freed}
    /\ wire \in Wires

LinkOK == ThawKeepsLock /\ SlaveAlarmLocked

\* The split of the invariant.
LEMMA Parts == IInv => MotoOK /\ TestTyped /\ StatusOK /\ ScanOK /\ RestTyped /\ LinkOK
BY DEF IInv, TypeOK, MotoOK, MotoTyped, TestTyped, StatusOK, ScanOK, RestTyped, LinkOK,
       LockedShut, SelfTestSound, AlarmShut, MotorsOff

\* The same for the next state.
LEMMA Join == MotoOK' /\ TestTyped' /\ StatusOK' /\ ScanOK' /\ RestTyped' /\ LinkOK' => IInv'
BY DEF IInv, TypeOK, MotoOK, MotoTyped, TestTyped, StatusOK, ScanOK, RestTyped, LinkOK,
       LockedShut, SelfTestSound, AlarmShut, MotorsOff

\* Moto_Close keeps the motor part and leaves the valve shut, even when it
\* refuses: then the valve was locked, and shut already.
LEMMA CloseOK ==
    ASSUME MotoOK, NEW a \in {NormalOff, OtherOff}, Moto_Close(a)
    PROVE  /\ MotoOK'
           /\ ValveStatus' = 0
           /\ a = OtherOff => LastFlag' = OtherOff
           /\ LastFlag # OtherOff => LastFlag' = a
           /\ LastFlag = OtherOff => LastFlag' = OtherOff
<1> USE DEF Moto_Close, StopSelfTest, motoVars, NormalOff, OtherOff
<1>1. MotoTyped'
  <2>1. Turn' \in [Motor -> {0, 1}]
    BY DEF MotoOK, MotoTyped
  <2>2. Act' \subseteq Motor /\ Det' \subseteq Motor /\ SenorIrq' \subseteq Motor
    BY DEF MotoOK, MotoTyped
  <2>3. LastFlag' \in 0..4 /\ ValveStatus' \in {0, 1} /\ Pause_Flag' \in {0, 1}
    BY DEF MotoOK, MotoTyped
  <2>4. timers' \subseteq {"Delay", "Learn", "MotoDetect"}
    BY DEF MotoOK, MotoTyped
  <2> QED BY <2>1, <2>2, <2>3, <2>4 DEF MotoTyped
<1>2. ValveStatus' = 0 /\ (a = OtherOff => LastFlag' = OtherOff)
        /\ (LastFlag # OtherOff => LastFlag' = a) /\ (LastFlag = OtherOff => LastFlag' = OtherOff)
  BY DEF MotoOK, MotoTyped, LockedShut, MotorsOff
<1>3. (\A m \in Motor : Turn'[m] = 0) /\ Act' = {} /\ Det' = {} /\ (Pause_Flag' = 1 => Pause_Flag = 1 /\ LastFlag = OtherOff)
  BY DEF MotoOK, MotoTyped, LockedShut, MotorsOff
<1>4. LockedShut' /\ SelfTestSound'
  BY <1>1, <1>2, <1>3 DEF MotoOK, LockedShut, SelfTestSound, MotorsOff
<1> QED BY <1>1, <1>2, <1>4 DEF MotoOK

\* Moto_Open keeps the motor part; it either opens or finds the valve locked.
LEMMA OpenOK ==
    ASSUME MotoOK, NEW a \in {NormalOpen, OtherOpen}, Moto_Open(a)
    PROVE  /\ MotoOK'
           /\ MayOpen(a) => ValveStatus' = 1 /\ LastFlag' = a
           /\ ~MayOpen(a) => ValveStatus' = 0 /\ ValveStatus = 0
                               /\ LastFlag' = OtherOff /\ LastFlag = OtherOff
<1> USE DEF Moto_Open, MayOpen, motoVars, NormalOpen, OtherOff, OtherOpen
<1>1. MotoTyped'
  <2>1. Turn' \in [Motor -> {0, 1}]
    BY DEF MotoOK, MotoTyped
  <2>2. Act' \subseteq Motor /\ Det' \subseteq Motor /\ SenorIrq' \subseteq Motor
    BY DEF MotoOK, MotoTyped
  <2>3. LastFlag' \in 0..4 /\ ValveStatus' \in {0, 1} /\ Pause_Flag' \in {0, 1}
    BY DEF MotoOK, MotoTyped
  <2>4. timers' \subseteq {"Delay", "Learn", "MotoDetect"}
    BY DEF MotoOK, MotoTyped
  <2> QED BY <2>1, <2>2, <2>3, <2>4 DEF MotoTyped
<1>2. /\ MayOpen(a) => ValveStatus' = 1 /\ LastFlag' = a
      /\ ~MayOpen(a) => ValveStatus' = 0 /\ ValveStatus = 0
                          /\ LastFlag' = OtherOff /\ LastFlag = OtherOff
  BY DEF MotoOK, MotoTyped, LockedShut, MotorsOff
<1>3. CASE MayOpen(a)
  <2>1. (\A m \in Motor : Turn'[m] = 1) /\ LastFlag' # OtherOff /\ ValveStatus' = 1
    BY <1>3 DEF MotoOK, MotoTyped
  <2>2. Act' = Act /\ Det' = Det /\ Pause_Flag' = Pause_Flag
    BY <1>3
  <2> QED BY <1>1, <1>2, <2>1, <2>2 DEF MotoOK, LockedShut, SelfTestSound, MotorsOff
<1>4. CASE ~MayOpen(a)
  BY <1>1, <1>2, <1>4 DEF MotoOK, LockedShut, SelfTestSound, MotorsOff
<1> QED BY <1>3, <1>4

\* Starting a self-test keeps the motor part and moves neither the valve's
\* state nor its lock.
LEMMA DetectOK ==
    ASSUME MotoOK, TestTyped, NEW S \in SUBSET Sensors, Moto_Detect(S),
           timers' \subseteq timers
    PROVE  MotoOK' /\ TestTyped' /\ ValveStatus' = ValveStatus /\ LastFlag' = LastFlag
<1> USE DEF Moto_Detect, PauseFor, motoVars, testVars
<1>1. MotoTyped'
  <2>1. Turn' \in [Motor -> {0, 1}]
    BY DEF MotoOK, MotoTyped
  <2>2. Act' \subseteq Motor /\ Det' \subseteq Motor /\ SenorIrq' \subseteq Motor
    BY SensorsAssumption DEF MotoOK, MotoTyped
  <2>3. LastFlag' \in 0..4 /\ ValveStatus' \in {0, 1} /\ Pause_Flag' \in {0, 1}
    BY DEF MotoOK, MotoTyped
  <2>4. timers' \subseteq {"Delay", "Learn", "MotoDetect"}
    BY DEF MotoOK, MotoTyped
  <2> QED BY <2>1, <2>2, <2>3, <2>4 DEF MotoTyped
<1>2. TestTyped'
  <2>1. Turn_Flag' \in [Motor -> 0..2]
    BY DEF TestTyped
  <2>2. Moto_Fail_FLag' \in [Motor -> {0, 1}]
    BY DEF TestTyped
  <2> QED BY <2>1, <2>2 DEF TestTyped
<1>3. ValveStatus' = ValveStatus /\ LastFlag' = LastFlag
  OBVIOUS
<1>4. CASE ValveStatus = 1
  <2>1. Act' = Act \cup S /\ Det' = Det /\ (Pause_Flag' = 1 => Pause_Flag = 1 \/ S # {})
    BY <1>4
  <2>2. \A m \in Motor : Turn'[m] = 0 => m \in S \/ Turn[m] = 0
    BY <1>4
  <2>3. LastFlag # OtherOff
    BY <1>4 DEF MotoOK, LockedShut, MotorsOff
  <2>4. SelfTestSound'
    BY <1>3, <1>4, <2>1, <2>2 DEF MotoOK, SelfTestSound, MotorsOff
  <2> QED BY <1>1, <1>2, <1>3, <2>3, <2>4 DEF MotoOK, LockedShut, OtherOff
<1>5. CASE ValveStatus # 1
  BY <1>1, <1>2, <1>3, <1>5 DEF MotoOK, LockedShut, SelfTestSound, MotorsOff
<1> QED BY <1>4, <1>5

-----------------------------------------------------------------------------
(***************************************************************************)
(* The arbiter.                                                            *)
(***************************************************************************)
\* The table of WarningInit, field by field.
LEMMA Ranks ==
    /\ EventPriority["SlaverLowPower"] = 4 /\ EventPriority["SlaverWaterAlarmActive"] = 8
    /\ EventPriority["MasterLostPeak"] = 1 /\ EventPriority["MasterWaterAlarmActive"] = 7
    /\ EventPriority["Offline"] = 5 /\ EventPriority["MotoFail"] = 3
    /\ EventPriority["SlaverUltraLowPower"] = 6 /\ EventPriority["NTCWarning"] = 2
BY DEF EventPriority

\* Every status with a rank has one between 1 and 8.
LEMMA RankRange == \A w \in Alarms : EventPriority[w] \in 1..8 /\ w \in Device_Status
BY Ranks DEF Alarms, ClosingAlarms, Device_Status

\* Raising a closing warning: accepted, it is shown over a shut valve and at
\* its own priority; refused, nothing moves.
LEMMA EnableOK ==
    ASSUME MotoOK, StatusOK, NEW w \in ClosingAlarms, Warning_Enable(w)
    PROVE  /\ MotoOK' /\ StatusOK'
           /\ Accepts(w) => /\ Now_Status' = w /\ ValveStatus' = 0
                            /\ CloseFlag(w) = OtherOff => LastFlag' = OtherOff
                            /\ LastFlag = OtherOff => LastFlag' = OtherOff
                            /\ (w # "Offline" /\ LastFlag # OtherOff) => LastFlag' = CloseFlag(w)
                            /\ priority' = EventPriority[w]
           /\ ~Accepts(w) => UNCHANGED <<statusVars, motoVars, timers>>
<1>1. CloseFlag(w) \in {NormalOff, OtherOff}
  BY DEF CloseFlag
<1>2. w \in Alarms /\ EventPriority[w] \in 1..8 /\ w \in Device_Status
  BY RankRange DEF Alarms
<1>3. CASE Accepts(w)
  <2>1. priority' = EventPriority[w] /\ Now_Status' = w
    BY <1>3 DEF Warning_Enable
  <2>2. CASE AlreadyShown(w)
    <3>1. UNCHANGED <<motoVars, timers>>
      BY <1>3, <2>2 DEF Warning_Enable
    <3>2. ValveStatus = 0
      BY <2>2 DEF AlreadyShown, StatusOK, ClosingAlarms
    <3>3. MotoOK' /\ ValveStatus' = 0 /\ LastFlag' = LastFlag
      BY <3>1, <3>2 DEF motoVars, MotoOK, MotoTyped, LockedShut, SelfTestSound, MotorsOff
    <3>4. CloseFlag(w) # OtherOff
      BY <2>2 DEF AlreadyShown, CloseFlag, NormalOff, OtherOff
    <3> QED BY <1>2, <1>3, <2>1, <2>2, <3>3, <3>4 DEF AlreadyShown, StatusOK, PriorityShown
  <2>3. CASE ~AlreadyShown(w)
    <3>1. Moto_Close(CloseFlag(w))
      BY <1>3, <2>3 DEF Warning_Enable
    <3>2. /\ MotoOK' /\ ValveStatus' = 0
          /\ CloseFlag(w) = OtherOff => LastFlag' = OtherOff
          /\ LastFlag # OtherOff => LastFlag' = CloseFlag(w)
          /\ LastFlag = OtherOff => LastFlag' = OtherOff
      BY <1>1, <3>1, CloseOK
    <3> QED BY <1>2, <1>3, <2>1, <3>2 DEF StatusOK, PriorityShown
  <2> QED BY <2>2, <2>3
<1>4. CASE ~Accepts(w)
  <2>1. UNCHANGED <<statusVars, motoVars, timers>>
    BY <1>4 DEF Warning_Enable
  <2>2. MotoOK'
    BY <2>1 DEF motoVars, MotoOK, MotoTyped, LockedShut, SelfTestSound, MotorsOff
  <2>3. StatusOK'
    BY <2>1 DEF statusVars, motoVars, StatusOK, PriorityShown
  <2> QED BY <1>4, <2>1, <2>2, <2>3
<1> QED BY <1>3, <1>4

\* Raising a warning that only shows keeps the status part.
LEMMA NotifyOK ==
    ASSUME StatusOK, NEW w \in {"MasterLostPeak", "MotoFail"}, Warning_Notify(w),
           ValveStatus' = ValveStatus
    PROVE  StatusOK' /\ Now_Status' \in {Now_Status, w}
<1>1. w \in Alarms /\ w \notin ClosingAlarms /\ EventPriority[w] \in 1..8 /\ w \in Device_Status
  BY RankRange DEF Alarms, ClosingAlarms
<1>2. CASE Accepts(w)
  BY <1>1, <1>2 DEF Warning_Notify, StatusOK, PriorityShown
<1>3. CASE ~Accepts(w)
  BY <1>3 DEF Warning_Notify, StatusOK, PriorityShown
<1> QED BY <1>2, <1>3

\* A status that is no warning satisfies the status part at any priority.
LEMMA CalmOK ==
    ASSUME Now_Status' \in {"Open", "Close", "Learn", "MasterWaterAlarmDeActive"}, priority' \in 0..8
    PROVE  StatusOK'
BY DEF StatusOK, PriorityShown, Alarms, ClosingAlarms, Device_Status

\* The link between status and storage is kept when neither linked status is
\* shown afterwards, or when nothing it reads has moved.
LEMMA LinkFrame ==
    ASSUME LinkOK,
           \/ Now_Status' \notin {"NTCWarning", "SlaverWaterAlarmActive"}
           \/ UNCHANGED <<Now_Status, LastFlag, NTC_State, SlaveAlarm, wiping>>
    PROVE  LinkOK'
BY DEF LinkOK, ThawKeepsLock, SlaveAlarmLocked, SlaveAlarmShown

\* Clearing the scan arms it.
LEMMA ClearOK == WaterScan_Clear => ScanOK'
BY DEF WaterScan_Clear, ScanOK, ScanArmed

\* What a handler does not touch stays as it was.
LEMMA Frame ==
    /\ MotoOK /\ UNCHANGED motoVars /\ timers' \subseteq timers \cup {"Delay", "Learn", "MotoDetect"}
         => MotoOK' /\ ValveStatus' = ValveStatus /\ LastFlag' = LastFlag
    /\ TestTyped /\ UNCHANGED testVars => TestTyped'
    /\ StatusOK /\ UNCHANGED statusVars /\ ValveStatus' = ValveStatus => StatusOK'
    /\ ScanOK /\ UNCHANGED scanVars => ScanOK'
    /\ RestTyped /\ UNCHANGED <<modeVars, tableVars, wire>> => RestTyped'
<1>1. MotoOK /\ UNCHANGED motoVars /\ timers' \subseteq timers \cup {"Delay", "Learn", "MotoDetect"}
         => MotoOK' /\ ValveStatus' = ValveStatus /\ LastFlag' = LastFlag
  BY DEF motoVars, MotoOK, MotoTyped, LockedShut, SelfTestSound, MotorsOff
<1>2. TestTyped /\ UNCHANGED testVars => TestTyped'
  BY DEF TestTyped, testVars
<1>3. StatusOK /\ UNCHANGED statusVars /\ ValveStatus' = ValveStatus => StatusOK'
  BY DEF StatusOK, statusVars, PriorityShown
<1>4. ScanOK /\ UNCHANGED scanVars => ScanOK'
  BY DEF ScanOK, scanVars, ScanArmed
<1>5. RestTyped /\ UNCHANGED <<modeVars, tableVars, wire>> => RestTyped'
  BY DEF RestTyped, modeVars, tableVars
<1> QED BY <1>1, <1>2, <1>3, <1>4, <1>5

-----------------------------------------------------------------------------
(***************************************************************************)
(* One lemma per group of handlers: each keeps the invariant.              *)
(***************************************************************************)
\* A boot establishes the invariant from whatever flash holds.
LEMMA BootStep == ASSUME IInv, NEW a \in SUBSET Devices, Boot(a) PROVE IInv'
<1>1. MotoTyped /\ RestTyped
  BY Parts DEF MotoOK
<1>2. MotoTyped'
  BY <1>1 DEF Boot, Moto_Init, MotoTyped, NormalOpen, OtherOff
<1>3. LockedShut' /\ SelfTestSound'
  BY DEF Boot, Moto_Init, LockedShut, SelfTestSound, MotorsOff, NormalOpen, OtherOff
<1>4. TestTyped'
  BY DEF Boot, TestTyped
<1>5. StatusOK'
  BY Ranks DEF Boot, Moto_Init, StatusOK, PriorityShown, Alarms, ClosingAlarms, Device_Status
<1>6. ScanOK'
  BY ClearOK DEF Boot
<1>7. RestTyped'
  BY <1>1, TestPinsAssumption DEF Boot, RestTyped
<1>8. LinkOK'
  BY DEF Boot, Moto_Init, LinkOK, ThawKeepsLock, SlaveAlarmLocked, SlaveAlarmShown
<1> QED BY <1>2, <1>3, <1>4, <1>5, <1>6, <1>7, <1>8, Join DEF MotoOK

\* The water scan.
LEMMA ScanStepOK == ASSUME IInv, waterscan_timer_callback PROVE IInv'
<1> USE DEF waterscan_timer_callback
<1>1. MotoOK /\ TestTyped /\ StatusOK /\ ScanOK /\ RestTyped /\ LinkOK
  BY Parts
<1>2. TestTyped' /\ RestTyped'
  BY <1>1, Frame
<1>3. ASSUME NEW p \in 0..2, NEW n \in 0..2, NEW c \in {1, 2, 4, 8, 16, 32}, NEW t \in 0..2,
             ScanStep(p, n, c, t), t = 0 => c \notin {4, 8}, t = 1 => c \notin {16, 32}
      PROVE  ScanOK'
  BY <1>3 DEF ScanStep, ScanOK, ScanArmed
<1>4. CASE WaterGone
  <2> USE DEF WaterGone
  <2>1. MotoOK' /\ ValveStatus' = ValveStatus /\ LastFlag' = LastFlag
    BY <1>1, <1>4, Frame
  <2>2. ScanOK'
    BY <1>3, <1>4
  <2>3. CASE Detect_Learn
    <3>1. Now_Status' = "MasterWaterAlarmDeActive" /\ priority' \in 0..8
      BY <1>1, <1>4, <2>3 DEF StatusOK
    <3> QED BY <1>1, <1>2, <2>1, <2>2, <3>1, CalmOK, LinkFrame, Join
  <2>4. CASE ~Detect_Learn
    <3>1. UNCHANGED statusVars
      BY <1>4, <2>4 DEF statusVars
    <3>2. UNCHANGED <<Now_Status, LastFlag, NTC_State, SlaveAlarm, wiping>>
      BY <2>1, <3>1 DEF statusVars, modeVars, tableVars
    <3> QED BY <1>1, <1>2, <2>1, <2>2, <3>1, <3>2, Frame, LinkFrame, Join
  <2> QED BY <2>3, <2>4
<1>5. CASE WaterToLost
  <2> USE DEF WaterToLost
  <2>1. MotoOK' /\ ValveStatus' = ValveStatus /\ LastFlag' = LastFlag /\ StatusOK'
    BY <1>1, <1>5, Frame
  <2>2. ScanOK'
    BY <1>3, <1>5
  <2>3. UNCHANGED <<Now_Status, LastFlag, NTC_State, SlaveAlarm, wiping>>
    BY <2>1, <1>5 DEF statusVars, modeVars, tableVars
  <2> QED BY <1>1, <1>2, <2>1, <2>2, <2>3, LinkFrame, Join
<1>6. CASE WireLost
  <2> USE DEF WireLost
  <2>1. MotoOK' /\ ValveStatus' = ValveStatus /\ LastFlag' = LastFlag
    BY <1>1, <1>6, Frame
  <2>2. ScanOK'
    BY <1>3, <1>6
  <2>3. StatusOK' /\ Now_Status' \in {Now_Status, "MasterLostPeak"}
    BY <1>1, <1>6, <2>1, NotifyOK, Frame DEF statusVars
  <2>4. LinkOK'
    BY <1>1, <2>1, <2>3, LinkFrame DEF modeVars, tableVars
  <2> QED BY <1>2, <2>1, <2>2, <2>3, <2>4, Join
<1>7. CASE WireBack
  <2> USE DEF WireBack
  <2>1. MotoOK' /\ ValveStatus' = ValveStatus /\ LastFlag' = LastFlag
    BY <1>1, <1>7, Frame
  <2>2. ScanOK'
    BY <1>3, <1>7
  <2>3. Now_Status' \in {"Open", "Close"} \/ UNCHANGED statusVars
    BY <1>7 DEF NormalStatus, statusVars
  <2>4. priority' \in 0..8
    BY <1>1, <1>7 DEF StatusOK
  <2>5. StatusOK'
    BY <1>1, <2>1, <2>3, <2>4, Frame, CalmOK
  <2>6. LinkOK'
    BY <1>1, <2>1, <2>3, LinkFrame DEF modeVars, tableVars, statusVars
  <2> QED BY <1>2, <2>1, <2>2, <2>5, <2>6, Join
<1>8. ASSUME NEW p \in {0, 1}, NEW c \in {8, 32}, WaterFound(p, c) PROVE IInv'
  <2> USE DEF WaterFound
  <2>1. ScanOK'
    BY <1>3, <1>8
  <2>2. CASE Detect_Learn
    <3>1. Warning_Enable("MasterWaterAlarmActive") /\ "MasterWaterAlarmActive" \in ClosingAlarms
      BY <1>8, <2>2 DEF ClosingAlarms
    <3>2. MotoOK' /\ StatusOK'
            /\ (Now_Status' = "MasterWaterAlarmActive" \/ UNCHANGED <<statusVars, motoVars, timers>>)
      BY <1>1, <3>1, EnableOK
    <3>3. LinkOK'
      BY <1>1, <3>2, LinkFrame DEF modeVars, tableVars, statusVars, motoVars
    <3> QED BY <1>2, <2>1, <3>2, <3>3, Join
  <2>3. CASE ~Detect_Learn
    <3>1. UNCHANGED <<statusVars, motoVars, timers>>
      BY <1>8, <2>3
    <3>2. MotoOK' /\ StatusOK'
      BY <1>1, <3>1, Frame
    <3>3. LinkOK'
      BY <1>1, <3>1, LinkFrame DEF modeVars, tableVars, statusVars, motoVars
    <3> QED BY <1>2, <2>1, <3>2, <3>3, Join
  <2> QED BY <2>2, <2>3
<1> QED BY <1>4, <1>5, <1>6, <1>7, <1>8

\* A handler that ends in a status that is no warning.
LEMMA CalmStep ==
    ASSUME IInv, MotoOK', TestTyped', ScanOK', RestTyped', priority' \in 0..8,
           Now_Status' \in {"Open", "Close", "Learn", "MasterWaterAlarmDeActive"}
    PROVE  IInv'
<1>1. LinkOK
  BY Parts
<1>2. LinkOK'
  BY <1>1, LinkFrame
<1> QED BY <1>2, CalmOK, Join

\* A handler that leaves the status, the valve and what is stored alone.
LEMMA StillStep ==
    ASSUME IInv, MotoOK', TestTyped', ScanOK', RestTyped', UNCHANGED statusVars,
           UNCHANGED <<ValveStatus, LastFlag, NTC_State, SlaveAlarm, wiping>>
    PROVE  IInv'
<1>1. LinkOK /\ StatusOK
  BY Parts
<1>2. LinkOK'
  BY <1>1, LinkFrame DEF statusVars
<1>3. StatusOK'
  BY <1>1, Frame
<1> QED BY <1>2, <1>3, Join

\* The same for a handler that only works on the device table and loses no
\* alarm flag.
LEMMA TableStep ==
    ASSUME IInv, MotoOK', TestTyped', ScanOK', RestTyped', UNCHANGED statusVars,
           UNCHANGED <<ValveStatus, LastFlag, NTC_State, wiping>>,
           SlaveAlarm # {} => SlaveAlarm' # {}
    PROVE  IInv'
<1>1. LinkOK /\ StatusOK
  BY Parts
<1>2. LinkOK'
  BY <1>1 DEF LinkOK, ThawKeepsLock, SlaveAlarmLocked, SlaveAlarmShown, statusVars
<1>3. StatusOK'
  BY <1>1, Frame
<1> QED BY <1>2, <1>3, Join

\* The freeze check.  NTC_State = 1 means the valve was open, hence not
\* locked, and the freeze closed it with NormalOff.
LEMMA NTCStep == ASSUME IInv, NEW v \in Volts, ntc_scan_timer_callback(v) PROVE IInv'
<1> USE DEF ntc_scan_timer_callback
<1>1. MotoOK /\ TestTyped /\ StatusOK /\ ScanOK /\ RestTyped /\ LinkOK
  BY Parts
<1>2. TestTyped'
  BY <1>1, Frame
<1>3. CASE NTC_Freeze
  <2> USE <1>3 DEF NTC_Freeze
  <2>1. "NTCWarning" \in ClosingAlarms /\ CloseFlag("NTCWarning") = NormalOff
    BY DEF ClosingAlarms, CloseFlag
  <2>2. /\ MotoOK' /\ StatusOK'
        /\ Accepts("NTCWarning") => /\ Now_Status' = "NTCWarning"
                                    /\ LastFlag # OtherOff => LastFlag' = NormalOff
        /\ ~Accepts("NTCWarning") => UNCHANGED <<statusVars, motoVars, timers>>
    BY <1>1, <2>1, EnableOK
  <2>3. ScanOK'
    BY <1>1, Frame
  <2>4. RestTyped'
    BY <1>1 DEF RestTyped, tableVars, MotoOK, MotoTyped
  <2>5. ThawKeepsLock'
    <3>1. ValveStatus = 1 => LastFlag # OtherOff
      BY <1>1 DEF MotoOK, LockedShut, MotorsOff
    <3>2. NTC_State' = ValveStatus
      OBVIOUS
    <3>3. CASE Accepts("NTCWarning")
      BY <2>2, <3>1, <3>2, <3>3 DEF ThawKeepsLock, NormalOff, OtherOff
    <3>4. CASE ~Accepts("NTCWarning")
      BY <2>2, <3>4 DEF ThawKeepsLock, statusVars
    <3> QED BY <3>3, <3>4
  <2>6. SlaveAlarmLocked'
    BY <1>1, <2>2 DEF LinkOK, SlaveAlarmLocked, SlaveAlarmShown, statusVars, motoVars, tableVars
  <2> QED BY <1>2, <2>2, <2>3, <2>4, <2>5, <2>6, Join DEF LinkOK
<1>4. CASE NTC_Thaw
  <2> USE <1>4 DEF NTC_Thaw
  <2>1. ScanOK' /\ priority' \in 0..8
    BY ClearOK
  <2>2. RestTyped'
    BY <1>1 DEF RestTyped, tableVars
  <2>3. NormalStatus \in {"Open", "Close"}
    BY DEF NormalStatus
  <2>4. MotoOK' /\ Now_Status' \in {"Open", "Close"}
    BY <1>1, <2>3, OpenOK, CloseOK DEF OpenedStatus, ClosedStatus
  <2> QED BY <1>2, <2>1, <2>2, <2>4, CalmStep
<1> QED BY <1>3, <1>4

\* The closing delay, the learn timeout and the five-minute self-test timer.
LEMMA TimerStep ==
    ASSUME IInv,
           \/ Delay_Timer_Callback \/ Learn_Timer_Callback
           \/ \E S \in SUBSET Sensors : Moto_Detect_Timer_Callback(S)
    PROVE  IInv'
<1>1. MotoOK /\ TestTyped /\ StatusOK /\ ScanOK /\ RestTyped /\ LinkOK
  BY Parts
<1>2. CASE Delay_Timer_Callback
  <2> USE <1>2 DEF Delay_Timer_Callback
  <2>1. TestTyped' /\ ScanOK' /\ RestTyped'
    BY <1>1, Frame
  <2>2. MotoOK' /\ Now_Status' = "Close"
    BY <1>1, CloseOK DEF ClosedStatus, MayClose
  <2>3. priority' \in 0..8
    BY <1>1 DEF StatusOK
  <2> QED BY <2>1, <2>2, <2>3, CalmStep
<1>3. CASE Learn_Timer_Callback
  <2> USE <1>3 DEF Learn_Timer_Callback, Stop_Learn, Warning_Disable, BackToNormal
  <2>1. TestTyped' /\ MotoOK'
    BY <1>1, Frame
  <2>2. ScanOK' /\ priority' \in 0..8 /\ Now_Status' \in {"Open", "Close"}
    BY ClearOK DEF NormalStatus
  <2>3. RestTyped'
    BY <1>1 DEF RestTyped, tableVars
  <2> QED BY <2>1, <2>2, <2>3, CalmStep
<1>4. ASSUME NEW S \in SUBSET Sensors, Moto_Detect_Timer_Callback(S) PROVE IInv'
  <2> USE <1>4 DEF Moto_Detect_Timer_Callback
  <2>1. ScanOK' /\ RestTyped'
    BY <1>1, Frame
  <2>2. MotoOK' /\ TestTyped' /\ ValveStatus' = ValveStatus /\ LastFlag' = LastFlag
    BY <1>1, DetectOK
  <2> QED BY <2>1, <2>2, StillStep DEF modeVars, tableVars
<1> QED BY <1>2, <1>3, <1>4

\* The self-test timers of motor m, which run only while the valve is open,
\* and the end-switch interrupt.
LEMMA SelfTestStep ==
    ASSUME IInv, NEW m \in Motor,
           Moto_Timer_Act_Callback(m) \/ Turn_Timer_Callback(m) \/ Turn_Edge_Callback(m)
    PROVE  IInv'
<1>1. MotoOK /\ TestTyped /\ StatusOK /\ ScanOK /\ RestTyped /\ LinkOK
  BY Parts
<1>2. ASSUME m \in Act \/ m \in Det PROVE ValveStatus = 1 /\ LastFlag # OtherOff
  BY <1>1, <1>2 DEF MotoOK, MotoTyped, LockedShut, SelfTestSound, MotorsOff
<1>3. CASE Moto_Timer_Act_Callback(m)
  <2> USE <1>3 DEF Moto_Timer_Act_Callback
  <2>1. TestTyped' /\ ScanOK' /\ RestTyped'
    BY <1>1, Frame
  <2>2. ValveStatus' = 1 /\ ValveStatus = 1 /\ LastFlag' # OtherOff
    BY <1>2
  <2>3. Turn' \in [Motor -> {0, 1}] /\ Turn'[m] = 1 /\ \A k \in Motor \ {m} : Turn'[k] = Turn[k]
    BY <1>1 DEF MotoOK, MotoTyped
  <2>4. Act' = Act \ {m} /\ Det' = Det \cup {m}
    OBVIOUS
  <2>5. MotoTyped'
    BY <1>1, <2>3, <2>4 DEF MotoOK, MotoTyped
  <2>6. LockedShut' /\ SelfTestSound'
    BY <1>1, <2>2, <2>3, <2>4 DEF MotoOK, LockedShut, SelfTestSound, MotorsOff
  <2> QED BY <2>1, <2>5, <2>6, StillStep DEF MotoOK, modeVars, tableVars
<1>4. CASE Turn_Timer_Callback(m)
  <2> USE <1>4 DEF Turn_Timer_Callback
  <2>1. ScanOK' /\ RestTyped'
    BY <1>1, Frame
  <2>2. ValveStatus' = 1 /\ ValveStatus = 1 /\ LastFlag' # OtherOff
    BY <1>2
  <2>3. Turn' \in [Motor -> {0, 1}] /\ Turn'[m] = 1 /\ \A k \in Motor \ {m} : Turn'[k] = Turn[k]
    BY <1>1 DEF MotoOK, MotoTyped
  <2>4. Act' = Act /\ Det' \subseteq Det /\ SenorIrq' \subseteq SenorIrq
    OBVIOUS
  <2>5. MotoTyped'
    BY <1>1, <2>3, <2>4 DEF MotoOK, MotoTyped
  <2>6. LockedShut' /\ SelfTestSound'
    BY <1>1, <2>2, <2>3, <2>4 DEF MotoOK, LockedShut, SelfTestSound, MotorsOff
  <2>7. TestTyped'
    BY <1>1 DEF TestTyped
  <2>8. StatusOK' /\ Now_Status' \in {Now_Status, "MotoFail"}
    BY <1>1, NotifyOK, Frame DEF statusVars
  <2>9. LinkOK'
    BY <1>1, <2>8, LinkFrame DEF modeVars, tableVars
  <2> QED BY <2>1, <2>5, <2>6, <2>7, <2>8, <2>9, Join DEF MotoOK
<1>5. CASE Turn_Edge_Callback(m)
  <2> USE <1>5 DEF Turn_Edge_Callback
  <2>1. MotoOK' /\ ScanOK' /\ RestTyped'
    BY <1>1, Frame
  <2>2. TestTyped'
    BY <1>1 DEF TestTyped
  <2> QED BY <2>1, <2>2, StillStep DEF motoVars, modeVars, tableVars
<1> QED BY <1>3, <1>4, <1>5

\* The hourly thread.
LEMMA RTCStep ==
    ASSUME IInv, NEW test \in BOOLEAN, NEW off \in BOOLEAN, NEW S \in SUBSET Sensors,
           RTC_Timer_Entry(test, off, S)
    PROVE  IInv'
<1> USE DEF RTC_Timer_Entry
<1>1. MotoOK /\ TestTyped /\ StatusOK /\ ScanOK /\ RestTyped /\ LinkOK
  BY Parts
<1>2. ScanOK' /\ RestTyped'
  BY <1>1, Frame
<1>3. CASE ~off
  <2>1. MotoOK' /\ TestTyped' /\ ValveStatus' = ValveStatus /\ LastFlag' = LastFlag
    BY <1>1, <1>3, DetectOK
  <2> QED BY <1>2, <1>3, <2>1, StillStep DEF modeVars, tableVars
<1>4. CASE off /\ SweepCloses
  <2>1. Warning_Enable("Offline") /\ "Offline" \in ClosingAlarms /\ Accepts("Offline")
    BY <1>4 DEF ClosingAlarms, SweepCloses
  <2>2. MotoOK' /\ StatusOK' /\ Now_Status' = "Offline"
    BY <1>1, <2>1, EnableOK
  <2>3. TestTyped'
    <3>1. CASE test /\ ValveStatus = 1
      BY <1>4, <3>1 DEF TestTyped
    <3>2. CASE ~(test /\ ValveStatus = 1)
      BY <1>1, <1>4, <3>2, Frame
    <3> QED BY <3>1, <3>2
  <2>4. LinkOK'
    BY <1>1, <2>2, LinkFrame
  <2> QED BY <1>2, <2>2, <2>3, <2>4, Join
<1>5. CASE off /\ ~SweepCloses
  <2>1. MotoOK' /\ TestTyped' /\ ValveStatus' = ValveStatus /\ LastFlag' = LastFlag
    BY <1>1, <1>5, DetectOK, Frame
  <2>2. StatusOK'
    BY <1>1, <1>5, <2>1, Ranks DEF StatusOK, PriorityShown, SweepCloses, Accepts
  <2>3. LinkOK'
    BY <1>1, <1>5, <2>1, LinkFrame DEF modeVars, tableVars
  <2> QED BY <1>2, <2>1, <2>2, <2>3, Join
<1> QED BY <1>3, <1>4, <1>5

\* The key thread.
LEMMA KeyStep == ASSUME IInv, Keys PROVE IInv'
<1>1. MotoOK /\ TestTyped /\ StatusOK /\ ScanOK /\ RestTyped /\ LinkOK
  BY Parts
<1>2. priority \in 0..8 /\ NormalStatus \in {"Open", "Close"}
  BY <1>1 DEF StatusOK, NormalStatus
<1>3. CASE KeyOn
  <2> USE <1>3 DEF KeyOn
  <2>1. TestTyped' /\ ScanOK' /\ RestTyped'
    BY <1>1, Frame
  <2>2. MotoOK'
    BY <1>1, OpenOK
  <2>3. Now_Status' \in {"Open", "Close"}
    BY DEF OpenedStatus
  <2> QED BY <1>2, <2>1, <2>2, <2>3, CalmStep
<1>4. CASE KeyOff
  <2> USE <1>4 DEF KeyOff
  <2>1. TestTyped'
    BY <1>1, Frame
  <2>2. RestTyped'
    BY <1>1 DEF RestTyped, tableVars
  <2>3. MotoOK'
    BY <1>1, CloseOK, Frame
  <2>4. ScanOK' /\ Now_Status' \in {"Open", "Close"} /\ priority' \in 0..8
    BY <1>1, <1>2, ClearOK, Frame DEF ClosedStatus, Warning_Disable, BackToNormal
  <2> QED BY <2>1, <2>2, <2>3, <2>4, CalmStep
<1>5. ASSUME NEW S \in SUBSET Sensors, KeyOffFactory(S) PROVE IInv'
  <2> USE <1>5 DEF KeyOffFactory, Warning_Disable, BackToNormal
  <2>1. RestTyped'
    BY <1>1, Frame
  <2>2. MotoOK' /\ TestTyped'
    BY <1>1, DetectOK
  <2>3. ScanOK' /\ Now_Status' \in {"Open", "Close"} /\ priority' \in 0..8
    BY <1>2, ClearOK
  <2> QED BY <2>1, <2>2, <2>3, CalmStep
<1>6. CASE KeyWipe
  <2> USE <1>6 DEF KeyWipe
  <2>1. TestTyped' /\ ScanOK'
    BY <1>1, Frame
  <2>2. RestTyped'
    BY <1>1 DEF RestTyped
  <2>3. MotoTyped'
    BY <1>1 DEF MotoOK, MotoTyped
  <2>4. LockedShut' /\ SelfTestSound'
    BY <1>1 DEF MotoOK, LockedShut, SelfTestSound, MotorsOff, OtherOff
  <2>5. StatusOK'
    BY <1>1, Frame
  <2>6. LinkOK'
    BY <1>1 DEF LinkOK, ThawKeepsLock, SlaveAlarmLocked, SlaveAlarmShown, OtherOff
  <2> QED BY <2>1, <2>2, <2>3, <2>4, <2>5, <2>6, Join DEF MotoOK
<1>7. CASE KeyOffLong
  <2> USE <1>7 DEF KeyOffLong, Start_Learn, Stop_Learn, Warning_Disable, BackToNormal
  <2>1. TestTyped' /\ MotoOK'
    BY <1>1, Frame
  <2>2. RestTyped'
    BY <1>1 DEF RestTyped, tableVars
  <2>3. ScanOK' /\ Now_Status' \in {"Open", "Close", "Learn"} /\ priority' \in 0..8
    BY <1>1, <1>2, ClearOK, Frame
  <2> QED BY <2>1, <2>2, <2>3, CalmStep
<1> QED BY <1>3, <1>4, <1>5, <1>6, <1>7 DEF Keys

\* The tail of DataSolve, after a command that left the valve, the stored
\* state and the status alone and the priority no lower than it was.
LEMMA ReactStep ==
    ASSUME IInv, NEW pr \in 0..8, pr >= priority, NEW alive \in BOOLEAN,
           Offline_React(Now_Status, pr, alive),
           MotoOK', TestTyped', RestTyped',
           UNCHANGED <<ValveStatus, LastFlag, NTC_State, SlaveAlarm, wiping>>
    PROVE  IInv'
<1>1. StatusOK /\ ScanOK /\ LinkOK
  BY Parts
<1>2. CASE Now_Status = "Offline" /\ alive
  <2>1. ScanOK' /\ Now_Status' \in {"Open", "Close"} /\ priority' \in 0..8
    BY <1>2, ClearOK DEF Offline_React, Warning_Disable, BackToNormal, NormalStatus
  <2> QED BY <2>1, CalmStep
<1>3. CASE Now_Status # "Offline" \/ ~alive
  <2>1. Now_Status' = Now_Status /\ priority' = pr /\ UNCHANGED scanVars
    BY <1>3 DEF Offline_React
  <2>2. ScanOK'
    BY <1>1, <2>1, Frame
  <2>3. StatusOK'
    BY <1>1, <2>1, RankRange DEF StatusOK, PriorityShown
  <2>4. LinkOK'
    BY <1>1, <2>1, LinkFrame
  <2> QED BY <2>2, <2>3, <2>4, Join
<1> QED BY <1>2, <1>3

\* A received frame.
LEMMA RadioStep == ASSUME IInv, Radio PROVE IInv'
<1>1. MotoOK /\ TestTyped /\ StatusOK /\ ScanOK /\ RestTyped /\ LinkOK
  BY Parts
<1>2. priority \in 0..8 /\ priority >= priority /\ NormalStatus \in {"Open", "Close"}
  BY <1>1 DEF StatusOK, NormalStatus
<1>3. ASSUME NEW d \in Devices, NEW alive \in BOOLEAN, LowBattery(d, alive) PROVE IInv'
  <2> DEFINE pr == IF Accepts("SlaverLowPower") THEN EventPriority["SlaverLowPower"] ELSE priority
  <2>1. pr \in 0..8 /\ pr >= priority
    BY <1>2, Ranks DEF Accepts
  <2>2. MotoOK' /\ TestTyped' /\ RestTyped'
    BY <1>1, <1>3, Frame DEF LowBattery
  <2>3. Offline_React(Now_Status, pr, alive)
          /\ UNCHANGED <<ValveStatus, LastFlag, NTC_State, SlaveAlarm, wiping>>
    BY <1>3 DEF LowBattery, motoVars, modeVars, tableVars
  <2> HIDE DEF pr
  <2> QED BY <2>1, <2>2, <2>3, ReactStep
<1>4. ASSUME NEW d \in Devices, NEW alive \in BOOLEAN, UltraLowBattery(d, alive) PROVE IInv'
  <2> USE <1>4 DEF UltraLowBattery
  <2>1. TestTyped' /\ RestTyped'
    BY <1>1, Frame
  <2>2. CASE Accepts("SlaverUltraLowPower")
    <3>1. "SlaverUltraLowPower" \in ClosingAlarms
      BY DEF ClosingAlarms
    <3>2. MotoOK' /\ StatusOK' /\ Now_Status' = "SlaverUltraLowPower"
      BY <1>1, <2>2, <3>1, EnableOK
    <3>3. ScanOK'
      BY <1>1, <2>2, Frame
    <3>4. LinkOK'
      BY <1>1, <3>2, LinkFrame
    <3> QED BY <2>1, <3>2, <3>3, <3>4, Join
  <2>3. CASE ~Accepts("SlaverUltraLowPower")
    <3>1. MotoOK'
      BY <1>1, <2>3, Frame
    <3>2. UNCHANGED <<ValveStatus, LastFlag, NTC_State, SlaveAlarm, wiping>>
      BY <2>3 DEF motoVars, modeVars, tableVars
    <3>3. Offline_React(Now_Status, priority, alive)
      BY <2>3
    <3> QED BY <1>2, <2>1, <3>1, <3>2, <3>3, ReactStep
  <2> QED BY <2>2, <2>3
<1>5. ASSUME NEW d \in Devices, LearnRequest(d) PROVE IInv'
  <2> USE <1>5 DEF LearnRequest, Start_Learn
  <2>1. MotoOK' /\ TestTyped' /\ ScanOK'
    BY <1>1, Frame
  <2>2. RestTyped'
    BY <1>1 DEF RestTyped, tableVars
  <2> QED BY <1>2, <2>1, <2>2, CalmStep
<1>6. ASSUME NEW d \in Devices, SlaveWater(d) PROVE IInv'
  <2> USE <1>6 DEF SlaveWater
  <2>1. TestTyped' /\ ScanOK'
    BY <1>1, Frame
  <2>2. RestTyped'
    BY <1>1 DEF RestTyped, modeVars, SetAlarm
  <2>3. SlaveAlarm' # {}
    BY DEF SetAlarm
  <2>4. CASE Now_Status # "SlaverWaterAlarmActive"
    <3>1. "SlaverWaterAlarmActive" \in ClosingAlarms /\ CloseFlag("SlaverWaterAlarmActive") = OtherOff
      BY DEF ClosingAlarms, CloseFlag
    <3>2. Accepts("SlaverWaterAlarmActive")
      BY <1>2, Ranks DEF Accepts
    <3>3. MotoOK' /\ StatusOK' /\ Now_Status' = "SlaverWaterAlarmActive" /\ LastFlag' = OtherOff
      BY <1>1, <2>4, <3>1, <3>2, EnableOK
    <3>4. LinkOK'
      BY <2>3, <3>3 DEF LinkOK, ThawKeepsLock, SlaveAlarmLocked, SlaveAlarmShown
    <3> QED BY <2>1, <2>2, <3>3, <3>4, Join
  <2>5. CASE Now_Status = "SlaverWaterAlarmActive"
    <3>1. MotoOK' /\ StatusOK' /\ LastFlag' = LastFlag
      BY <1>1, <2>5, Frame
    <3>2. LinkOK'
      BY <1>1, <2>3, <2>5, <3>1 DEF LinkOK, ThawKeepsLock, SlaveAlarmLocked, SlaveAlarmShown, statusVars, modeVars
    <3> QED BY <2>1, <2>2, <3>1, <3>2, Join
  <2> QED BY <2>4, <2>5
<1>7. ASSUME NEW d \in Devices, NEW alive \in BOOLEAN, RadioOpen(d, alive) PROVE IInv'
  <2> USE <1>7 DEF RadioOpen
  <2>1. TestTyped'
    BY <1>1, Frame
  <2>2. RestTyped'
    BY <1>1 DEF RestTyped, tableVars
  <2>3. CASE Now_Status \in Normal
    <3>1. MotoOK' /\ ScanOK'
      BY <1>1, <2>3, OpenOK, Frame
    <3>2. Now_Status' = "Open"
      BY <2>3 DEF OpenedStatus, MayOpen
    <3>3. priority' \in 0..8
      BY <1>2, <2>3
    <3> QED BY <2>1, <2>2, <3>1, <3>2, <3>3, CalmStep
  <2>4. CASE Now_Status \notin Normal
    <3>1. MotoOK'
      BY <1>1, <2>4, Frame
    <3>2. UNCHANGED <<ValveStatus, LastFlag, NTC_State, SlaveAlarm, wiping>>
      BY <2>4 DEF motoVars, tableVars
    <3>3. Offline_React(Now_Status, priority, alive)
      BY <2>4
    <3> QED BY <1>2, <2>1, <2>2, <3>1, <3>2, <3>3, ReactStep
  <2> QED BY <2>3, <2>4
<1>8. ASSUME NEW d \in Devices, NEW alive \in BOOLEAN, RadioClose(d, alive) PROVE IInv'
  <2> USE <1>8 DEF RadioClose, ClearAlarm
  <2>1. TestTyped'
    BY <1>1, Frame
  <2>2. RestTyped'
    BY <1>1 DEF RestTyped
  <2>3. CASE StatusAfterFlag(d) \in Normal
    <3>1. MotoOK' /\ ScanOK'
      BY <1>1, <2>3, CloseOK, ClearOK
    <3>2. Now_Status' = "Close" /\ priority' \in 0..8
      BY <2>3 DEF ClosedStatus, MayClose
    <3> QED BY <2>1, <2>2, <3>1, <3>2, CalmStep
  <2>4. CASE StatusAfterFlag(d) \notin Normal
    <3>1. MotoOK' /\ LastFlag' = LastFlag /\ ValveStatus' = ValveStatus
      BY <1>1, <2>4, Frame
    <3>2. SlaveAlarm # {} => SlaveAlarm' # {}
      BY <1>2, <2>4 DEF StatusAfterFlag, Normal
    <3>3. Offline_React(Now_Status, priority, alive)
      BY <2>4
    <3>4. CASE Now_Status' \in {"Open", "Close"}
      <4>1. ScanOK' /\ priority' \in 0..8
        BY <1>1, <1>2, <3>3, ClearOK, Frame DEF Offline_React, Warning_Disable, BackToNormal
      <4> QED BY <2>1, <2>2, <3>1, <3>4, <4>1, CalmStep
    <3>5. CASE Now_Status' \notin {"Open", "Close"}
      <4>1. UNCHANGED statusVars /\ UNCHANGED scanVars
        BY <1>2, <3>3, <3>5 DEF Offline_React, Warning_Disable, BackToNormal, statusVars
      <4>2. StatusOK' /\ ScanOK'
        BY <1>1, <3>1, <4>1, Frame
      <4>3. LinkOK'
        BY <1>1, <3>1, <3>2, <4>1 DEF LinkOK, ThawKeepsLock, SlaveAlarmLocked, SlaveAlarmShown, statusVars
      <4> QED BY <2>1, <2>2, <3>1, <4>2, <4>3, Join
    <3> QED BY <3>4, <3>5
  <2> QED BY <2>3, <2>4
<1>9. ASSUME NEW d \in Devices, NEW cancel \in BOOLEAN, NEW alive \in BOOLEAN,
             RadioDelay(d, cancel, alive) \/ OtherFrame(d, alive)
      PROVE  IInv'
  <2>1. MotoOK' /\ TestTyped' /\ RestTyped'
    BY <1>1, <1>9, Frame DEF RadioDelay, OtherFrame
  <2>2. Offline_React(Now_Status, priority, alive)
          /\ UNCHANGED <<ValveStatus, LastFlag, NTC_State, SlaveAlarm, wiping>>
    BY <1>9 DEF RadioDelay, OtherFrame, motoVars, modeVars, tableVars
  <2> QED BY <1>2, <2>1, <2>2, ReactStep
<1>10. ASSUME NEW open \in BOOLEAN, GatewayControl(open) PROVE IInv'
  <2> USE <1>10 DEF GatewayControl
  <2>1. TestTyped' /\ ScanOK' /\ RestTyped'
    BY <1>1, Frame
  <2>2. MotoOK'
    BY <1>1, OpenOK, CloseOK
  <2>3. Now_Status' \in {"Open", "Close"}
    BY DEF OpenedStatus, ClosedStatus, MayOpen, MayClose
  <2> QED BY <1>2, <2>1, <2>2, <2>3, CalmStep
<1>11. ASSUME NEW d \in Devices, Device_Learn(d) PROVE IInv'
  <2> USE <1>11 DEF Device_Learn
  <2>1. MotoOK' /\ TestTyped' /\ ScanOK'
    BY <1>1, Frame
  <2>2. RestTyped'
    BY <1>1 DEF RestTyped, modeVars, Inherited
  <2>3. SlaveAlarm # {} => SlaveAlarm' # {}
    BY DEF Inherited
  <2> QED BY <2>1, <2>2, <2>3, TableStep DEF motoVars, modeVars
<1>12. ASSUME NEW d \in Devices, Delete_Device(d) PROVE IInv'
  <2> USE <1>12 DEF Delete_Device
  <2>1. MotoOK' /\ TestTyped' /\ ScanOK'
    BY <1>1, Frame
  <2>2. RestTyped'
    BY <1>1 DEF RestTyped, modeVars
  <2>3. SlaveAlarm # {} => SlaveAlarm' # {}
    OBVIOUS
  <2> QED BY <2>1, <2>2, <2>3, TableStep DEF motoVars, modeVars
<1> QED BY <1>3, <1>4, <1>5, <1>6, <1>7, <1>8, <1>9, <1>10, <1>11, <1>12 DEF Radio

-----------------------------------------------------------------------------
(***************************************************************************)
(* The theorems.                                                           *)
(***************************************************************************)
\* Every step of the unit keeps the invariant.
LEMMA InductiveStep == IInv /\ [Next]_vars => IInv'
<1> SUFFICES ASSUME IInv, [Next]_vars PROVE IInv'
  OBVIOUS
<1>1. CASE Radio
  BY <1>1, RadioStep
<1>2. CASE Keys
  BY <1>2, KeyStep
<1>3. CASE SoftTimers
  BY <1>3, ScanStepOK, NTCStep, TimerStep, SelfTestStep DEF SoftTimers
<1>4. CASE Hardware
  <2>1. CASE WireChange
    <3>1. MotoOK /\ TestTyped /\ ScanOK /\ RestTyped
      BY Parts
    <3>2. MotoOK' /\ TestTyped' /\ ScanOK'
      BY <2>1, <3>1, Frame DEF WireChange
    <3>3. RestTyped'
      BY <2>1, <3>1 DEF WireChange, RestTyped, modeVars, tableVars
    <3> QED BY <2>1, <3>2, <3>3, StillStep DEF WireChange, motoVars, modeVars, tableVars
  <2>2. StoredAlarm \in SUBSET Devices
    BY DEF IInv, TypeOK
  <2>3. CASE Reset
    BY <2>2, <2>3, BootStep DEF Reset
  <2>4. ASSUME NEW d \in Devices, ResetInAlarm(d) \/ ResetInClose(d) PROVE IInv'
    <3>1. StoredAlarm \cup {d} \in SUBSET Devices /\ StoredAlarm \ {d} \in SUBSET Devices
      BY <2>2
    <3> QED BY <2>4, <3>1, BootStep DEF ResetInAlarm, ResetInClose
  <2> QED BY <1>4, <2>1, <2>3, <2>4, SelfTestStep, RTCStep DEF Hardware
<1>5. CASE UNCHANGED vars
  BY <1>5 DEF IInv, TypeOK, LockedShut, SelfTestSound, AlarmShut, PriorityShown, ThawKeepsLock,
     SlaveAlarmLocked, SlaveAlarmShown, ScanArmed, MotorsOff, vars, statusVars, motoVars, testVars, scanVars,
     modeVars, tableVars
<1> QED BY <1>1, <1>2, <1>3, <1>4, <1>5 DEF Next

\* The first boot satisfies it.
LEMMA InitInv == Init => IInv
<1> SUFFICES ASSUME Init PROVE IInv
  OBVIOUS
<1>1. TypeOK
  BY TestPinsAssumption DEF Init, TypeOK, Device_Status, NormalOpen
<1>2. LockedShut /\ SelfTestSound
  BY DEF Init, LockedShut, SelfTestSound, MotorsOff, OtherOff, NormalOpen
<1>3. AlarmShut /\ PriorityShown /\ ThawKeepsLock /\ SlaveAlarmLocked /\ ScanArmed
  BY DEF Init, AlarmShut, PriorityShown, ThawKeepsLock, SlaveAlarmLocked, SlaveAlarmShown, ScanArmed, Alarms, ClosingAlarms
<1> QED BY <1>1, <1>2, <1>3 DEF IInv

\* The inductive invariant holds in every reachable state.
THEOREM Invariance == Spec => []IInv
BY InitInv, InductiveStep, PTL DEF Spec

\* Every variable of Valve keeps the range the C types and enums give it.
THEOREM TypeCorrect == Spec => []TypeOK
<1>1. IInv => TypeOK
  BY DEF IInv
<1> QED BY <1>1, Invariance, PTL

\* A valve closed from afar is shut, its outputs are low, and no self-test
\* timer is left that would raise them (Moto_Close).
THEOREM LockedStaysShut == Spec => []LockedShut
<1>1. IInv => LockedShut
  BY DEF IInv
<1> QED BY <1>1, Invariance, PTL

\* A closing warning is shown only over a shut valve (Warning_Enable).
THEOREM AlarmsAreShut == Spec => []AlarmShut
<1>1. IInv => AlarmShut
  BY DEF IInv
<1> QED BY <1>1, Invariance, PTL

\* The motor self-test only borrows outputs and inputs (Moto_Detect and its
\* timers against Moto_Open and Moto_Close).
THEOREM SelfTestIsSound == Spec => []SelfTestSound
<1>1. IInv => SelfTestSound
  BY DEF IInv
<1> QED BY <1>1, Invariance, PTL

\* The freeze check never schedules the reopening of a locked valve
\* (ntc_scan_timer_callback).
THEOREM ThawRespectsLock == Spec => []ThawKeepsLock
<1>1. IInv => ThawKeepsLock
  BY DEF IInv
<1> QED BY <1>1, Invariance, PTL

\* The scan's transition codes never make it deaf (waterscan_timer_callback).
THEOREM ScanStaysArmed == Spec => []ScanArmed
<1>1. IInv => ScanArmed
  BY DEF IInv
<1> QED BY <1>1, Invariance, PTL

-----------------------------------------------------------------------------
\* Steps: a warning is never replaced by a less urgent one, and the unit
\* implements both the interlock and the table of registrations and flags.

\* The status after a step is no warning, is the one before, or is a warning
\* the arbiter accepted.
RankStep ==
    \/ Now_Status' \notin Alarms
    \/ Now_Status' = Now_Status
    \/ priority <= EventPriority[Now_Status']

\* Either way of raising a warning is a RankStep.
LEMMA RaiseRank ==
    ASSUME priority \in 0..8, NEW w \in Alarms, Warning_Enable(w) \/ Warning_Notify(w)
    PROVE  RankStep
BY RankRange DEF Warning_Enable, Warning_Notify, Accepts, RankStep, statusVars

\* So are the steps that end in a status that is no warning or leave it.
LEMMA CalmRank ==
    ASSUME \/ Now_Status' \in {"Open", "Close", "Learn", "MasterWaterAlarmDeActive", Now_Status}
    PROVE  RankStep
BY DEF RankStep, Alarms, ClosingAlarms

\* Every step is.
LEMMA EveryRank == ASSUME IInv, Next PROVE RankStep
<1>1. priority \in 0..8 /\ NormalStatus \in {"Open", "Close"}
  BY DEF IInv, TypeOK, NormalStatus
<1>2. {"MasterWaterAlarmActive", "MasterLostPeak", "NTCWarning", "MotoFail", "Offline",
       "SlaverUltraLowPower", "SlaverWaterAlarmActive"} \subseteq Alarms
  BY DEF Alarms, ClosingAlarms
<1>3. ASSUME NEW a \in SUBSET Devices, Boot(a) PROVE RankStep
  BY <1>1, <1>3, Ranks DEF Boot, Moto_Init, RankStep, Alarms, ClosingAlarms
<1>4. CASE Radio
  <2>1. ASSUME NEW st, NEW pr, NEW alive, Offline_React(st, pr, alive), st = Now_Status PROVE RankStep
    BY <1>1, <2>1, CalmRank DEF Offline_React, Warning_Disable, BackToNormal
  <2>2. ASSUME NEW d \in Devices, NEW alive \in BOOLEAN,
               LowBattery(d, alive) \/ UltraLowBattery(d, alive) \/ OtherFrame(d, alive)
                 \/ \E cancel \in BOOLEAN : RadioDelay(d, cancel, alive)
        PROVE  RankStep
    BY <1>1, <1>2, <2>1, <2>2, RaiseRank DEF LowBattery, UltraLowBattery, OtherFrame, RadioDelay
  <2>3. ASSUME NEW d \in Devices, NEW alive \in BOOLEAN, RadioOpen(d, alive) PROVE RankStep
    BY <2>1, <2>3, CalmRank DEF RadioOpen, OpenedStatus
  <2>4. ASSUME NEW d \in Devices, NEW alive \in BOOLEAN, RadioClose(d, alive) PROVE RankStep
    BY <1>1, <2>1, <2>4, CalmRank DEF RadioClose, ClosedStatus
  <2>5. ASSUME NEW d \in Devices, LearnRequest(d) \/ SlaveWater(d) \/ Device_Learn(d) \/ Delete_Device(d) PROVE RankStep
    BY <1>1, <1>2, <2>5, RaiseRank, CalmRank DEF LearnRequest, SlaveWater, Device_Learn, Delete_Device,
       Start_Learn, statusVars
  <2>6. ASSUME NEW o \in BOOLEAN, GatewayControl(o) PROVE RankStep
    BY <2>6, CalmRank DEF GatewayControl, OpenedStatus, ClosedStatus
  <2> QED BY <1>4, <2>2, <2>3, <2>4, <2>5, <2>6 DEF Radio
<1>5. CASE Keys
  BY <1>1, <1>5, CalmRank DEF Keys, KeyOn, KeyOff, KeyOffFactory, KeyWipe, KeyOffLong, Start_Learn, Stop_Learn,
     Warning_Disable, BackToNormal, OpenedStatus, ClosedStatus, statusVars
<1>6. CASE SoftTimers
  <2>1. CASE waterscan_timer_callback
    BY <1>1, <1>2, <2>1, CalmRank, RaiseRank DEF waterscan_timer_callback, WaterGone, WaterToLost, WireLost,
       WireBack, WaterFound, statusVars
  <2>2. ASSUME NEW v \in Volts, ntc_scan_timer_callback(v) PROVE RankStep
    BY <1>1, <1>2, <2>2, CalmRank, RaiseRank DEF ntc_scan_timer_callback, NTC_Freeze, NTC_Thaw,
       OpenedStatus, ClosedStatus
  <2>3. CASE Delay_Timer_Callback \/ Learn_Timer_Callback
    BY <1>1, <2>3, CalmRank DEF Delay_Timer_Callback, Learn_Timer_Callback, Stop_Learn, Warning_Disable,
       BackToNormal, ClosedStatus
  <2>4. ASSUME NEW S \in SUBSET Sensors, Moto_Detect_Timer_Callback(S) PROVE RankStep
    BY <2>4, CalmRank DEF Moto_Detect_Timer_Callback, statusVars
  <2>5. ASSUME NEW m \in Motor, Moto_Timer_Act_Callback(m) \/ Turn_Timer_Callback(m) PROVE RankStep
    BY <1>1, <1>2, <2>5, CalmRank, RaiseRank DEF Moto_Timer_Act_Callback, Turn_Timer_Callback, statusVars
  <2> QED BY <1>6, <2>1, <2>2, <2>3, <2>4, <2>5 DEF SoftTimers
<1>7. CASE Hardware
  <2>1. StoredAlarm \in SUBSET Devices
    BY DEF IInv, TypeOK
  <2>2. CASE WireChange \/ \E m \in Motor : Turn_Edge_Callback(m)
    BY <2>2, CalmRank DEF WireChange, Turn_Edge_Callback, statusVars
  <2>3. CASE Reset \/ \E d \in Devices : ResetInAlarm(d) \/ ResetInClose(d)
    BY <1>3, <2>1, <2>3 DEF Reset, ResetInAlarm, ResetInClose
  <2>4. ASSUME NEW test \in BOOLEAN, NEW off \in BOOLEAN, NEW S \in SUBSET Sensors,
               RTC_Timer_Entry(test, off, S)
        PROVE  RankStep
    BY <1>1, <1>2, <2>4, CalmRank, RaiseRank DEF RTC_Timer_Entry, statusVars
  <2> QED BY <1>7, <2>2, <2>3, <2>4 DEF Hardware
<1> QED BY <1>4, <1>5, <1>6, <1>7 DEF Next

\* A shown warning gives way only to one at least as urgent, or to a status
\* that is no warning (Warning_Enable's comparison of priorities).
THEOREM NeverDowngraded == Spec => NoDowngrade
<1>1. ASSUME IInv, [Next]_vars
      PROVE  [(Now_Status \in Alarms /\ Now_Status' \in Alarms)
                => (EventPriority[Now_Status] <= EventPriority[Now_Status'])]_vars
  <2>1. CASE UNCHANGED vars
    BY <2>1
  <2>2. CASE Next
    <3> SUFFICES ASSUME Now_Status \in Alarms, Now_Status' \in Alarms
                 PROVE  EventPriority[Now_Status] <= EventPriority[Now_Status']
      OBVIOUS
    <3>1. RankStep
      BY <1>1, <2>2, EveryRank
    <3>2. EventPriority[Now_Status] \in 1..8 /\ EventPriority[Now_Status'] \in 1..8
      BY RankRange
    <3>3. priority >= EventPriority[Now_Status] /\ priority \in 0..8
      BY <1>1 DEF IInv, PriorityShown, TypeOK
    <3> QED BY <3>1, <3>2, <3>3 DEF RankStep
  <2> QED BY <1>1, <2>1, <2>2
<1> QED BY <1>1, Invariance, PTL DEF Spec, NoDowngrade

-----------------------------------------------------------------------------
(***************************************************************************)
(* The refinement.  Each handler is first shown to be one of nine kinds of *)
(* step in terms of the valve, the lock, the remote open and the alarm     *)
(* kind; each kind is then an action of the interlock.                     *)
(***************************************************************************)
Locked == LastFlag = OtherOff
Remote == LastFlag = OtherOpen

Held        == ValveStatus' = ValveStatus /\ Locked' = Locked /\ Remote' = Remote
StutterKind == Held /\ AlarmKind' = AlarmKind
ClearKind   == Held /\ AlarmKind' = "none"
RaiseKind   == /\ ValveStatus' = 0 /\ (Locked => Locked') /\ (Remote' => Remote)
               /\ AlarmKind' \in {"freeze", "leak"} /\ (AlarmKind = "leak" => AlarmKind' = "leak")
LockKind    == ValveStatus' = 0 /\ Locked' /\ ~Remote' /\ AlarmKind' = "none"
MoveKind    == ~Locked /\ ~Locked' /\ ~Remote' /\ AlarmKind = "none" /\ AlarmKind' = "none"
RemoteKind  == ValveStatus' = 1 /\ ~Locked' /\ Remote' /\ AlarmKind = "none" /\ AlarmKind' = "none"
ThawKind    == ~Locked /\ ~Locked' /\ ~Remote' /\ AlarmKind = "freeze" /\ AlarmKind' = "none"
WipeKind    == ValveStatus' = ValveStatus /\ ~Locked' /\ ~Remote' /\ AlarmKind' = AlarmKind
RestartKind == ((ValveStatus' = 1) <=> ~Locked) /\ Locked' = Locked /\ ~Remote' /\ AlarmKind' = "none"

AbstractStep ==
    \/ StutterKind \/ ClearKind \/ RaiseKind \/ LockKind \/ MoveKind
    \/ RemoteKind \/ ThawKind \/ WipeKind \/ RestartKind

\* Each kind is an action of the interlock.
LEMMA KindsAreSteps == AbstractStep => [Interlock!Next]_(Interlock!ilVars)
<1> SUFFICES ASSUME AbstractStep PROVE [Interlock!Next]_(Interlock!ilVars)
  OBVIOUS
<1> USE DEF Interlock!ilVars, Locked, Remote
<1>1. CASE StutterKind
  BY <1>1 DEF StutterKind, Held
<1>2. CASE ClearKind
  <2>1. Interlock!Clear
    BY <1>2 DEF ClearKind, Held, Interlock!Clear
  <2> QED BY <2>1 DEF Interlock!Next
<1>3. CASE RaiseKind
  <2>1. Interlock!Raise(AlarmKind') /\ AlarmKind' \in {"freeze", "leak"}
    BY <1>3 DEF RaiseKind, Interlock!Raise
  <2> QED BY <2>1 DEF Interlock!Next
<1>4. CASE LockKind
  <2>1. Interlock!Lock
    BY <1>4 DEF LockKind, Interlock!Lock
  <2> QED BY <2>1 DEF Interlock!Next
<1>5. CASE MoveKind
  <2>1. Interlock!LocalMove(ValveStatus' = 1)
    BY <1>5 DEF MoveKind, Interlock!LocalMove
  <2>2. (ValveStatus' = 1) \in BOOLEAN
    OBVIOUS
  <2> QED BY <2>1, <2>2 DEF Interlock!Next
<1>6. CASE RemoteKind
  <2>1. Interlock!RemoteOpen
    BY <1>6 DEF RemoteKind, Interlock!RemoteOpen
  <2> QED BY <2>1 DEF Interlock!Next
<1>7. CASE ThawKind
  <2>1. Interlock!Thaw(ValveStatus' = 1)
    BY <1>7 DEF ThawKind, Interlock!Thaw
  <2>2. (ValveStatus' = 1) \in BOOLEAN
    OBVIOUS
  <2> QED BY <2>1, <2>2 DEF Interlock!Next
<1>8. CASE WipeKind
  <2>1. Interlock!Wipe
    BY <1>8 DEF WipeKind, Interlock!Wipe
  <2> QED BY <2>1 DEF Interlock!Next
<1>9. CASE RestartKind
  <2>1. Interlock!Restart
    BY <1>9 DEF RestartKind, Interlock!Restart
  <2> QED BY <2>1 DEF Interlock!Next
<1> QED BY <1>1, <1>2, <1>3, <1>4, <1>5, <1>6, <1>7, <1>8, <1>9 DEF AbstractStep

\* A closing warning is a Raise, or is refused and changes nothing.
LEMMA EnableKind ==
    ASSUME IInv, NEW w \in ClosingAlarms, Warning_Enable(w)
    PROVE  RaiseKind \/ StutterKind
<1>1. MotoOK /\ StatusOK
  BY Parts
<1>2. CASE Accepts(w)
  <2>1. Now_Status' = w /\ ValveStatus' = 0 /\ (Locked => Locked')
    BY <1>1, <1>2, EnableOK DEF Locked
  <2>2. AlarmKind' \in {"freeze", "leak"} /\ (w # "NTCWarning" => AlarmKind' = "leak")
    BY <2>1 DEF AlarmKind
  <2>3. w = "NTCWarning" => AlarmKind # "leak"
    <3> SUFFICES ASSUME w = "NTCWarning", AlarmKind = "leak" PROVE FALSE
      OBVIOUS
    <3>1. Now_Status \in ClosingAlarms \ {"NTCWarning"}
      BY DEF AlarmKind
    <3>2. priority >= EventPriority[Now_Status] /\ priority \in 0..8
      BY <1>1, <3>1 DEF StatusOK, PriorityShown, Alarms
    <3>3. EventPriority[Now_Status] \in 5..8
      BY <3>1, Ranks DEF ClosingAlarms
    <3> QED BY <1>2, <3>2, <3>3, Ranks DEF Accepts
  <2>4. Remote' => Remote
    BY <1>2 DEF Warning_Enable, Moto_Close, CloseFlag, Remote, NormalOff, OtherOff, OtherOpen, motoVars
  <2> QED BY <2>1, <2>2, <2>3, <2>4 DEF RaiseKind
<1>3. CASE ~Accepts(w)
  BY <1>1, <1>3, EnableOK DEF StutterKind, Held, Locked, Remote, AlarmKind, statusVars, motoVars
<1> QED BY <1>2, <1>3

\* A status that is no closing warning has no alarm kind.
LEMMA CalmKind ==
    /\ Now_Status \in {"Open", "Close", "Learn", "MasterWaterAlarmDeActive", "MasterLostPeak", "MotoFail"}
         => AlarmKind = "none"
    /\ Now_Status' \in {"Open", "Close", "Learn", "MasterWaterAlarmDeActive", "MasterLostPeak", "MotoFail"}
         => AlarmKind' = "none"
BY DEF AlarmKind, ClosingAlarms

\* A step that leaves the valve and the lock and either leaves the status or
\* ends in one that is no closing warning.
LEMMA QuietKind ==
    ASSUME ValveStatus' = ValveStatus, LastFlag' = LastFlag,
           Now_Status' \in {"Open", "Close", "Learn", "MasterWaterAlarmDeActive", "MasterLostPeak",
                            "MotoFail", Now_Status}
    PROVE  AbstractStep
<1>1. CASE Now_Status' = Now_Status
  BY <1>1 DEF AbstractStep, StutterKind, Held, AlarmKind, Locked, Remote
<1>2. CASE Now_Status' # Now_Status
  BY <1>2, CalmKind DEF AbstractStep, ClearKind, Held, Locked, Remote
<1> QED BY <1>1, <1>2

\* A boot is a Restart or, with an alarm flag in flash, a Raise.
LEMMA BootKind == ASSUME NEW a, Boot(a) PROVE AbstractStep
<1>1. CASE a \cap Registered = {}
  BY <1>1, CalmKind DEF Boot, Moto_Init, AbstractStep, RestartKind, Locked, Remote,
     NormalOpen, OtherOff, OtherOpen
<1>2. CASE a \cap Registered # {}
  <2>1. ValveStatus' = 0 /\ Locked' /\ ~Remote' /\ AlarmKind' = "leak"
    BY <1>2 DEF Boot, Moto_Init, AlarmKind, ClosingAlarms, Locked, Remote, OtherOff, OtherOpen
  <2> QED BY <2>1 DEF AbstractStep, RaiseKind
<1> QED BY <1>1, <1>2

\* A local open or close out of a status that is no closing warning.
LEMMA LocalKind ==
    ASSUME IInv, Now_Status \in {"Open", "Close", "MasterLostPeak"}, Now_Status' \in {"Open", "Close"},
           Moto_Open(NormalOpen) \/ Moto_Close(NormalOff)
    PROVE  AbstractStep
<1>1. MotoOK
  BY Parts
<1>2. AlarmKind = "none" /\ AlarmKind' = "none"
  BY CalmKind
<1>3. CASE Locked
  <2>1. ValveStatus' = ValveStatus /\ LastFlag' = LastFlag
    BY <1>3 DEF Locked, Moto_Open, Moto_Close, MayOpen, NormalOpen, OtherOpen, NormalOff, OtherOff, motoVars
  <2> QED BY <2>1, QuietKind
<1>4. CASE ~Locked
  <2>1. LastFlag' \in {NormalOpen, NormalOff}
    BY <1>4 DEF Locked, Moto_Open, Moto_Close, MayOpen
  <2> QED BY <1>2, <1>4, <2>1 DEF Locked, Remote, NormalOpen, NormalOff, OtherOff, OtherOpen,
     AbstractStep, MoveKind
<1> QED BY <1>3, <1>4

\* Every step of the unit is one of the nine kinds.
LEMMA EveryKind == ASSUME IInv, Next PROVE AbstractStep
<1>1. MotoOK /\ StatusOK /\ LinkOK /\ NormalStatus \in {"Open", "Close"}
  BY Parts DEF NormalStatus
<1>2. ASSUME NEW w \in ClosingAlarms, Warning_Enable(w) PROVE AbstractStep
  BY <1>2, EnableKind DEF AbstractStep
<1>3. {"MasterWaterAlarmActive", "NTCWarning", "Offline", "SlaverUltraLowPower",
       "SlaverWaterAlarmActive"} \subseteq ClosingAlarms
  BY DEF ClosingAlarms
<1>4. ASSUME UNCHANGED statusVars, UNCHANGED motoVars PROVE AbstractStep
  BY <1>4, QuietKind DEF statusVars, motoVars
<1>5. ASSUME Moto_Close(OtherOff), Now_Status' \in {"Open", "Close"} PROVE AbstractStep
  BY <1>1, <1>5, CloseOK, CalmKind DEF AbstractStep, LockKind, Locked, Remote, OtherOff, OtherOpen
<1>6. ASSUME Moto_Open(OtherOpen), Now_Status \in Normal, Now_Status' \in {"Open", "Close"} PROVE AbstractStep
  BY <1>1, <1>6, OpenOK, CalmKind DEF Normal, MayOpen, AbstractStep, RemoteKind, Locked, Remote, OtherOpen, OtherOff
<1>7. CASE Radio
  <2>1. ASSUME NEW pr, NEW alive, Offline_React(Now_Status, pr, alive), UNCHANGED motoVars PROVE AbstractStep
    BY <1>1, <2>1, QuietKind DEF Offline_React, Warning_Disable, BackToNormal, motoVars
  <2>2. ASSUME NEW d \in Devices, NEW alive \in BOOLEAN,
               LowBattery(d, alive) \/ UltraLowBattery(d, alive) \/ OtherFrame(d, alive)
                 \/ \E cancel \in BOOLEAN : RadioDelay(d, cancel, alive)
        PROVE  AbstractStep
    BY <1>2, <1>3, <2>1, <2>2 DEF LowBattery, UltraLowBattery, OtherFrame, RadioDelay
  <2>3. ASSUME NEW d \in Devices, NEW alive \in BOOLEAN, RadioOpen(d, alive) PROVE AbstractStep
    BY <1>6, <2>1, <2>3 DEF RadioOpen, OpenedStatus, MayOpen
  <2>4. ASSUME NEW d \in Devices, NEW alive \in BOOLEAN, RadioClose(d, alive) PROVE AbstractStep
    BY <1>5, <2>1, <2>4 DEF RadioClose, ClosedStatus, MayClose
  <2>5. ASSUME NEW d \in Devices, LearnRequest(d) \/ Device_Learn(d) \/ Delete_Device(d) PROVE AbstractStep
    BY <1>4, <2>5, QuietKind DEF LearnRequest, Device_Learn, Delete_Device, Start_Learn, motoVars
  <2>6. ASSUME NEW d \in Devices, SlaveWater(d) PROVE AbstractStep
    BY <1>2, <1>3, <1>4, <2>6 DEF SlaveWater
  <2>7. ASSUME NEW o \in BOOLEAN, GatewayControl(o) PROVE AbstractStep
    BY <1>5, <1>6, <2>7 DEF GatewayControl, OpenedStatus, ClosedStatus, MayOpen, MayClose
  <2> QED BY <1>7, <2>2, <2>3, <2>4, <2>5, <2>6, <2>7 DEF Radio
<1>8. CASE Keys
  <2>1. CASE KeyOn
    BY <2>1, LocalKind DEF KeyOn, OpenedStatus
  <2>2. CASE KeyOff
    BY <1>1, <2>2, LocalKind, QuietKind DEF KeyOff, ClosedStatus, Warning_Disable, BackToNormal, motoVars
  <2>3. ASSUME NEW S \in SUBSET Sensors, KeyOffFactory(S) PROVE AbstractStep
    BY <1>1, <2>3, QuietKind DEF KeyOffFactory, Moto_Detect, Warning_Disable, BackToNormal, motoVars
  <2>4. CASE KeyWipe
    BY <2>4 DEF KeyWipe, AbstractStep, WipeKind, Locked, Remote, OtherOff, OtherOpen, AlarmKind, statusVars
  <2>5. CASE KeyOffLong
    BY <1>1, <2>5, QuietKind DEF KeyOffLong, Start_Learn, Stop_Learn, Warning_Disable, BackToNormal, motoVars
  <2> QED BY <1>8, <2>1, <2>2, <2>3, <2>4, <2>5 DEF Keys
<1>9. CASE SoftTimers
  <2>1. CASE waterscan_timer_callback
    <3>1. CASE WaterGone \/ WaterToLost \/ WireLost \/ WireBack
      BY <1>1, <3>1, QuietKind DEF WaterGone, WaterToLost, WireLost, WireBack, Warning_Notify, statusVars, motoVars
    <3>2. ASSUME NEW p, NEW c, WaterFound(p, c) PROVE AbstractStep
      BY <1>2, <1>3, <1>4, <3>2 DEF WaterFound
    <3> QED BY <2>1, <3>1, <3>2 DEF waterscan_timer_callback
  <2>2. CASE NTC_Freeze
    BY <1>2, <1>3, <2>2 DEF NTC_Freeze
  <2>3. CASE NTC_Thaw
    <3>1. AlarmKind = "freeze" /\ Now_Status' \in {"Open", "Close"}
      BY <1>1, <2>3 DEF NTC_Thaw, AlarmKind, OpenedStatus, ClosedStatus
    <3>2. AlarmKind' = "none"
      BY <3>1, CalmKind
    <3>3. CASE NTC_State = 1
      <4>1. ~Locked /\ Moto_Open(NormalOpen)
        BY <1>1, <2>3, <3>3 DEF NTC_Thaw, LinkOK, ThawKeepsLock, Locked
      <4>2. ~Locked' /\ ~Remote'
        BY <1>1, <4>1, OpenOK DEF MayOpen, Locked, Remote, NormalOpen, OtherOff, OtherOpen
      <4> QED BY <3>1, <3>2, <4>1, <4>2 DEF AbstractStep, ThawKind
    <3>4. CASE NTC_State # 1
      <4>1. Moto_Close(NormalOff)
        BY <2>3, <3>4 DEF NTC_Thaw
      <4>2. CASE Locked
        <5>1. ValveStatus' = ValveStatus /\ LastFlag' = LastFlag
          BY <4>1, <4>2 DEF Locked, Moto_Close, NormalOff, OtherOff, motoVars
        <5> QED BY <3>1, <5>1, QuietKind
      <4>3. CASE ~Locked
        <5>1. ~Locked' /\ ~Remote'
          BY <1>1, <4>1, <4>3, CloseOK DEF Locked, Remote, NormalOff, OtherOff, OtherOpen
        <5> QED BY <3>1, <3>2, <4>3, <5>1 DEF AbstractStep, ThawKind
      <4> QED BY <4>2, <4>3
    <3> QED BY <3>3, <3>4
  <2>4. CASE Delay_Timer_Callback
    BY <1>5, <2>4 DEF Delay_Timer_Callback, ClosedStatus, MayClose
  <2>5. CASE Learn_Timer_Callback
    BY <1>1, <2>5, QuietKind DEF Learn_Timer_Callback, Stop_Learn, Warning_Disable, BackToNormal, motoVars
  <2>6. ASSUME NEW S \in SUBSET Sensors, Moto_Detect_Timer_Callback(S) PROVE AbstractStep
    BY <2>6, QuietKind DEF Moto_Detect_Timer_Callback, Moto_Detect, statusVars, motoVars
  <2>7. ASSUME NEW m \in Motor, Moto_Timer_Act_Callback(m) \/ Turn_Timer_Callback(m) PROVE AbstractStep
    BY <2>7, QuietKind DEF Moto_Timer_Act_Callback, Turn_Timer_Callback, Warning_Notify, statusVars
  <2> QED BY <1>9, <2>1, <2>2, <2>3, <2>4, <2>5, <2>6, <2>7 DEF SoftTimers, ntc_scan_timer_callback
<1>10. CASE Hardware
  <2>1. CASE WireChange \/ \E m \in Motor : Turn_Edge_Callback(m)
    BY <1>4, <2>1 DEF WireChange, Turn_Edge_Callback
  <2>2. CASE Reset \/ \E d \in Devices : ResetInAlarm(d) \/ ResetInClose(d)
    BY <2>2, BootKind DEF Reset, ResetInAlarm, ResetInClose
  <2>3. ASSUME NEW test \in BOOLEAN, NEW off \in BOOLEAN, NEW S \in SUBSET Sensors,
               RTC_Timer_Entry(test, off, S)
        PROVE  AbstractStep
    BY <1>2, <1>3, <2>3, QuietKind DEF RTC_Timer_Entry, Moto_Detect, statusVars, motoVars
  <2> QED BY <1>10, <2>1, <2>2, <2>3 DEF Hardware
<1> QED BY <1>7, <1>8, <1>9, <1>10 DEF Next

\* The unit implements the interlock, restarts between flash writes included.
THEOREM Refinement == Spec => ImplementsInterlock
<1>1. Init => Interlock!Init
  BY DEF Init, Interlock!Init, AlarmKind, ClosingAlarms, NormalOpen, OtherOff, OtherOpen
<1>2. ASSUME IInv, [Next]_vars PROVE [Interlock!Next]_(Interlock!ilVars)
  <2>1. CASE UNCHANGED vars
    BY <2>1 DEF vars, statusVars, motoVars, Interlock!ilVars, AlarmKind
  <2>2. CASE Next
    BY <1>2, <2>2, EveryKind, KindsAreSteps
  <2> QED BY <1>2, <2>1, <2>2
<1> QED BY <1>1, <1>2, Invariance, PTL DEF Spec, ImplementsInterlock, Interlock!Spec

-----------------------------------------------------------------------------
(***************************************************************************)
(* The table.  Only six handlers and the boots touch it.                   *)
(***************************************************************************)
FlagStep == [Table!Next]_(Table!atVars)

\* A boot over the flags a is a Restart of the table, or one within an
\* operation on d that set or cleared the flag of d.
LEMMA BootTable ==
    ASSUME NEW a, Boot(a),
           a = StoredAlarm \/ \E d \in Devices : a \in {StoredAlarm \cup {d}, StoredAlarm \ {d}}
    PROVE  FlagStep
<1>1. Table!Load /\ Registered' = Registered /\ StoredAlarm' = a
  BY DEF Boot, Table!Load
<1>2. CASE a = StoredAlarm
  BY <1>1, <1>2 DEF FlagStep, Table!Next, Table!Restart
<1>3. ASSUME NEW d \in Devices, a \in {StoredAlarm \cup {d}, StoredAlarm \ {d}} PROVE FlagStep
  <2>1. Table!RestartWithin(d, d)
    BY <1>1, <1>3 DEF Table!RestartWithin
  <2> QED BY <2>1 DEF FlagStep, Table!Next
<1> QED BY <1>2, <1>3

\* Every step of the unit is a step of the table or leaves it alone.
LEMMA EveryTable == ASSUME Next PROVE FlagStep
<1>1. ASSUME UNCHANGED tableVars PROVE FlagStep
  BY <1>1 DEF tableVars, FlagStep, Table!atVars
<1>2. CASE Radio
  <2>1. ASSUME NEW d \in Devices, NEW alive \in BOOLEAN,
               LowBattery(d, alive) \/ UltraLowBattery(d, alive) \/ OtherFrame(d, alive)
                 \/ RadioOpen(d, alive) \/ \E cancel \in BOOLEAN : RadioDelay(d, cancel, alive)
        PROVE  FlagStep
    BY <1>1, <2>1 DEF LowBattery, UltraLowBattery, OtherFrame, RadioOpen, RadioDelay
  <2>2. ASSUME NEW d \in Devices, NEW alive \in BOOLEAN, RadioClose(d, alive) PROVE FlagStep
    <3>1. Table!Lower(d)
      BY <2>2 DEF RadioClose, Hears, ClearAlarm, Table!Lower
    <3> QED BY <3>1 DEF FlagStep, Table!Next
  <2>3. ASSUME NEW d \in Devices, SlaveWater(d) PROVE FlagStep
    <3>1. Table!Raise(d)
      BY <2>3 DEF SlaveWater, Hears, SetAlarm, Table!Raise
    <3> QED BY <3>1 DEF FlagStep, Table!Next
  <2>4. ASSUME NEW d \in Devices, Delete_Device(d) PROVE FlagStep
    <3>1. Table!Delete(d)
      BY <2>4 DEF Delete_Device, Table!Delete, Table!Passed
    <3> QED BY <3>1 DEF FlagStep, Table!Next
  <2>5. ASSUME NEW d \in Devices, Device_Learn(d) PROVE FlagStep
    <3>1. CASE UNCHANGED <<Registered, SlaveAlarm>>
      BY <2>5, <3>1 DEF Device_Learn, FlagStep, Table!atVars
    <3>2. CASE d \notin Registered /\ Registered' = Registered \cup {d} /\ SlaveAlarm' \in Inherited(d)
      <4>1. \/ SlaveAlarm' = SlaveAlarm
            \/ Freed \in SlaveAlarm /\ SlaveAlarm' \in {SlaveAlarm \cup {d}, (SlaveAlarm \ {Freed}) \cup {d}}
        BY <3>2 DEF Inherited
      <4>2. Table!Add(d)
        BY <2>5, <3>2, <4>1 DEF Device_Learn, Table!Add, Table!Passed
      <4> QED BY <4>2 DEF FlagStep, Table!Next
    <3> QED BY <2>5, <3>1, <3>2 DEF Device_Learn
  <2>6. ASSUME NEW d \in Devices, LearnRequest(d) PROVE FlagStep
    BY <1>1, <2>6 DEF LearnRequest
  <2>7. ASSUME NEW o \in BOOLEAN, GatewayControl(o) PROVE FlagStep
    BY <1>1, <2>7 DEF GatewayControl
  <2> QED BY <1>2, <2>1, <2>2, <2>3, <2>4, <2>5, <2>6, <2>7 DEF Radio
<1>3. CASE Keys
  <2>1. CASE KeyWipe
    <3>1. Table!Wipe
      BY <2>1 DEF KeyWipe, Table!Wipe
    <3> QED BY <3>1 DEF FlagStep, Table!Next
  <2>2. CASE KeyOn \/ KeyOff \/ KeyOffLong \/ \E S \in SUBSET Sensors : KeyOffFactory(S)
    BY <1>1, <2>2 DEF KeyOn, KeyOff, KeyOffLong, KeyOffFactory
  <2> QED BY <1>3, <2>1, <2>2 DEF Keys
<1>4. CASE SoftTimers
  BY <1>1, <1>4 DEF SoftTimers, waterscan_timer_callback, Delay_Timer_Callback, Learn_Timer_Callback,
     ntc_scan_timer_callback, Moto_Detect_Timer_Callback, Moto_Timer_Act_Callback, Turn_Timer_Callback
<1>5. CASE Hardware
  <2>1. CASE Reset \/ \E d \in Devices : ResetInAlarm(d) \/ ResetInClose(d)
    BY <2>1, BootTable DEF Reset, ResetInAlarm, ResetInClose
  <2>2. CASE WireChange \/ \E m \in Motor : Turn_Edge_Callback(m)
    BY <1>1, <2>2 DEF WireChange, Turn_Edge_Callback
  <2>3. ASSUME NEW test \in BOOLEAN, NEW off \in BOOLEAN, NEW S \in SUBSET Sensors,
               RTC_Timer_Entry(test, off, S)
        PROVE  FlagStep
    BY <1>1, <2>3 DEF RTC_Timer_Entry
  <2> QED BY <1>5, <2>1, <2>2, <2>3 DEF Hardware
<1> QED BY <1>2, <1>3, <1>4, <1>5 DEF Next

\* The registrations and alarm flags of the unit, in memory and in flash,
\* change only as the table without slots does (flashwork.c as its callers
\* use it), which AlarmProofs shows the slots of flashwork.c to implement.
THEOREM TableRefinement == Spec => ImplementsTable
<1>1. Init => Table!Init
  BY DEF Init, Table!Init
<1>2. ASSUME [Next]_vars PROVE [Table!Next]_(Table!atVars)
  <2>1. CASE UNCHANGED vars
    BY <2>1 DEF vars, tableVars, Table!atVars
  <2>2. CASE Next
    BY <2>2, EveryTable DEF FlagStep
  <2> QED BY <1>2, <2>1, <2>2
<1> QED BY <1>1, <1>2, PTL DEF Spec, ImplementsTable, Table!Spec

-----------------------------------------------------------------------------
\* A step of the table keeps memory and flash in agreement about a device that
\* stays in it: Flash_Set_SlaveAlarmFlag and its counterpart write flash exactly
\* when they move the flag, a boot loads it, and slots taken or given up carry
\* the flags of other devices.
LEMMA RecordKept ==
    ASSUME FlagStep, Registered \subseteq Devices, NEW d \in Registered \cap Registered', Recorded(d)
    PROVE  Recorded(d)'
<1> USE DEF Recorded
<1>0. d \in Devices /\ d # Freed
  BY FreedAssumption
<1>1. CASE UNCHANGED Table!atVars
  BY <1>1 DEF Table!atVars
<1>2. ASSUME NEW x \in Devices, Table!Raise(x) \/ Table!Lower(x) PROVE Recorded(d)'
  BY <1>2 DEF Table!Raise, Table!Lower
<1>3. ASSUME NEW x \in Devices, Table!Delete(x) PROVE Recorded(d)'
  BY <1>0, <1>3 DEF Table!Delete, Table!Passed
<1>4. ASSUME NEW x \in Devices, Table!Add(x) PROVE Recorded(d)'
  BY <1>0, <1>4 DEF Table!Add, Table!Passed
<1>5. ASSUME NEW x \in Devices, NEW y \in Devices, Table!Replace(x, y) PROVE Recorded(d)'
  BY <1>5 DEF Table!Replace, Table!Passed
<1>6. CASE Table!Wipe
  BY <1>6 DEF Table!Wipe
<1>7. CASE Table!Load
  BY <1>7 DEF Table!Load
<1> QED BY <1>1, <1>2, <1>3, <1>4, <1>5, <1>6, <1>7
        DEF FlagStep, Table!Next, Table!Restart, Table!RestartWithin, Table!RestartInWipe

\* A slave alarm survives in flash: its flag stays recorded while its device is
\* in the table (Flash_Set_SlaveAlarmFlag, LoadDevice2Memory), and a boot finds
\* the lock and, if any flag behind the alarm is recorded, the alarm (Moto_Init),
\* also when power was lost between the flag and the close flag (DataSolve
\* command 4).
THEOREM SlaveAlarmIsStored == Spec => SlaveAlarmStored
<1> DEFINE Kept == \A d \in Registered \cap Registered' : Recorded(d) => Recorded(d)'
           Found == Reset /\ SlaveAlarmShown /\ wiping = 0
                      => /\ LastFlag' = OtherOff /\ ValveStatus' = 0
                         /\ SlaveAlarmShown' \/ \A d \in Registered \cap SlaveAlarm : ~Recorded(d)
           Cut == (\E d \in Devices : ResetInAlarm(d))
                      => SlaveAlarmShown' /\ LastFlag' = OtherOff /\ ValveStatus' = 0
<1>1. ASSUME IInv, [Next]_vars PROVE [Kept /\ Found /\ Cut]_vars
  <2>1. CASE UNCHANGED vars
    BY <2>1
  <2>2. CASE Next
    <3>1. Kept
      <4>1. FlagStep /\ Registered \subseteq Devices
        BY <1>1, <2>2, EveryTable DEF IInv, TypeOK
      <4> QED BY <4>1, RecordKept
    <3>2. Found
      <4> SUFFICES ASSUME Reset, SlaveAlarmShown, wiping = 0
                   PROVE  /\ LastFlag' = OtherOff /\ ValveStatus' = 0
                          /\ SlaveAlarmShown' \/ \A d \in Registered \cap SlaveAlarm : ~Recorded(d)
        OBVIOUS
      <4>1. LastFlag = OtherOff
        BY <1>1 DEF IInv, SlaveAlarmLocked
      <4>2. LastFlag' = OtherOff /\ ValveStatus' = 0
        BY <4>1 DEF Reset, Boot, Moto_Init
      <4>3. StoredAlarm \cap Registered # {} => SlaveAlarmShown'
        BY DEF Reset, Boot, Moto_Init, SlaveAlarmShown
      <4>4. StoredAlarm \cap Registered = {} => \A d \in Registered \cap SlaveAlarm : ~Recorded(d)
        BY DEF Recorded
      <4> QED BY <4>2, <4>3, <4>4
    <3>3. Cut
      <4> SUFFICES ASSUME NEW d \in Devices, ResetInAlarm(d)
                   PROVE  SlaveAlarmShown' /\ LastFlag' = OtherOff /\ ValveStatus' = 0
        OBVIOUS
      <4>1. (StoredAlarm \cup {d}) \cap Registered # {}
        BY DEF ResetInAlarm
      <4> QED BY <4>1 DEF ResetInAlarm, Boot, Moto_Init, SlaveAlarmShown
    <3> QED BY <3>1, <3>2, <3>3
  <2> QED BY <1>1, <2>1, <2>2
<1> QED BY <1>1, Invariance, PTL DEF Spec, SlaveAlarmStored
=============================================================================
