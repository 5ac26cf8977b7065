------------------------------- MODULE Valve -------------------------------
(***************************************************************************)
(* The control core of the valve main unit: the status word and the       *)
(* warning arbiter (applications/Status.c), the two motor outputs with     *)
(* their self-test (Moto.c), the water-wire scan (Work.c), the freeze      *)
(* sensor (ADCwork.c), the key handler (key.c), the hourly thread          *)
(* (RTCWork.c) and what a radio frame does to all of them                  *)
(* (radio/Radio_Decoder.c).                                                *)
(*                                                                         *)
(* A handler runs to completion: one action is one timer callback, one     *)
(* pass of the key thread, one received frame or one hour.  Power may be   *)
(* lost between any two of them and, where a handler writes flash twice,   *)
(* between the two writes.                                                 *)
(***************************************************************************)
EXTENDS ValveCore

-----------------------------------------------------------------------------
(***************************************************************************)
(* Boot: flash_Init, WarningInit, ..., Moto_Init, ..., DetectFactory, with *)
(* the alarm flags `stored' found in flash.  RAM starts at zero.           *)
(***************************************************************************)
Moto_Init(alarm) ==
    /\ Now_Status' = IF alarm # {} THEN "SlaverWaterAlarmActive"
                     ELSE IF LastFlag # OtherOff THEN "Open" ELSE "Close"
    /\ priority' = IF alarm # {} THEN EventPriority["SlaverWaterAlarmActive"] ELSE 0
    /\ LastFlag' = IF alarm # {} THEN OtherOff
                   ELSE IF LastFlag # OtherOff THEN NormalOpen ELSE LastFlag
    /\ ValveStatus' = IF alarm = {} /\ LastFlag # OtherOff THEN 1 ELSE 0
    /\ Turn' = [m \in Motor |-> IF alarm = {} /\ LastFlag # OtherOff THEN 1 ELSE 0]

Boot(stored) ==
    /\ Moto_Init(stored \cap Registered)
    /\ SlaveAlarm' = stored \cap Registered /\ StoredAlarm' = stored
    /\ Act' = {} /\ Det' = {} /\ SenorIrq' = {} /\ timers' = {}
    /\ Pause_Flag' = 0
    /\ Turn_Flag' = [m \in Motor |-> 0]
    /\ Moto_Fail_FLag' = [m \in Motor |-> 0]
    /\ WaterScan_Clear
    /\ NTC_State' = 0 /\ Learn_Flag' = 0 /\ Last_Close_Flag' = 0 /\ wiping' = 0
    /\ Factory_Flag' \in TestPins
    /\ UNCHANGED <<Registered, wire>>

\* First boot of a unit with blank flash.
Init ==
    /\ Now_Status = "Open" /\ priority = 0
    /\ ValveStatus = 1 /\ LastFlag = NormalOpen
    /\ Turn = [m \in Motor |-> 1]
    /\ Act = {} /\ Det = {} /\ SenorIrq = {} /\ timers = {}
    /\ Pause_Flag = 0
    /\ Turn_Flag = [m \in Motor |-> 0]
    /\ Moto_Fail_FLag = [m \in Motor |-> 0]
    /\ WarningPastStatus = 0 /\ WarningStatus = 0
    /\ NTC_State = 0 /\ Learn_Flag = 0 /\ Last_Close_Flag = 0 /\ wiping = 0
    /\ Factory_Flag \in TestPins
    /\ Registered = {} /\ SlaveAlarm = {} /\ StoredAlarm = {}
    /\ wire \in Wires

-----------------------------------------------------------------------------
(***************************************************************************)
(* Power loss, watchdog reset, or the reset that ends a wipe.              *)
(***************************************************************************)
Reset == Boot(StoredAlarm)

\* Power lost inside the handler of a slave's water alarm, after the alarm
\* flag reached flash and before the close flag did.
ResetInAlarm(d) ==
    /\ Learn_Flag = 0 /\ d \in Registered \ (SlaveAlarm \cup {Door})
    /\ Boot(StoredAlarm \cup {d})

\* Power lost inside the handler of a slave's close command, after its alarm
\* flag was cleared in flash and before the close flag was written.
ResetInClose(d) ==
    /\ Learn_Flag = 0 /\ d \in Registered \cap SlaveAlarm
    /\ Boot(StoredAlarm \ {d})

-----------------------------------------------------------------------------
(***************************************************************************)
(* Work.c: the one-second scan of the water wire.  While a self-test       *)
(* pauses the inputs both levels read as those of a dry wire.              *)
(***************************************************************************)
WireChange ==
    /\ wire' \in Wires \ {wire}
    /\ UNCHANGED <<statusVars, motoVars, testVars, timers, scanVars, modeVars, tableVars>>

WarningNowStatus ==
    IF Pause_Flag = 1 \/ wire = "dry" THEN 0 ELSE IF wire = "lost" THEN 1 ELSE 2

Detect_Learn == Now_Status # "Learn"

\* The scan finds `now' where it last acted on `past', records transition
\* `code' and the new past status `to'; the same code is not acted on twice.
ScanStep(past, now, code, to) ==
    /\ WarningPastStatus = past /\ WarningNowStatus = now
    /\ WarningStatus # code
    /\ WarningPastStatus' = to /\ WarningStatus' = code

WaterGone ==
    /\ ScanStep(2, 0, 1, 2)
    /\ Now_Status' = IF Detect_Learn THEN "MasterWaterAlarmDeActive" ELSE Now_Status
    /\ UNCHANGED <<priority, motoVars, timers>>

WaterToLost ==
    /\ ScanStep(2, 1, 2, 2)
    /\ UNCHANGED <<statusVars, motoVars, timers>>

WireLost ==
    /\ ScanStep(0, 1, 4, 1)
    /\ IF Detect_Learn THEN Warning_Notify("MasterLostPeak") ELSE UNCHANGED statusVars
    /\ UNCHANGED <<motoVars, timers>>

WaterFound(past, code) ==
    /\ ScanStep(past, 2, code, 2)
    /\ IF Detect_Learn THEN Warning_Enable("MasterWaterAlarmActive")
       ELSE UNCHANGED <<statusVars, motoVars, timers>>

WireBack ==
    /\ ScanStep(1, 0, 16, 0)
    /\ Now_Status' = IF Now_Status \in Normal \cup {"MasterLostPeak"}
                     THEN NormalStatus ELSE Now_Status
    /\ UNCHANGED <<priority, motoVars, timers>>

waterscan_timer_callback ==
    /\ WaterGone \/ WaterToLost \/ WireLost \/ WireBack
         \/ WaterFound(0, 8) \/ WaterFound(1, 32)
    /\ UNCHANGED <<testVars, modeVars, tableVars, wire>>

-----------------------------------------------------------------------------
(***************************************************************************)
(* ADCwork.c: the one-second freeze check.  A reading inside the           *)
(* hysteresis band takes neither branch.                                   *)
(***************************************************************************)
\* Faulty: only an open position saved, so that an old one is left standing.
NTC_Freeze_Latched ==
    /\ Now_Status # "NTCWarning"
    /\ NTC_State' = IF ValveStatus = 1 THEN 1 ELSE NTC_State
    /\ Warning_Enable("NTCWarning")
    /\ UNCHANGED scanVars

NTC_Freeze ==
    /\ Now_Status # "NTCWarning"
    /\ NTC_State' = ValveStatus
    /\ Warning_Enable("NTCWarning")
    /\ UNCHANGED scanVars

NTC_Thaw ==
    /\ Now_Status = "NTCWarning"
    /\ priority' = 0
    /\ WaterScan_Clear
    /\ IF NTC_State = 1
       THEN /\ Moto_Open(NormalOpen)
            /\ Now_Status' = OpenedStatus(NormalOpen, NormalStatus)
       ELSE /\ Moto_Close(NormalOff)
            /\ Now_Status' = ClosedStatus(NormalOff, NormalStatus)
    /\ UNCHANGED NTC_State

ntc_scan_timer_callback(v) ==
    /\ (v = "below" /\ NTC_Freeze) \/ (v = "above" /\ NTC_Thaw)
    /\ UNCHANGED <<testVars, Learn_Flag, Last_Close_Flag, Factory_Flag, wiping, tableVars, wire>>

-----------------------------------------------------------------------------
(***************************************************************************)
(* Moto.c and Status.c: the one-shot timers and the end-switch interrupt.  *)
(***************************************************************************)
Delay_Timer_Callback ==
    /\ "Delay" \in timers
    /\ Moto_Close(OtherOff)
    /\ Now_Status' = ClosedStatus(OtherOff, Now_Status)
    /\ UNCHANGED <<priority, testVars, scanVars, modeVars, tableVars, wire>>

Moto_Detect_Timer_Callback(S) ==
    /\ "MotoDetect" \in timers
    /\ timers' = timers \ {"MotoDetect"}
    /\ Moto_Detect(S)
    /\ UNCHANGED <<statusVars, scanVars, modeVars, tableVars, wire>>

\* Faulty: the timer expires and nothing is done.
Moto_Timer_Act_Callback_Idle(m) ==
    /\ m \in Act
    /\ Act' = Act \ {m}
    /\ UNCHANGED <<ValveStatus, LastFlag, Turn, Det, SenorIrq, Pause_Flag, statusVars, testVars,
                   timers, scanVars, modeVars, tableVars, wire>>

Moto_Timer_Act_Callback(m) ==
    /\ m \in Act
    /\ Act' = Act \ {m}
    /\ Turn' = [Turn EXCEPT ![m] = 1]
    /\ Det' = Det \cup {m}
    /\ UNCHANGED <<ValveStatus, LastFlag, SenorIrq, Pause_Flag, statusVars, testVars,
                   timers, scanVars, modeVars, tableVars, wire>>

\* Turn_Flag counts edges; only "fewer than two" is ever asked of it.
Turn_Edge_Callback(m) ==
    /\ m \in SenorIrq /\ Turn_Flag[m] < 2
    /\ Turn_Flag' = [Turn_Flag EXCEPT ![m] = @ + 1]
    /\ UNCHANGED <<statusVars, motoVars, Moto_Fail_FLag, timers, scanVars, modeVars,
                   tableVars, wire>>

\* Motor 1 keeps quiet about its failure while motor 2 is known to fail.
FailRaised(m) == Turn_Flag[m] < 2 /\ (m = 2 \/ Moto_Fail_FLag[2] = 0)

Turn_Timer_Callback(m) ==
    /\ m \in Det
    /\ Det' = Det \ {m}
    /\ Pause_Flag' = 0
    /\ SenorIrq' = SenorIrq \ {m}
    /\ Turn' = [Turn EXCEPT ![m] = 1]
    /\ Moto_Fail_FLag' = [Moto_Fail_FLag EXCEPT ![m] = IF Turn_Flag[m] < 2 THEN 1 ELSE 0]
    /\ IF FailRaised(m) THEN Warning_Notify("MotoFail") ELSE UNCHANGED statusVars
    /\ UNCHANGED <<ValveStatus, LastFlag, Act, Turn_Flag, timers, scanVars, modeVars,
                   tableVars, wire>>

-----------------------------------------------------------------------------
(***************************************************************************)
(* RTCWork.c: an hour has passed.  `test': this hour runs the self-test.   *)
(* `off': this hour runs the presence sweep and some sensor is silent.     *)
(* A close by the sweep undoes what the self-test just started.            *)
(***************************************************************************)
SweepCloses == Accepts("Offline") /\ Now_Status # "Offline"

RTC_Timer_Entry(test, off, S) ==
    /\ test \/ off
    /\ off => Registered \ {Door} # {}
    /\ \/ /\ ~off
          /\ Moto_Detect(S)
          /\ UNCHANGED <<statusVars, timers>>
       \/ /\ off /\ SweepCloses
          /\ Warning_Enable("Offline")
          /\ IF test /\ ValveStatus = 1
             THEN /\ Turn_Flag' = [m \in Motor |-> 0]
                  /\ Moto_Fail_FLag' = [m \in Motor |-> 0]
             ELSE UNCHANGED testVars
       \/ /\ off /\ ~SweepCloses
          /\ priority' = IF Accepts("Offline") THEN EventPriority["Offline"] ELSE priority
          /\ IF test THEN Moto_Detect(S) ELSE UNCHANGED <<motoVars, testVars>>
          /\ UNCHANGED <<Now_Status, timers>>
    /\ UNCHANGED <<scanVars, modeVars, tableVars, wire>>

-----------------------------------------------------------------------------
(***************************************************************************)
(* key.c: one pass of the key thread.  A key posted just before a          *)
(* self-test paused the inputs is still served, so there is no guard on    *)
(* Pause_Flag here.                                                        *)
(***************************************************************************)
KeyOn ==
    /\ wiping = 0
    /\ \/ /\ Now_Status = "Close" /\ Last_Close_Flag = 0
          /\ Now_Status' = OpenedStatus(NormalOpen, Now_Status)
       \/ /\ Now_Status = "MasterLostPeak"
          /\ Now_Status' = "Open"
    /\ Moto_Open(NormalOpen)
    /\ UNCHANGED <<priority, testVars, scanVars, modeVars, tableVars, wire>>

KeyOff ==
    /\ wiping = 0 /\ Factory_Flag = 0
    /\ \/ /\ Now_Status = "Open"
          /\ Last_Close_Flag' = 0
          /\ Moto_Close(NormalOff)
          /\ Now_Status' = ClosedStatus(NormalOff, Now_Status)
          /\ UNCHANGED <<priority, scanVars>>
       \/ /\ Now_Status = "MasterLostPeak"
          /\ Moto_Close(NormalOff)
          /\ Now_Status' = "Close"
          /\ UNCHANGED <<priority, scanVars, Last_Close_Flag>>
       \/ /\ Now_Status = "MasterWaterAlarmDeActive"
          /\ Warning_Disable
          /\ UNCHANGED <<motoVars, timers, Last_Close_Flag>>
    /\ UNCHANGED <<testVars, NTC_State, Learn_Flag, Factory_Flag, wiping, tableVars, wire>>

KeyOffFactory(S) ==
    /\ wiping = 0 /\ Factory_Flag = 1
    /\ Warning_Disable
    /\ Moto_Detect(S)
    /\ UNCHANGED <<timers, modeVars, tableVars, wire>>

\* Both keys held: everything stored is erased, and three seconds later the
\* unit resets.  Only the key thread sleeps meanwhile.
KeyWipe ==
    /\ wiping = 0
    /\ LastFlag' = 0 /\ Registered' = {} /\ SlaveAlarm' = {} /\ StoredAlarm' = {}
    /\ wiping' = 1
    /\ UNCHANGED <<statusVars, ValveStatus, Turn, Act, Det, SenorIrq, Pause_Flag, testVars, timers,
                   scanVars, NTC_State, Learn_Flag, Last_Close_Flag, Factory_Flag, wire>>

\* Faulty: learn mode entered without its timeout.
Start_Learn_Untimed ==
    /\ Now_Status \in Normal
    /\ Now_Status' = "Learn"
    /\ Learn_Flag' = 1
    /\ UNCHANGED timers

Start_Learn ==
    /\ Now_Status \in Normal
    /\ Now_Status' = "Learn"
    /\ Learn_Flag' = 1
    /\ timers' = timers \cup {"Learn"}

Stop_Learn ==
    /\ timers' = timers \ {"Learn"}
    /\ Learn_Flag' = 0
    /\ Warning_Disable

KeyOffLong ==
    /\ wiping = 0
    /\ \/ Start_Learn /\ UNCHANGED <<priority, scanVars>>
       \/ Now_Status = "Learn" /\ Stop_Learn
    /\ UNCHANGED <<motoVars, testVars, NTC_State, Last_Close_Flag, Factory_Flag, wiping,
                   tableVars, wire>>

Learn_Timer_Callback ==
    /\ "Learn" \in timers
    /\ Stop_Learn
    /\ UNCHANGED <<motoVars, testVars, NTC_State, Last_Close_Flag, Factory_Flag, wiping,
                   tableVars, wire>>

-----------------------------------------------------------------------------
(***************************************************************************)
(* Radio_Decoder.c: one received frame of registered device d, outside     *)
(* learn mode.  Every DataSolve ends in Offline_React; `alive' tells       *)
(* whether every sensor of the table is now marked alive.                  *)
(***************************************************************************)
Hears(d) == Learn_Flag = 0 /\ d \in Registered

\* Status and scan after a command that left st and pr, with the trailing
\* Offline_React.
Offline_React(st, pr, alive) ==
    \/ /\ st = "Offline" /\ alive
       /\ Warning_Disable
    \/ /\ st # "Offline" \/ ~alive
       /\ Now_Status' = st /\ priority' = pr
       /\ UNCHANGED scanVars

\* Command 2, handshake with a battery report.
LowBattery(d, alive) ==
    /\ Hears(d) /\ d # Door
    /\ Offline_React(Now_Status,
                     IF Accepts("SlaverLowPower") THEN EventPriority["SlaverLowPower"] ELSE priority,
                     alive)
    /\ UNCHANGED <<motoVars, testVars, timers, modeVars, tableVars, wire>>

UltraLowBattery(d, alive) ==
    /\ Hears(d) /\ d # Door
    /\ \/ /\ Accepts("SlaverUltraLowPower")
          /\ Warning_Enable("SlaverUltraLowPower")
          /\ UNCHANGED scanVars
       \/ /\ ~Accepts("SlaverUltraLowPower")
          /\ Offline_React(Now_Status, priority, alive)
          /\ UNCHANGED <<motoVars, timers>>
    /\ UNCHANGED <<testVars, modeVars, tableVars, wire>>

\* Command 3 with data 3.
LearnRequest(d) ==
    /\ Hears(d)
    /\ Start_Learn
    /\ UNCHANGED <<priority, motoVars, testVars, scanVars, NTC_State, Last_Close_Flag,
                   Factory_Flag, wiping, tableVars, wire>>

\* Faulty: the flag raised in memory only.
SetAlarm_Unsaved(d) == SlaveAlarm' = SlaveAlarm \cup {d} /\ UNCHANGED StoredAlarm

\* Flash_Set_SlaveAlarmFlag: flash is only written when the slot's flag moves.
SetAlarm(d) ==
    /\ SlaveAlarm' = SlaveAlarm \cup {d}
    /\ StoredAlarm' = IF d \in SlaveAlarm THEN StoredAlarm ELSE StoredAlarm \cup {d}

ClearAlarm(d) ==
    /\ SlaveAlarm' = SlaveAlarm \ {d}
    /\ StoredAlarm' = IF d \in SlaveAlarm THEN StoredAlarm \ {d} ELSE StoredAlarm

\* Command 4 with data 1.
SlaveWater(d) ==
    /\ Hears(d) /\ d # Door
    /\ SetAlarm(d)
    /\ IF Now_Status # "SlaverWaterAlarmActive"
       THEN Warning_Enable("SlaverWaterAlarmActive")
       ELSE UNCHANGED <<statusVars, motoVars, timers>>
    /\ UNCHANGED <<testVars, scanVars, modeVars, Registered, wire>>

\* Command 5.
RadioOpen(d, alive) ==
    /\ Hears(d)
    /\ \/ /\ Now_Status \in Normal
          /\ Moto_Open(OtherOpen)
          /\ Now_Status' = OpenedStatus(OtherOpen, Now_Status)
          /\ Last_Close_Flag' = 0
          /\ UNCHANGED <<priority, scanVars>>
       \/ /\ Now_Status \notin Normal
          /\ Offline_React(Now_Status, priority, alive)
          /\ UNCHANGED <<motoVars, timers, Last_Close_Flag>>
    /\ UNCHANGED <<testVars, NTC_State, Learn_Flag, Factory_Flag, wiping, tableVars, wire>>

\* The status command 6 finds once it has cleared d's alarm flag: clearing
\* the last flag lifts whatever warning is in force.
StatusAfterFlag(d) ==
    IF SlaveAlarm # {} /\ SlaveAlarm \ {d} = {} THEN NormalStatus ELSE Now_Status

\* Command 6.
RadioClose(d, alive) ==
    /\ Hears(d)
    /\ ClearAlarm(d)
    /\ \/ /\ StatusAfterFlag(d) \in Normal
          /\ priority' = 0
          /\ WaterScan_Clear
          /\ Last_Close_Flag' = 1
          /\ Moto_Close(OtherOff)
          /\ Now_Status' = ClosedStatus(OtherOff, NormalStatus)
       \/ /\ StatusAfterFlag(d) \notin Normal
          /\ Offline_React(Now_Status, priority, alive)
          /\ UNCHANGED <<motoVars, timers, Last_Close_Flag>>
    /\ UNCHANGED <<testVars, NTC_State, Learn_Flag, Factory_Flag, wiping, Registered, wire>>

\* Command 8: start (data 0) or cancel the four-hour closing delay.
RadioDelay(d, cancel, alive) ==
    /\ Hears(d)
    /\ \/ cancel /\ timers' = timers \ {"Delay"}
       \/ ~cancel /\ Now_Status = "Open" /\ timers' = timers \cup {"Delay"}
    /\ Offline_React(Now_Status, priority, alive)
    /\ UNCHANGED <<motoVars, testVars, modeVars, tableVars, wire>>

\* Commands 1, 9 and every other command or datum: only the trailing part.
OtherFrame(d, alive) ==
    /\ Hears(d)
    /\ Offline_React(Now_Status, priority, alive)
    /\ UNCHANGED <<motoVars, testVars, timers, modeVars, tableVars, wire>>

\* Gateway command 2, open (data 1) or close (data 0).  The gateway is heard
\* in learn mode too, and Last_Close_Flag is not told.
GatewayControl(open) ==
    /\ Registered # {}
    /\ Now_Status \in Normal
    /\ \/ /\ open
          /\ Moto_Open(OtherOpen)
          /\ Now_Status' = OpenedStatus(OtherOpen, Now_Status)
       \/ /\ ~open
          /\ Moto_Close(OtherOff)
          /\ Now_Status' = ClosedStatus(OtherOff, Now_Status)
    /\ UNCHANGED <<priority, testVars, scanVars, modeVars, tableVars, wire>>

\* Faulty: the deleted device still found by its alarm flag.
Delete_Device_Flagged(d) ==
    /\ d \in Registered
    /\ Registered' = Registered \ {d}
    /\ UNCHANGED <<statusVars, motoVars, testVars, timers, scanVars, modeVars, SlaveAlarm, StoredAlarm, wire>>

\* Gateway command 6: the slot of d is freed and keeps its alarm flag.
Delete_Device(d) ==
    /\ d \in Registered
    /\ Registered' = Registered \ {d}
    /\ SlaveAlarm' = IF d \in SlaveAlarm THEN (SlaveAlarm \ {d}) \cup {Freed} ELSE SlaveAlarm
    /\ UNCHANGED <<statusVars, motoVars, testVars, timers, scanVars, modeVars, StoredAlarm, wire>>

\* The flags after a new device took a free slot: it inherits what a deleted
\* one left there.
Inherited(d) ==
    {SlaveAlarm} \cup
      IF Freed \in SlaveAlarm THEN {SlaveAlarm \cup {d}, (SlaveAlarm \ {Freed}) \cup {d}} ELSE {}

\* A learn frame in learn mode: it may add the sender, and always restarts
\* the learn timer.
Device_Learn(d) ==
    /\ Learn_Flag = 1
    /\ \/ UNCHANGED <<Registered, SlaveAlarm>>
       \/ /\ d \notin Registered
          /\ Registered' = Registered \cup {d}
          /\ SlaveAlarm' \in Inherited(d)
    /\ timers' = timers \cup {"Learn"}
    /\ UNCHANGED <<statusVars, motoVars, testVars, scanVars, modeVars, StoredAlarm, wire>>

-----------------------------------------------------------------------------
Radio ==
    \/ \E d \in Devices, alive \in BOOLEAN :
          \/ LowBattery(d, alive) \/ UltraLowBattery(d, alive)
          \/ RadioOpen(d, alive) \/ RadioClose(d, alive) \/ OtherFrame(d, alive)
          \/ \E cancel \in BOOLEAN : RadioDelay(d, cancel, alive)
    \/ \E d \in Devices : LearnRequest(d) \/ SlaveWater(d) \/ Device_Learn(d) \/ Delete_Device(d)
    \/ \E open \in BOOLEAN : GatewayControl(open)

Keys == KeyOn \/ KeyOff \/ KeyOffLong \/ KeyWipe \/ \E S \in SUBSET Sensors : KeyOffFactory(S)

SoftTimers ==
    \/ waterscan_timer_callback \/ Delay_Timer_Callback \/ Learn_Timer_Callback
    \/ \E v \in Volts : ntc_scan_timer_callback(v)
    \/ \E S \in SUBSET Sensors : Moto_Detect_Timer_Callback(S)
    \/ \E m \in Motor : Moto_Timer_Act_Callback(m) \/ Turn_Timer_Callback(m)

Hardware ==
    \/ WireChange \/ Reset
    \/ \E m \in Motor : Turn_Edge_Callback(m)
    \/ \E d \in Devices : ResetInAlarm(d) \/ ResetInClose(d)
    \/ \E test, off \in BOOLEAN, S \in SUBSET Sensors : RTC_Timer_Entry(test, off, S)

Next == Radio \/ Keys \/ SoftTimers \/ Hardware

Spec == Init /\ [][Next]_vars

\* The soft-timer thread has the highest priority of the unit, so an armed
\* one-shot timer expires.
Fairness ==
    /\ WF_vars(Learn_Timer_Callback)
    /\ \A m \in Motor : /\ WF_vars(Moto_Timer_Act_Callback(m))
                        /\ WF_vars(Turn_Timer_Callback(m))

\* The scan is periodic and self-tests are minutes apart, so it also runs
\* between two pauses of the inputs.
FairSpec == Spec /\ Fairness /\ SF_vars(waterscan_timer_callback)

-----------------------------------------------------------------------------
TypeOK ==
    /\ Now_Status \in Device_Status
    /\ priority \in 0..8
    /\ ValveStatus \in {0, 1}
    /\ LastFlag \in 0..4
    /\ Turn \in [Motor -> {0, 1}]
    /\ Act \subseteq Motor /\ Det \subseteq Motor /\ SenorIrq \subseteq Motor
    /\ Pause_Flag \in {0, 1}
    /\ Turn_Flag \in [Motor -> 0..2]
    /\ Moto_Fail_FLag \in [Motor -> {0, 1}]
    /\ timers \subseteq {"Delay", "Learn", "MotoDetect"}
    /\ WarningPastStatus \in 0..2
    /\ WarningStatus \in {0, 1, 2, 4, 8, 16, 32}
    /\ NTC_State \in {0, 1} /\ Learn_Flag \in {0, 1} /\ Last_Close_Flag \in {0, 1}
    /\ Factory_Flag \in {0, 1} /\ wiping \in {0, 1}
    /\ Registered \subseteq Devices /\ StoredAlarm \subseteq Devices
    /\ SlaveAlarm \subseteq Devices \cup {Freed}
    /\ wire \in Wires
=============================================================================
