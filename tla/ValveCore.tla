----------------------------- MODULE ValveCore -----------------------------
(***************************************************************************)
(* State of the valve main unit and the operations every handler shares:   *)
(* the motor commands of applications/Moto.c and the warning arbiter of    *)
(* applications/Status.c.                                                  *)
(*                                                                         *)
(* The priority field of NowStatusEvent is `priority'.  Key_Pause_Flag and *)
(* Water_Alarm_Pause are only ever written together and are Pause_Flag.    *)
(* Beeps, lamps and uploads are outputs nothing reads back and are left    *)
(* out, and so are last_id and Valve_Alarm_Flag, which are written and     *)
(* never read.                                                             *)
(***************************************************************************)
EXTENDS Naturals

CONSTANTS
    Devices,    \* radio units that can be registered
    Door,       \* the one of them that is the door unit
    Sensors,    \* motors whose end switch can read high in a self-test
    Wires,      \* what the water wire can be: "dry", "wet" or "lost"
    Volts,      \* freeze-sensor readings outside the hysteresis band
    TestPins    \* the values of Factory_Flag a boot can sample

Motor == {1, 2}

\* Stands in SlaveAlarm for a slot whose device was deleted.
Freed == "freed"

ASSUME DoorAssumption == Door \in Devices
ASSUME FreedAssumption == Freed \notin Devices
ASSUME SensorsAssumption == Sensors \subseteq Motor
ASSUME WiresAssumption == "dry" \in Wires /\ Wires \subseteq {"dry", "wet", "lost"}
ASSUME VoltsAssumption == Volts \subseteq {"below", "above"}
ASSUME TestPinsAssumption == TestPins \subseteq {0, 1} /\ TestPins # {}

VARIABLES
    Now_Status, priority,                    \* Status.c
    ValveStatus, LastFlag,                   \* LastFlag is written through to flash
    Turn, Act, Det, SenorIrq, Pause_Flag,    \* pins, running self-test timers, edge IRQs
    Turn_Flag, Moto_Fail_FLag,
    timers,                                  \* running ones of Delay, Learn, MotoDetect
    WarningPastStatus, WarningStatus,        \* Work.c
    NTC_State, Learn_Flag, Last_Close_Flag, Factory_Flag,
    wiping,                                  \* key thread asleep in the wipe branch
    Registered,                              \* device table, written through to flash
    SlaveAlarm, StoredAlarm,                 \* alarm flags by table slot, in flash by device
    wire                                     \* the water wire itself

statusVars == <<Now_Status, priority>>
motoVars   == <<ValveStatus, LastFlag, Turn, Act, Det, SenorIrq, Pause_Flag>>
testVars   == <<Turn_Flag, Moto_Fail_FLag>>
scanVars   == <<WarningPastStatus, WarningStatus>>
modeVars   == <<NTC_State, Learn_Flag, Last_Close_Flag, Factory_Flag, wiping>>
tableVars  == <<Registered, SlaveAlarm, StoredAlarm>>
vars == <<statusVars, motoVars, testVars, timers, scanVars, modeVars, tableVars, wire>>

(***************************************************************************)
(* Names and values of the source.                                         *)
(***************************************************************************)
NormalOff  == 1
OtherOff   == 2
NormalOpen == 3
\* Faulty: a flag value outside the enumeration.
OtherOpen_Skewed == 5
OtherOpen  == 4

Device_Status ==
    {"Close", "Open", "SlaverLowPower", "SlaverUltraLowPower",
     "SlaverWaterAlarmActive", "MasterLostPeak", "MasterWaterAlarmActive",
     "MasterWaterAlarmDeActive", "NTCWarning", "MotoFail", "Learn", "Offline"}

\* The priority WarningInit gives each event.
EventPriority ==
    [SlaverLowPower |-> 4, SlaverWaterAlarmActive |-> 8, MasterLostPeak |-> 1,
     MasterWaterAlarmActive |-> 7, Offline |-> 5, MotoFail |-> 3,
     SlaverUltraLowPower |-> 6, NTCWarning |-> 2]

Normal == {"Open", "Close"}

-----------------------------------------------------------------------------
(***************************************************************************)
(* Moto.c: who may move the valve, and what moving it does.  Now_Status,   *)
(* which the callers often overwrite, is given by OpenedStatus and         *)
(* ClosedStatus: the status after the call when it was st before.          *)
(***************************************************************************)
\* Faulty: the permission check forgotten.
MayOpen_Unlocked(ActFlag) == TRUE

MayOpen(ActFlag) == LastFlag # OtherOff \/ ActFlag = OtherOpen

OpenedStatus(ActFlag, st) == IF MayOpen(ActFlag) THEN "Open" ELSE st

Moto_Open(ActFlag) ==
    \/ /\ MayOpen(ActFlag)
       /\ ValveStatus' = 1
       /\ LastFlag' = ActFlag
       /\ Turn' = [m \in Motor |-> 1]
       /\ timers' = (timers \ {"Delay"})
                      \cup (IF ActFlag = NormalOpen THEN {"MotoDetect"} ELSE {})
       /\ UNCHANGED <<Act, Det, SenorIrq, Pause_Flag>>
    \/ /\ ~MayOpen(ActFlag)
       /\ UNCHANGED <<motoVars, timers>>

MayClose(ActFlag) == LastFlag # OtherOff \/ ActFlag = OtherOff

ClosedStatus(ActFlag, st) == IF MayClose(ActFlag) THEN "Close" ELSE st

\* Faulty: the timers of the self-test left running.
StopSelfTest_Forgotten == UNCHANGED <<Act, Det, SenorIrq, Pause_Flag>>

\* Faulty: the inputs left paused.
StopSelfTest_Deaf == Act' = {} /\ Det' = {} /\ SenorIrq' = {} /\ UNCHANGED Pause_Flag

\* A close ends the self-test that is under way.
StopSelfTest == Act' = {} /\ Det' = {} /\ SenorIrq' = {} /\ Pause_Flag' = 0

Moto_Close(ActFlag) ==
    \/ /\ LastFlag # OtherOff
       /\ ValveStatus' = 0
       /\ LastFlag' = ActFlag
       /\ Turn' = [m \in Motor |-> 0]
       /\ StopSelfTest
       /\ timers' = timers \ {"Delay"}
    \/ /\ LastFlag = OtherOff /\ ActFlag = OtherOff
       /\ ValveStatus' = 0
       /\ timers' = timers \ {"Delay"}
       /\ UNCHANGED <<LastFlag, Turn, Act, Det, SenorIrq, Pause_Flag>>
    \/ /\ LastFlag = OtherOff /\ ActFlag # OtherOff
       /\ UNCHANGED <<motoVars, timers>>

\* Faulty: the inputs paused whatever the end switches read.
PauseFor_Always(S) == 1

PauseFor(S) == IF S = {} THEN Pause_Flag ELSE 1

\* Start the self-test of the motors S whose end switch reads high.
Moto_Detect(S) ==
    \/ /\ ValveStatus = 1
       /\ Turn_Flag' = [m \in Motor |-> 0]
       /\ Moto_Fail_FLag' = [m \in Motor |-> 0]
       /\ Turn' = [m \in Motor |-> IF m \in S THEN 0 ELSE Turn[m]]
       /\ SenorIrq' = SenorIrq \cup S
       /\ Act' = Act \cup S
       /\ Pause_Flag' = PauseFor(S)
       /\ UNCHANGED <<ValveStatus, LastFlag, Det>>
    \/ /\ ValveStatus # 1
       /\ UNCHANGED <<motoVars, testVars>>

-----------------------------------------------------------------------------
(***************************************************************************)
(* Status.c: the warning arbiter.                                          *)
(***************************************************************************)
\* Faulty: no comparison of priorities.
Accepts_Any(w) == TRUE

Accepts(w) == EventPriority[w] >= priority

\* Warning_Enable of an event whose callback leaves the valve alone.  The
\* low-battery callback does not even set Now_Status.
Warning_Notify(w) ==
    /\ priority' = IF Accepts(w) THEN EventPriority[w] ELSE priority
    /\ Now_Status' = IF Accepts(w) /\ w # "SlaverLowPower" THEN w ELSE Now_Status

\* What the callbacks that close the valve close it with.
CloseFlag(w) ==
    IF w \in {"SlaverWaterAlarmActive", "SlaverUltraLowPower"} THEN OtherOff ELSE NormalOff

\* Faulty: OfflineWarning returning early in every status.
AlreadyShown_Always(w) == w = "Offline"

\* OfflineWarning returns early when it is already shown.
AlreadyShown(w) == w = "Offline" /\ Now_Status = "Offline"

\* Warning_Enable of an event whose callback closes the valve.
Warning_Enable(w) ==
    \/ /\ Accepts(w)
       /\ priority' = EventPriority[w]
       /\ Now_Status' = w
       /\ IF AlreadyShown(w)
          THEN UNCHANGED <<motoVars, timers>>
          ELSE Moto_Close(CloseFlag(w))
    \/ /\ ~Accepts(w)
       /\ UNCHANGED <<statusVars, motoVars, timers>>

\* Faulty: only one of the two scan variables cleared.
WaterScan_Clear_PastOnly == WarningPastStatus' = 0 /\ UNCHANGED WarningStatus
WaterScan_Clear_CodeOnly == WarningStatus' = 0 /\ UNCHANGED WarningPastStatus

WaterScan_Clear == WarningPastStatus' = 0 /\ WarningStatus' = 0

\* The status BackToNormal settles on.
NormalStatus == IF ValveStatus = 1 THEN "Open" ELSE "Close"

BackToNormal == WaterScan_Clear /\ Now_Status' = NormalStatus

Warning_Disable == priority' = 0 /\ BackToNormal
=============================================================================
